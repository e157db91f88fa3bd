--------------------------- MODULE UserClaimsProofs ---------------------------
(***************************************************************************)
(* Proofs about UserClaims, for any subjects, providers, principals and      *)
(* number of logins, and with no bound on the number of events.             *)
(***************************************************************************)
EXTENDS UserClaims, WellFoundedInduction, TLAPS

-----------------------------------------------------------------------------
(* What the reads return.                                                   *)

LEMMA LeastElement ==
    ASSUME NEW S \in SUBSET Nat, S # {}
    PROVE  \E n \in S : \A m \in S : n <= m
<1> DEFINE Less == {pair \in Nat \X Nat : pair[1] < pair[2]}
<1>1. IsWellFoundedOn(Less, Nat)
  BY NatLessThanWellFounded DEF OpToRel
<1> HIDE DEF Less
<1>2. PICK x \in S : \A y \in S : ~ (<<y, x>> \in Less)
  BY <1>1, WFMin
<1>3. \A y \in S : ~ (y < x)
  BY <1>2 DEF Less
<1> QED
  BY <1>3

(* FirstOf is the value of the first claim of the type, if there is one.     *)
LEMMA FirstOfIndex ==
    ASSUME NEW p \in Principal, NEW t \in ClaimType
    PROVE  LET said == {i \in DOMAIN p.claims : p.claims[i].type = t} IN
           /\ said = {} => FirstOf(p, t) = None
           /\ said # {} => \E i \in said : /\ FirstOf(p, t) = p.claims[i].value
                                           /\ \A j \in said : i <= j
<1> DEFINE said == {i \in DOMAIN p.claims : p.claims[i].type = t}
<1>1. said \in SUBSET Nat
  BY PrincipalAssumption
<1>2. said # {} => \E i \in said : \A j \in said : i <= j
  BY <1>1, LeastElement
<1> QED
  BY <1>2 DEF FirstOf

LEMMA ClaimsTyped ==
    ASSUME NEW p \in Principal, NEW i \in DOMAIN p.claims
    PROVE  /\ i \in Nat
           /\ p.claims[i] \in Claim
           /\ p.claims[i].type \in ClaimType
           /\ p.claims[i].value \in Value
<1> DEFINE s == p.claims
<1>1. s \in Seq(Claim)
  BY PrincipalAssumption
<1> HIDE DEF s
<1>2. DOMAIN s = 1 .. Len(s) /\ Len(s) \in Nat
  BY <1>1
<1>3. \A j \in DOMAIN s : j \in Nat /\ s[j] \in Claim
  BY <1>1, <1>2
<1>4. i \in Nat /\ p.claims[i] \in Claim
  BY <1>3 DEF s
<1> QED
  BY <1>4 DEF Claim

LEMMA ProfileTyped ==
    ASSUME NEW p \in Principal
    PROVE  ProfileOf(p) \in Profile
<1>1. ASSUME NEW t \in IdType
      PROVE  FirstOf(p, t) \in Value \cup {None}
  <2>1. \A i \in DOMAIN p.claims : p.claims[i].value \in Value
    BY ClaimsTyped
  <2> QED
    BY <2>1, FirstOfIndex, IdTypeAssumption
<1> QED
  BY <1>1 DEF ProfileOf, Profile

LEMMA NonIdClaimsTyped ==
    ASSUME NEW p \in Principal
    PROVE  NonIdClaims(p) \subseteq Claim
BY ClaimsTyped DEF NonIdClaims

(* FirstOrDefault returns a document of the user, the one inserted first.    *)
LEMMA AccountIsFirst ==
    ASSUME NEW u, users \subseteq AppUser, Accounts(u) # {}
    PROVE  /\ Account(u) \in Accounts(u)
           /\ \A b \in Accounts(u) : Account(u).oid <= b.oid
<1> DEFINE oids == {a.oid : a \in Accounts(u)}
<1>1. oids \in SUBSET Nat /\ oids # {}
  BY DEF Accounts, AppUser
<1>2. PICK n \in oids : \A m \in oids : n <= m
  BY <1>1, LeastElement
<1>3. \E a \in Accounts(u) : \A b \in Accounts(u) : a.oid <= b.oid
  BY <1>2
<1> QED
  BY <1>3 DEF Account

-----------------------------------------------------------------------------
(* Types.                                                                   *)

(* What the type invariant does not say of a login in flight.               *)
LoginShape(s) ==
    /\ s.pc # "off" => s.principal \in Principal /\ s.result = "none"
    /\ s.pc = "find" => s.owner = 0
    /\ s.pc \in {"list", "write"} => s.owner # 0
    /\ s.pc \in {"find", "save", "list"} => s.doomed = {} /\ s.adding = {}

Typed == TypeOK /\ \A l \in Login : LoginShape(login[l])

LEMMA IdleTyped == IdleLogin \in LoginState /\ LoginShape(IdleLogin)
BY DEF IdleLogin, LoginState, LoginShape, NoProfile, Profile

LEMMA InitTyped == Init => Typed
BY IdleTyped DEF Init, Typed, TypeOK

(* A step that puts a well-formed login into one slot.                       *)
LEMMA LoginAssigned ==
    ASSUME Typed, NEW l \in Login, NEW s \in LoginState, LoginShape(s),
           login' = [login EXCEPT ![l] = s]
    PROVE  /\ login' \in [Login -> LoginState]
           /\ login'[l] = s
           /\ \A m \in Login : m # l => login'[m] = login[m]
           /\ \A m \in Login : LoginShape(login'[m])
BY DEF Typed, TypeOK

LEMMA BeginTyped ==
    ASSUME Typed, NEW l \in Login, Begin(l)
    PROVE  Typed'
<1>1. PICK p \in Principal :
        /\ login' = [m \in Login |->
                       IF m = l
                       THEN [IdleLogin EXCEPT !.pc = "find", !.principal = p,
                                              !.alone = InFlight(p.user) = {}]
                       ELSE IF m \in InFlight(p.user)
                            THEN [login[m] EXCEPT !.alone = FALSE]
                            ELSE login[m]]
        /\ settled' = [settled EXCEPT ![p.user] = None]
  BY DEF Begin
<1>2. ASSUME NEW b \in BOOLEAN
      PROVE  LET s == [IdleLogin EXCEPT !.pc = "find", !.principal = p, !.alone = b] IN
             s \in LoginState /\ LoginShape(s)
  BY IdleTyped DEF LoginState, LoginShape, IdleLogin
<1>3. ASSUME NEW m \in Login
      PROVE  LET s == [login[m] EXCEPT !.alone = FALSE] IN
             s \in LoginState /\ LoginShape(s)
  BY DEF Typed, TypeOK, LoginState, LoginShape
<1>4. \A m \in Login : login'[m] \in LoginState /\ LoginShape(login'[m])
  <2> SUFFICES ASSUME NEW m \in Login
               PROVE  login'[m] \in LoginState /\ LoginShape(login'[m])
    OBVIOUS
  <2>1. CASE m = l
    <3>1. login'[m] = [IdleLogin EXCEPT !.pc = "find", !.principal = p,
                                        !.alone = InFlight(p.user) = {}]
      BY <1>1, <2>1
    <3>2. (InFlight(p.user) = {}) \in BOOLEAN
      OBVIOUS
    <3> QED
      BY <3>1, <3>2, <1>2
  <2>2. CASE m # l /\ m \in InFlight(p.user)
    BY <1>1, <1>3, <2>2
  <2>3. CASE m # l /\ m \notin InFlight(p.user)
    BY <1>1, <2>3 DEF Typed, TypeOK
  <2> QED
    BY <2>1, <2>2, <2>3
<1>5. login' \in [Login -> LoginState]
  BY <1>1, <1>4
<1>6. settled' \in [User -> Principal \cup {None}]
  BY <1>1 DEF Typed, TypeOK
<1>7. UNCHANGED database /\ events' = events + 1
  BY Zenon DEF Begin, Event
<1> QED
  BY <1>4, <1>5, <1>6, <1>7 DEF Typed, TypeOK, database

LEMMA FindTyped ==
    ASSUME Typed, NEW l \in Login, Find(l)
    PROVE  Typed'
<1> DEFINE u == login[l].principal.user
           s == IF Accounts(u) = {}
                THEN [login[l] EXCEPT !.pc = "save"]
                ELSE [login[l] EXCEPT !.pc = "save", !.owner = Account(u).oid,
                                      !.loaded = Account(u).profile]
<1>1. login' = [login EXCEPT ![l] = s]
  BY DEF Find
<1>2. Accounts(u) # {} => Account(u).oid \in Nat /\ Account(u).profile \in Profile
  BY AccountIsFirst DEF Typed, TypeOK, Accounts, AppUser
<1>3. s \in LoginState /\ LoginShape(s)
  BY <1>2 DEF Typed, TypeOK, LoginState, LoginShape, Find
<1> QED
  BY <1>1, <1>3, LoginAssigned DEF Find, database, Typed, TypeOK

LEMMA SaveNewTyped ==
    ASSUME Typed, NEW l \in Login, SaveNew(l)
    PROVE  Typed'
<1> DEFINE s == [login[l] EXCEPT !.pc = "list", !.owner = nextOid]
<1>1. login' = [login EXCEPT ![l] = s]
  BY DEF SaveNew
<1>2. s \in LoginState /\ LoginShape(s)
  BY DEF Typed, TypeOK, LoginState, LoginShape, SaveNew
<1>3. login[l].principal \in Principal
  BY DEF Typed, LoginShape, SaveNew
<1>4. [oid |-> nextOid, user |-> login[l].principal.user,
       profile |-> ProfileOf(login[l].principal)] \in AppUser
  BY <1>3, ProfileTyped, PrincipalAssumption DEF AppUser, Typed, TypeOK
<1> QED
  BY <1>1, <1>2, <1>4, LoginAssigned DEF SaveNew, Typed, TypeOK

LEMMA SaveFoundTyped ==
    ASSUME Typed, NEW l \in Login, SaveFound(l)
    PROVE  Typed'
<1> DEFINE s == [login[l] EXCEPT !.pc = "list"]
<1>1. login' = [login EXCEPT ![l] = s]
  BY DEF SaveFound
<1>2. s \in LoginState /\ LoginShape(s)
  BY DEF Typed, TypeOK, LoginState, LoginShape, SaveFound
<1>3. login[l].principal \in Principal
  BY DEF Typed, LoginShape, SaveFound
<1>4. ASSUME NEW a \in users
      PROVE  Changed(l, a) \in AppUser
  BY <1>3, ProfileTyped DEF Changed, AppUser, Profile, Typed, TypeOK
<1>5. users' \subseteq AppUser
  BY <1>4 DEF SaveFound, Typed, TypeOK
<1> QED
  BY <1>1, <1>2, <1>5, LoginAssigned DEF SaveFound, Typed, TypeOK

LEMMA ListTyped ==
    ASSUME Typed, NEW l \in Login, List(l)
    PROVE  Typed'
<1> DEFINE s == [login[l] EXCEPT !.pc = "write",
                                 !.doomed = {c.oid : c \in Stored(login[l].owner)},
                                 !.adding = NonIdClaims(login[l].principal)]
<1>1. login' = [login EXCEPT ![l] = s]
  BY DEF List
<1>2. {c.oid : c \in Stored(login[l].owner)} \in SUBSET Nat
  BY DEF Stored, Typed, TypeOK, AppUserClaim
<1>3. NonIdClaims(login[l].principal) \in SUBSET Claim
  BY NonIdClaimsTyped DEF Typed, LoginShape, List
<1>4. s \in LoginState /\ LoginShape(s)
  BY <1>2, <1>3 DEF Typed, TypeOK, LoginState, LoginShape, List
<1> QED
  BY <1>1, <1>4, LoginAssigned DEF List, database, Typed, TypeOK
LEMMA DeleteOneTyped ==
    ASSUME Typed, NEW l \in Login, DeleteOne(l)
    PROVE  Typed'
<1>1. PICK oid \in login[l].doomed :
        /\ claims' = {c \in claims : c.oid # oid}
        /\ login' = [login EXCEPT ![l] =
                       [login[l] EXCEPT
                          !.doomed = login[l].doomed \ {oid},
                          !.missed = login[l].missed \/ (\A c \in claims : c.oid # oid)]]
  BY DEF DeleteOne
<1> DEFINE b == login[l].missed \/ (\A c \in claims : c.oid # oid)
           s == [login[l] EXCEPT !.doomed = login[l].doomed \ {oid}, !.missed = b]
<1>2. login' = [login EXCEPT ![l] = s]
  BY <1>1, Zenon
<1>3. b \in BOOLEAN
  BY Zenon
<1> HIDE DEF b
<1>4. s \in LoginState /\ LoginShape(s)
  BY <1>3 DEF Typed, TypeOK, LoginState, LoginShape, DeleteOne
<1> QED
  BY <1>1, <1>2, <1>4, LoginAssigned DEF DeleteOne, Typed, TypeOK

LEMMA InsertOneTyped ==
    ASSUME Typed, NEW l \in Login, InsertOne(l)
    PROVE  Typed'
<1>1. PICK c \in login[l].adding :
        /\ claims' = claims \cup {[oid |-> nextOid, owner |-> login[l].owner,
                                   type |-> c.type, value |-> c.value]}
        /\ login' = [login EXCEPT ![l] =
                       [login[l] EXCEPT !.adding = login[l].adding \ {c}]]
  BY DEF InsertOne
<1> DEFINE s == [login[l] EXCEPT !.adding = login[l].adding \ {c}]
<1>2. login' = [login EXCEPT ![l] = s]
  BY <1>1
<1>3. s \in LoginState /\ LoginShape(s)
  BY DEF Typed, TypeOK, LoginState, LoginShape, InsertOne
<1>4. [oid |-> nextOid, owner |-> login[l].owner,
       type |-> c.type, value |-> c.value] \in AppUserClaim
  BY DEF AppUserClaim, Claim, LoginState, Typed, TypeOK
<1>5. claims' \subseteq AppUserClaim
  BY <1>1, <1>4 DEF Typed, TypeOK
<1>6. login' \in [Login -> LoginState] /\ \A m \in Login : LoginShape(login'[m])
  BY <1>2, <1>3, LoginAssigned
<1>7. nextOid' = nextOid + 1 /\ UNCHANGED <<users, settled, events>>
  BY DEF InsertOne
<1> QED
  BY <1>5, <1>6, <1>7 DEF Typed, TypeOK

LEMMA FinishTyped ==
    ASSUME Typed, NEW l \in Login, NEW r \in {"failed", "conflict", "ok"},
           Finish(l, r)
    PROVE  /\ login' \in [Login -> LoginState]
           /\ \A m \in Login : LoginShape(login'[m])
           /\ login'[l] = [login[l] EXCEPT !.pc = "off", !.result = r]
           /\ \A m \in Login : m # l => login'[m] = login[m]
<1> DEFINE s == [login[l] EXCEPT !.pc = "off", !.result = r]
<1>1. login' = [login EXCEPT ![l] = s]
  BY DEF Finish
<1>2. s \in LoginState /\ LoginShape(s)
  BY DEF Typed, TypeOK, LoginState, LoginShape
<1> QED
  BY <1>1, <1>2, LoginAssigned

LEMMA CompleteTyped ==
    ASSUME Typed, NEW l \in Login, Complete(l)
    PROVE  Typed'
<1>1. PICK r \in {"failed", "conflict", "ok"} : Finish(l, r)
  BY DEF Complete
<1>2. login[l].principal \in Principal
  BY DEF Complete, Typed, LoginShape
<1>3. settled' \in [User -> Principal \cup {None}]
  BY <1>2 DEF Complete, Typed, TypeOK
<1> QED
  BY <1>1, <1>3, FinishTyped DEF Complete, database, Typed, TypeOK

LEMMA LoginFailsTyped ==
    ASSUME Typed, NEW l \in Login, LoginFails(l)
    PROVE  Typed'
<1>1. UNCHANGED <<database, settled>> /\ Finish(l, "failed") /\ events' = events + 1
  BY Zenon DEF LoginFails, Event
<1>2. login' \in [Login -> LoginState] /\ \A m \in Login : LoginShape(login'[m])
  BY <1>1, FinishTyped
<1>3. UNCHANGED <<users, claims, nextOid, settled>>
  BY <1>1 DEF database
<1> QED
  BY <1>1, <1>2, <1>3 DEF Typed, TypeOK

LEMMA RestartTyped ==
    ASSUME Typed, Restart
    PROVE  Typed'
<1>1. UNCHANGED <<database, settled>> /\ events' = events + 1
  BY Zenon DEF Restart, Event
<1>2. login' = [l \in Login |-> IdleLogin]
  BY DEF Restart
<1> QED
  BY <1>1, <1>2, IdleTyped DEF database, Typed, TypeOK

LEMMA NextTyped == Typed /\ [Next]_vars => Typed'
<1> SUFFICES ASSUME Typed, [Next]_vars PROVE Typed'
  OBVIOUS
<1>1. CASE Restart
  BY <1>1, RestartTyped
<1>2. CASE UNCHANGED vars
  BY <1>2 DEF vars, Typed, TypeOK
<1>3. ASSUME NEW l \in Login, Begin(l) \/ LoginStep(l) \/ LoginFails(l)
      PROVE  Typed'
  BY <1>3, BeginTyped, FindTyped, SaveNewTyped, SaveFoundTyped, ListTyped,
     DeleteOneTyped, InsertOneTyped, CompleteTyped, LoginFailsTyped
     DEF LoginStep
<1> QED
  BY <1>1, <1>2, <1>3 DEF Next

LEMMA AlwaysTyped == Spec => []Typed
BY InitTyped, NextTyped, PTL DEF Spec

(* The user store always has the declared shape.                            *)
THEOREM TypeCorrect == Spec => []TypeOK
<1>1. Typed => TypeOK
  BY DEF Typed
<1> QED
  BY AlwaysTyped, <1>1, PTL

-----------------------------------------------------------------------------
(* Object ids are unique, and a login in flight works on the document of     *)
(* its own user and on the claims of that document.                         *)

OidsUnique ==
    /\ \A a \in users : 0 < a.oid /\ a.oid < nextOid
    /\ \A c \in claims : c.oid < nextOid /\ c.owner < nextOid
    /\ \A a, b \in users : a.oid = b.oid => a = b
    /\ \A c, d \in claims : c.oid = d.oid => c = d

Owns(l) ==
    login[l].pc # "off" =>
        /\ login[l].owner # 0 =>
             \E a \in users : /\ a.oid = login[l].owner
                              /\ a.user = login[l].principal.user
        /\ \A oid \in login[l].doomed :
             /\ oid < nextOid
             /\ \A c \in claims : c.oid = oid => c.owner = login[l].owner

StoreInv == Typed /\ OidsUnique /\ \A l \in Login : Owns(l)

(* The steps keep documents' object ids and users, and new claims get new   *)
(* object ids.                                                              *)
StoreGrows ==
    /\ nextOid' \in Nat /\ nextOid <= nextOid'
    /\ \A a \in users : \E b \in users' : b.oid = a.oid /\ b.user = a.user
    /\ \A c \in claims' : c \in claims \/ nextOid <= c.oid

LEMMA OwnsKept ==
    ASSUME StoreInv, StoreGrows, NEW m \in Login,
           login'[m].pc # "off" =>
             /\ login[m].pc # "off"
             /\ login'[m].owner = login[m].owner
             /\ login'[m].principal = login[m].principal
             /\ login'[m].doomed \subseteq login[m].doomed
    PROVE  Owns(m)'
<1>1. nextOid \in Nat /\ \A oid \in login[m].doomed : oid \in Nat
  BY DEF StoreInv, Typed, TypeOK, LoginState
<1> QED
  BY <1>1 DEF StoreInv, StoreGrows, Owns

LEMMA InitStore == Init => StoreInv
BY InitTyped DEF Init, StoreInv, OidsUnique, Owns, IdleLogin

LEMMA BeginStore ==
    ASSUME StoreInv, NEW l \in Login, Begin(l)
    PROVE  StoreInv'
<1>1. UNCHANGED <<users, claims, nextOid>>
  BY DEF Begin, database
<1>2. Typed'
  BY BeginTyped DEF StoreInv
<1>3. StoreGrows
  BY <1>1 DEF StoreGrows, StoreInv, Typed, TypeOK
<1>4. Owns(l)'
  BY DEF Begin, Owns, IdleLogin, StoreInv, Typed, TypeOK
<1>5. ASSUME NEW m \in Login, m # l
      PROVE  Owns(m)'
  <2>1. \/ login'[m] = login[m]
        \/ login'[m] = [login[m] EXCEPT !.alone = FALSE]
    BY <1>5 DEF Begin
  <2>2. /\ login'[m].pc = login[m].pc
        /\ login'[m].owner = login[m].owner
        /\ login'[m].principal = login[m].principal
        /\ login'[m].doomed = login[m].doomed
    BY <2>1 DEF StoreInv, Typed, TypeOK, LoginState
  <2> QED
    BY <2>2, <1>3, OwnsKept
<1>6. OidsUnique'
  BY <1>1 DEF StoreInv, OidsUnique
<1> QED
  BY <1>2, <1>4, <1>5, <1>6 DEF StoreInv

(* A step of login l on the store, once its effect is known.                *)
LEMMA StepStore ==
    ASSUME StoreInv, NEW l \in Login, Typed', StoreGrows, OidsUnique',
           \A m \in Login : m # l => login'[m] = login[m],
           Owns(l)'
    PROVE  StoreInv'
<1>1. ASSUME NEW m \in Login, m # l
      PROVE  Owns(m)'
  BY <1>1, OwnsKept
<1> QED
  BY <1>1 DEF StoreInv

LEMMA OthersUntouched ==
    ASSUME StoreInv, NEW l \in Login, LoginStep(l) \/ LoginFails(l)
    PROVE  \A m \in Login : m # l => login'[m] = login[m]
<1>1. login \in [Login -> LoginState]
  BY DEF StoreInv, Typed, TypeOK
<1>2. \E s : login' = [login EXCEPT ![l] = s]
  <2>1. CASE Find(l)
    BY <2>1 DEF Find
  <2>2. CASE SaveNew(l)
    BY <2>2 DEF SaveNew
  <2>3. CASE SaveFound(l)
    BY <2>3 DEF SaveFound
  <2>4. CASE List(l)
    BY <2>4 DEF List
  <2>5. CASE DeleteOne(l)
    BY <2>5 DEF DeleteOne
  <2>6. CASE InsertOne(l)
    BY <2>6 DEF InsertOne
  <2>7. CASE Complete(l)
    BY <2>7 DEF Complete, Finish
  <2>8. CASE LoginFails(l)
    BY <2>8 DEF LoginFails, Finish
  <2> QED
    BY <2>1, <2>2, <2>3, <2>4, <2>5, <2>6, <2>7, <2>8 DEF LoginStep
<1> QED
  BY <1>1, <1>2

LEMMA FindStore ==
    ASSUME StoreInv, NEW l \in Login, Find(l)
    PROVE  StoreInv'
<1> DEFINE u == login[l].principal.user
<1>1. UNCHANGED <<users, claims, nextOid>>
  BY DEF Find, database
<1>2. Typed' /\ StoreGrows /\ OidsUnique'
  BY <1>1, FindTyped DEF StoreGrows, StoreInv, Typed, TypeOK, OidsUnique
<1>3. login[l] \in LoginState /\ login \in [Login -> LoginState]
      /\ login[l].owner = 0 /\ login[l].doomed = {}
  BY DEF Find, StoreInv, Typed, TypeOK, LoginShape
<1>4. login'[l].principal = login[l].principal /\ login'[l].doomed = {}
  BY <1>3 DEF Find, LoginState
<1>5. CASE Accounts(u) = {}
  <2>1. login'[l].owner = 0
    BY <1>3, <1>5 DEF Find, LoginState
  <2> QED
    BY <1>2, <1>4, <2>1, OthersUntouched, StepStore DEF LoginStep, Owns
<1>6. CASE Accounts(u) # {}
  <2>1. login'[l].owner = Account(u).oid
    BY <1>3, <1>6 DEF Find, LoginState
  <2>2. Account(u) \in users /\ Account(u).user = u
    BY <1>6, AccountIsFirst DEF Accounts, StoreInv, Typed, TypeOK
  <2>3. Owns(l)'
    BY <1>1, <1>4, <2>1, <2>2 DEF Owns
  <2> QED
    BY <1>2, <2>3, OthersUntouched, StepStore DEF LoginStep
<1> QED
  BY <1>5, <1>6

LEMMA SaveNewStore ==
    ASSUME StoreInv, NEW l \in Login, SaveNew(l)
    PROVE  StoreInv'
<1> DEFINE new == [oid |-> nextOid, user |-> login[l].principal.user,
                   profile |-> ProfileOf(login[l].principal)]
<1>1. /\ users' = users \cup {new}
      /\ nextOid' = nextOid + 1
      /\ claims' = claims
  BY DEF SaveNew
<1>2. /\ nextOid \in Nat \ {0}
      /\ \A a \in users : a.oid \in Nat
      /\ \A c \in claims : c.oid \in Nat /\ c.owner \in Nat
  BY DEF StoreInv, Typed, TypeOK, AppUser, AppUserClaim
<1>3. Typed' /\ StoreGrows
  BY <1>1, <1>2, SaveNewTyped DEF StoreGrows, StoreInv
<1>4. OidsUnique'
  BY <1>1, <1>2 DEF StoreInv, OidsUnique
<1>5. /\ login'[l].principal = login[l].principal
      /\ login'[l].doomed = {}
      /\ login'[l].owner = nextOid
  BY DEF SaveNew, StoreInv, Typed, TypeOK, LoginState, LoginShape
<1>6. new \in users' /\ new.oid = nextOid /\ new.user = login[l].principal.user
  BY <1>1
<1> HIDE DEF new
<1>7. Owns(l)'
  BY <1>5, <1>6 DEF Owns
<1> QED
  BY <1>3, <1>4, <1>7, OthersUntouched, StepStore DEF LoginStep

LEMMA SaveFoundStore ==
    ASSUME StoreInv, NEW l \in Login, SaveFound(l)
    PROVE  StoreInv'
<1>1. /\ users' = {IF a.oid = login[l].owner THEN Changed(l, a) ELSE a : a \in users}
      /\ UNCHANGED <<claims, nextOid>>
  BY DEF SaveFound
<1>2. \A a \in users : Changed(l, a).oid = a.oid /\ Changed(l, a).user = a.user
  BY DEF Changed, StoreInv, Typed, TypeOK, AppUser
<1>3. \A b \in users' : \E a \in users :
         /\ b = (IF a.oid = login[l].owner THEN Changed(l, a) ELSE a)
         /\ b.oid = a.oid /\ b.user = a.user
  BY <1>1, <1>2
<1>4. OidsUnique'
  BY <1>1, <1>3 DEF StoreInv, OidsUnique
<1>5. Typed' /\ StoreGrows
  BY <1>1, <1>2, SaveFoundTyped DEF StoreGrows, StoreInv, Typed, TypeOK
<1>6. /\ login[l].pc # "off"
      /\ login'[l].principal = login[l].principal
      /\ login'[l].doomed = login[l].doomed
      /\ login'[l].owner = login[l].owner
  BY DEF SaveFound, StoreInv, Typed, TypeOK, LoginState
<1>7. Owns(l)'
  BY <1>5, <1>6, OwnsKept
<1> QED
  BY <1>4, <1>5, <1>7, OthersUntouched, StepStore DEF LoginStep

LEMMA ListStore ==
    ASSUME StoreInv, NEW l \in Login, List(l)
    PROVE  StoreInv'
<1>1. UNCHANGED <<users, claims, nextOid>>
  BY DEF List, database
<1>2. Typed' /\ StoreGrows /\ OidsUnique'
  BY <1>1, ListTyped DEF StoreGrows, StoreInv, Typed, TypeOK, OidsUnique
<1>3. /\ login[l].pc # "off"
      /\ login'[l].principal = login[l].principal
      /\ login'[l].doomed = {c.oid : c \in Stored(login[l].owner)}
      /\ login'[l].owner = login[l].owner
  BY DEF List, StoreInv, Typed, TypeOK, LoginState
<1>4. \A oid \in login'[l].doomed :
         /\ oid < nextOid
         /\ \A c \in claims : c.oid = oid => c.owner = login[l].owner
  BY <1>3 DEF Stored, StoreInv, OidsUnique
<1>5. Owns(l)'
  BY <1>1, <1>3, <1>4 DEF Owns, StoreInv
<1> QED
  BY <1>2, <1>5, OthersUntouched, StepStore DEF LoginStep

LEMMA DeleteOneStore ==
    ASSUME StoreInv, NEW l \in Login, DeleteOne(l)
    PROVE  StoreInv'
<1>1. claims' \subseteq claims /\ UNCHANGED <<users, nextOid>>
  BY DEF DeleteOne
<1>2. Typed' /\ StoreGrows /\ OidsUnique'
  BY <1>1, DeleteOneTyped DEF StoreGrows, StoreInv, Typed, TypeOK, OidsUnique
<1>3. /\ login[l].pc # "off"
      /\ login'[l].principal = login[l].principal
      /\ login'[l].doomed \subseteq login[l].doomed
      /\ login'[l].owner = login[l].owner
  BY DEF DeleteOne, StoreInv, Typed, TypeOK, LoginState
<1>4. Owns(l)'
  BY <1>2, <1>3, OwnsKept
<1> QED
  BY <1>2, <1>4, OthersUntouched, StepStore DEF LoginStep

LEMMA InsertOneStore ==
    ASSUME StoreInv, NEW l \in Login, InsertOne(l)
    PROVE  StoreInv'
<1>1. PICK k \in login[l].adding :
        /\ claims' = claims \cup {[oid |-> nextOid, owner |-> login[l].owner,
                                   type |-> k.type, value |-> k.value]}
        /\ nextOid' = nextOid + 1
        /\ users' = users
  BY DEF InsertOne
<1>2. /\ nextOid \in Nat \ {0}
      /\ \A a \in users : a.oid \in Nat
      /\ \A c \in claims : c.oid \in Nat /\ c.owner \in Nat
  BY DEF StoreInv, Typed, TypeOK, AppUser, AppUserClaim
<1>3. login[l].owner \in Nat /\ login[l].owner < nextOid
  BY DEF InsertOne, StoreInv, Owns, Typed, TypeOK, LoginState, LoginShape, OidsUnique
<1>4. Typed' /\ StoreGrows
  BY <1>1, <1>2, InsertOneTyped DEF StoreGrows, StoreInv
<1>5. OidsUnique'
  BY <1>1, <1>2, <1>3 DEF StoreInv, OidsUnique
<1>6. /\ login[l].pc # "off"
      /\ login'[l].principal = login[l].principal
      /\ login'[l].doomed = login[l].doomed
      /\ login'[l].owner = login[l].owner
  BY DEF InsertOne, StoreInv, Typed, TypeOK, LoginState
<1>7. Owns(l)'
  BY <1>4, <1>6, OwnsKept
<1> QED
  BY <1>4, <1>5, <1>7, OthersUntouched, StepStore DEF LoginStep

LEMMA EndStore ==
    ASSUME StoreInv, NEW l \in Login, Complete(l) \/ LoginFails(l)
    PROVE  StoreInv'
<1>1. /\ UNCHANGED <<users, claims, nextOid>>
      /\ \E r \in {"failed", "conflict", "ok"} : Finish(l, r)
  BY DEF Complete, LoginFails, database
<1>2. Typed' /\ StoreGrows /\ OidsUnique'
  BY <1>1, CompleteTyped, LoginFailsTyped
     DEF StoreGrows, StoreInv, Typed, TypeOK, OidsUnique
<1>3. login'[l].pc = "off"
  BY <1>1 DEF Finish, StoreInv, Typed, TypeOK, LoginState
<1>4. Owns(l)'
  BY <1>3 DEF Owns
<1> QED
  BY <1>2, <1>4, OthersUntouched, StepStore DEF LoginStep

LEMMA RestartStore ==
    ASSUME StoreInv, Restart
    PROVE  StoreInv'
<1>1. UNCHANGED <<users, claims, nextOid>> /\ login' = [l \in Login |-> IdleLogin]
  BY DEF Restart, database
<1>2. Typed' /\ OidsUnique'
  BY <1>1, RestartTyped DEF StoreInv, OidsUnique
<1>3. \A l \in Login : login'[l].pc = "off"
  BY <1>1 DEF IdleLogin
<1> QED
  BY <1>2, <1>3 DEF StoreInv, Owns

LEMMA NextStore == StoreInv /\ [Next]_vars => StoreInv'
<1> SUFFICES ASSUME StoreInv, [Next]_vars PROVE StoreInv'
  OBVIOUS
<1>1. CASE Restart
  BY <1>1, RestartStore
<1>2. CASE UNCHANGED vars
  BY <1>2 DEF vars, StoreInv, Typed, TypeOK, OidsUnique, Owns
<1>3. ASSUME NEW l \in Login, Begin(l) \/ LoginStep(l) \/ LoginFails(l)
      PROVE  StoreInv'
  BY <1>3, BeginStore, FindStore, SaveNewStore, SaveFoundStore, ListStore,
     DeleteOneStore, InsertOneStore, EndStore DEF LoginStep
<1> QED
  BY <1>1, <1>2, <1>3 DEF Next

LEMMA AlwaysStore == Spec => []StoreInv
BY InitStore, NextStore, PTL DEF Spec

-----------------------------------------------------------------------------
(* Users are kept apart.                                                    *)

(* What userinfo answers for a user depends on the user's documents and on   *)
(* the claims stored for the one it reads.                                  *)
LEMMA UserinfoDepends ==
    ASSUME StoreInv, NEW u, Accounts(u)' = Accounts(u),
           \A a \in Accounts(u) :
             {c \in claims' : c.owner = a.oid} = {c \in claims : c.owner = a.oid}
    PROVE  Userinfo(u)' = Userinfo(u)
<1>1. CASE Accounts(u) = {}
  BY <1>1 DEF Userinfo
<1>2. CASE Accounts(u) # {}
  <2> DEFINE a == Account(u)
  <2>1. a \in Accounts(u)
    BY <1>2, AccountIsFirst DEF StoreInv, Typed, TypeOK
  <2>2. a' = a
    BY DEF Account
  <2> HIDE DEF a
  <2>3. Stored(a.oid)' = Stored(a.oid)
    BY <2>1, <2>2 DEF Stored
  <2> QED
    BY <1>2, <2>2, <2>3 DEF Userinfo, a
<1> QED
  BY <1>1, <1>2

LEMMA SameStoreSameAnswers ==
    ASSUME UNCHANGED <<users, claims>>, NEW u
    PROVE  Userinfo(u)' = Userinfo(u)
BY DEF Userinfo, Account, Accounts, Stored

(* A step of a login touches the documents of its own user only.            *)
LEMMA LoginTouchesItsUser ==
    ASSUME StoreInv, NEW l \in Login, LoginStep(l), NEW u,
           u # login[l].principal.user
    PROVE  /\ Accounts(u)' = Accounts(u)
           /\ \A a \in Accounts(u) :
                {c \in claims' : c.owner = a.oid} = {c \in claims : c.owner = a.oid}
<1>1. ASSUME NEW a \in Accounts(u), login[l].pc # "off", login[l].owner # 0
      PROVE  a.oid # login[l].owner
  BY <1>1 DEF StoreInv, Owns, OidsUnique, Accounts
<1>2. CASE Find(l) \/ List(l) \/ Complete(l)
  BY <1>2 DEF Find, List, Complete, database, Accounts
<1>3. CASE SaveNew(l)
  <2>1. Accounts(u)' = Accounts(u) /\ claims' = claims
    BY <1>3 DEF SaveNew, Accounts
  <2> QED
    BY <2>1
<1>4. CASE SaveFound(l)
  <2>1. /\ users' = {IF a.oid = login[l].owner THEN Changed(l, a) ELSE a : a \in users}
        /\ claims' = claims
        /\ login[l].pc # "off" /\ login[l].owner # 0
    BY <1>4 DEF SaveFound
  <2>2. \A a \in users : Changed(l, a).user = a.user
    BY DEF Changed, StoreInv, Typed, TypeOK, AppUser
  <2>3. \A a \in users : a.oid = login[l].owner => a.user = login[l].principal.user
    BY <2>1 DEF StoreInv, Owns, OidsUnique
  <2>4. Accounts(u)' = Accounts(u)
    BY <2>1, <2>2, <2>3 DEF Accounts
  <2> QED
    BY <2>1, <2>4
<1>5. CASE DeleteOne(l)
  <2>1. PICK oid \in login[l].doomed : claims' = {c \in claims : c.oid # oid}
    BY <1>5 DEF DeleteOne
  <2>2. login[l].pc # "off" /\ login[l].owner # 0 /\ users' = users
    BY <1>5 DEF DeleteOne, StoreInv, Typed, LoginShape
  <2>3. \A c \in claims : c.oid = oid => c.owner = login[l].owner
    BY <2>2 DEF StoreInv, Owns
  <2>4. \A a \in Accounts(u) :
          {c \in claims' : c.owner = a.oid} = {c \in claims : c.owner = a.oid}
    BY <1>1, <2>1, <2>2, <2>3
  <2>5. Accounts(u)' = Accounts(u)
    BY <2>2 DEF Accounts
  <2> QED
    BY <2>4, <2>5
<1>6. CASE InsertOne(l)
  <2>1. PICK k \in login[l].adding :
          claims' = claims \cup {[oid |-> nextOid, owner |-> login[l].owner,
                                 type |-> k.type, value |-> k.value]}
    BY <1>6 DEF InsertOne
  <2>2. login[l].pc # "off" /\ login[l].owner # 0 /\ users' = users
    BY <1>6 DEF InsertOne, StoreInv, Typed, LoginShape
  <2>3. \A a \in Accounts(u) :
          {c \in claims' : c.owner = a.oid} = {c \in claims : c.owner = a.oid}
    BY <1>1, <2>1, <2>2
  <2>4. Accounts(u)' = Accounts(u)
    BY <2>2 DEF Accounts
  <2> QED
    BY <2>3, <2>4
<1> QED
  BY <1>2, <1>3, <1>4, <1>5, <1>6 DEF LoginStep

LEMMA StepKeepsApart ==
    ASSUME StoreInv, [Next]_vars, NEW l \in Login,
           login[l].pc # "off", login'[l] # login[l],
           NEW u \in User \ {login[l].principal.user}
    PROVE  Userinfo(u)' = Userinfo(u)
<1>1. CASE Restart \/ UNCHANGED vars
  BY <1>1, SameStoreSameAnswers DEF Restart, database, vars
<1>2. ASSUME NEW m \in Login, Begin(m) \/ LoginFails(m)
      PROVE  Userinfo(u)' = Userinfo(u)
  BY <1>2, SameStoreSameAnswers DEF Begin, LoginFails, database
<1>3. ASSUME NEW m \in Login, LoginStep(m)
      PROVE  Userinfo(u)' = Userinfo(u)
  <2>1. m = l
    BY <1>3, OthersUntouched
  <2> QED
    BY <1>3, <2>1, LoginTouchesItsUser, UserinfoDepends
<1> QED
  BY <1>1, <1>2, <1>3 DEF Next

(* No step of a login changes what the userinfo endpoint answers for any     *)
(* other user.                                                              *)
THEOREM UsersAreApart == Spec => UsersApart
<1>1. StoreInv /\ [Next]_vars =>
        [\A l \in Login :
           login[l].pc # "off" /\ login'[l] # login[l] =>
             \A u \in User \ {login[l].principal.user} : Userinfo(u)' = Userinfo(u)]_vars
  BY StepKeepsApart
<1> QED
  BY <1>1, AlwaysStore, PTL DEF Spec, UsersApart
=============================================================================
