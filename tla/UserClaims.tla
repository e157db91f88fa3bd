------------------------------ MODULE UserClaims ------------------------------
(***************************************************************************)
(* The user store of the identity provider host: the "app_users" and        *)
(* "app_user_claims" collections, written by the callback of an external    *)
(* login and read by the userinfo endpoint.                                 *)
(*                                                                         *)
(* A login is ClaimsProcessorBase.PersistClaims: find the user, save it,    *)
(* list the claims stored for it, then delete these and insert the new      *)
(* ones. The context opens no transaction, so each document is written on   *)
(* its own; logins of one user run side by side (two browsers, or two tabs  *)
(* that return from the external provider together), and a failed call or   *)
(* the end of the process leaves what was written so far.                   *)
(***************************************************************************)
EXTENDS Naturals, Sequences

CONSTANTS
    Subject,     \* subjects, unique within one external identity provider
    Idp,         \* the external identity providers
    ClaimType,   \* claim types
    IdType,      \* the claim types that go to the user document (IdClaimMap)
    Value,       \* claim values
    None,        \* "no value", "no login"
    Principal,   \* what external logins may return
    Login,       \* slots for logins in flight together
    MaxEvents    \* bound: logins, failures and restarts together

User == Subject \X Idp

Claim == [type : ClaimType, value : Value]

ASSUME IdTypeAssumption == IdType \subseteq ClaimType
ASSUME PrincipalAssumption == Principal \subseteq [user : User, claims : Seq(Claim)]
ASSUME NoneAssumption == None \notin Value /\ None \notin Principal
ASSUME BoundAssumption == MaxEvents \in Nat

VARIABLES
    (* in MongoDB *)
    users,     \* the documents of app_users
    claims,    \* the documents of app_user_claims
    nextOid,   \* object ids are generated in increasing order
    (* in the process *)
    login,     \* the login in each slot
    (* history *)
    settled,   \* per user, its last login if that ran alone and went well
    events     \* events so far (bounded by MaxEvents)

database == <<users, claims, nextOid>>
vars == <<users, claims, nextOid, login, settled, events>>

Profile == [IdType -> Value \cup {None}]

AppUser == [oid : Nat, user : User, profile : Profile]

AppUserClaim == [oid : Nat, owner : Nat, type : ClaimType, value : Value]

NoPrincipal == [user |-> <<None, None>>, claims |-> <<>>]

NoProfile == [t \in IdType |-> None]

IdleLogin == [pc |-> "off", principal |-> NoPrincipal, owner |-> 0,
              loaded |-> NoProfile, doomed |-> {}, adding |-> {},
              missed |-> FALSE, alone |-> FALSE, result |-> "none"]

LoginState ==
    [pc : {"off", "find", "save", "list", "write"},
     principal : Principal \cup {NoPrincipal},
     owner : Nat,          \* the object id of the user document, 0 for none yet
     loaded : Profile,     \* the profile as it was read: what changes are told from
     doomed : SUBSET Nat,  \* listed claim documents still to delete
     adding : SUBSET Claim, \* claims still to insert
     missed : BOOLEAN,     \* has a delete found nothing?
     alone : BOOLEAN,      \* history: no other login of this user overlapped
     result : {"none", "failed", "conflict", "ok"}]

TypeOK ==
    /\ users \subseteq AppUser
    /\ claims \subseteq AppUserClaim
    /\ nextOid \in Nat \ {0}
    /\ login \in [Login -> LoginState]
    /\ settled \in [User -> Principal \cup {None}]
    /\ events \in Nat

Init ==
    /\ users = {}
    /\ claims = {}
    /\ nextOid = 1
    /\ login = [l \in Login |-> IdleLogin]
    /\ settled = [u \in User |-> None]
    /\ events = 0

Event == events < MaxEvents /\ events' = events + 1

-----------------------------------------------------------------------------
(* What a principal says, and what the store makes of it.                   *)

(* FindFirst, FindFirstValue *)
FirstOf(p, t) ==
    LET said == {i \in DOMAIN p.claims : p.claims[i].type = t} IN
    IF said = {} THEN None
    ELSE p.claims[CHOOSE i \in said : \A j \in said : i <= j].value

(* ApplyClaims: the first claim of each type the user document keeps. *)
ProfileOf(p) == [t \in IdType |-> FirstOf(p, t)]

NonIdClaims_ByValue(p) ==
    {p.claims[i] : i \in {j \in DOMAIN p.claims : p.claims[j].type \notin IdType}}

(* principal.Claims.Except(idClaims) with claims equal when their types are: *)
(* it drops the identity claims, and keeps the first claim of any type.      *)
NonIdClaims(p) ==
    {p.claims[i] : i \in {j \in DOMAIN p.claims :
                            /\ p.claims[j].type \notin IdType
                            /\ \A k \in 1 .. (j - 1) : p.claims[k].type # p.claims[j].type}}

Accounts_BySubject(u) == {a \in users : a.user[1] = u[1]}

(* The documents with this subject and this identity provider. *)
Accounts(u) == {a \in users : a.user = u}

(* FirstOrDefault reads the collection in the order of insertion. *)
Account(u) == CHOOSE a \in Accounts(u) : \A b \in Accounts(u) : a.oid <= b.oid

Stored_OfAll(oid) == claims   (* mutant: the claims are not looked up by their user *)

Stored(oid) == {c \in claims : c.owner = oid}

(* Userinfo: the stored claims as a dictionary by type, which throws on a    *)
(* type stored twice, filled up from the user document.                      *)
Userinfo(u) ==
    IF Accounts(u) = {} THEN [status |-> "unknown"]
    ELSE LET a == Account(u)
             mine == Stored(a.oid) IN
         IF \E c, d \in mine : c # d /\ c.type = d.type THEN [status |-> "error"]
         ELSE [status |-> "ok",
               says |-> [t \in ClaimType |->
                           IF \E c \in mine : c.type = t
                           THEN (CHOOSE c \in mine : c.type = t).value
                           ELSE IF t \in IdType THEN a.profile[t] ELSE None]]

-----------------------------------------------------------------------------
(* The steps of PersistClaims.                                              *)

InFlight(u) == {l \in Login : login[l].pc # "off" /\ login[l].principal.user = u}

(* The callback of an external login arrives. *)
Begin(l) ==
    /\ login[l].pc = "off"
    /\ Event
    /\ \E p \in Principal :
         /\ login' = [m \in Login |->
                        IF m = l
                        THEN [IdleLogin EXCEPT !.pc = "find", !.principal = p,
                                               !.alone = InFlight(p.user) = {}]
                        ELSE IF m \in InFlight(p.user)
                             THEN [login[m] EXCEPT !.alone = FALSE]
                             ELSE login[m]]
         /\ settled' = [settled EXCEPT ![p.user] = None]
    /\ UNCHANGED database

Find_NullUser(l) ==
    /\ login[l].pc = "find"
    /\ LET u == login[l].principal.user IN
         login' = [login EXCEPT ![l] =
                     [@ EXCEPT !.pc = "save",
                               !.owner = IF Accounts(u) = {} THEN None ELSE Account(u).oid]]
    /\ UNCHANGED <<database, settled, events>>

(* FirstOrDefault *)
Find(l) ==
    /\ login[l].pc = "find"
    /\ LET u == login[l].principal.user IN
         login' = [login EXCEPT ![l] =
                     IF Accounts(u) = {}
                     THEN [@ EXCEPT !.pc = "save"]
                     ELSE [@ EXCEPT !.pc = "save", !.owner = Account(u).oid,
                                    !.loaded = Account(u).profile]]
    /\ UNCHANGED <<database, settled, events>>

(* The first SaveChanges: a new user is inserted; of one that was found,    *)
(* only the fields that differ from what was read are written.              *)
SaveNew(l) ==
    /\ login[l].pc = "save"
    /\ login[l].owner = 0
    /\ users' = users \cup {[oid |-> nextOid, user |-> login[l].principal.user,
                             profile |-> ProfileOf(login[l].principal)]}
    /\ nextOid' = nextOid + 1
    /\ login' = [login EXCEPT ![l] = [@ EXCEPT !.pc = "list", !.owner = nextOid]]
    /\ UNCHANGED <<claims, settled, events>>

Changed(l, a) ==
    LET new == ProfileOf(login[l].principal) IN
    [a EXCEPT !.profile = [t \in IdType |-> IF new[t] = login[l].loaded[t]
                                            THEN a.profile[t] ELSE new[t]]]

SaveFound(l) ==
    /\ login[l].pc = "save"
    /\ login[l].owner # 0
    /\ users' = {IF a.oid = login[l].owner THEN Changed(l, a) ELSE a : a \in users}
    /\ login' = [login EXCEPT ![l] = [@ EXCEPT !.pc = "list"]]
    /\ UNCHANGED <<claims, nextOid, settled, events>>

(* RemoveRange reads the claims stored for the user. *)
List(l) ==
    /\ login[l].pc = "list"
    /\ login' = [login EXCEPT ![l] =
                   [@ EXCEPT !.pc = "write",
                             !.doomed = {c.oid : c \in Stored(login[l].owner)},
                             !.adding = NonIdClaims(login[l].principal)]]
    /\ UNCHANGED <<database, settled, events>>

(* The second SaveChanges: a batch of single-document writes. A delete that *)
(* matches nothing does not stop the batch.                                 *)
DeleteOne(l) ==
    /\ login[l].pc = "write"
    /\ \E oid \in login[l].doomed :
         /\ claims' = {c \in claims : c.oid # oid}
         /\ login' = [login EXCEPT ![l] =
                        [@ EXCEPT !.doomed = login[l].doomed \ {oid},
                                  !.missed = \/ login[l].missed
                                             \/ \A c \in claims : c.oid # oid]]
    /\ UNCHANGED <<users, nextOid, settled, events>>

InsertOne(l) ==
    /\ login[l].pc = "write"
    /\ \E c \in login[l].adding :
         /\ claims' = claims \cup {[oid |-> nextOid, owner |-> login[l].owner,
                                    type |-> c.type, value |-> c.value]}
         /\ nextOid' = nextOid + 1
         /\ login' = [login EXCEPT ![l] = [@ EXCEPT !.adding = login[l].adding \ {c}]]
    /\ UNCHANGED <<users, settled, events>>

Finish(l, result) ==
    login' = [login EXCEPT ![l] = [@ EXCEPT !.pc = "off", !.result = result]]

(* The batch is written: the login goes on to the cookie, unless a delete   *)
(* that matched nothing is reported as a concurrency exception.             *)
Complete(l) ==
    /\ login[l].pc = "write"
    /\ login[l].doomed = {} /\ login[l].adding = {}
    /\ Finish(l, IF login[l].missed THEN "conflict" ELSE "ok")
    /\ settled' = IF login[l].alone
                  THEN [settled EXCEPT ![login[l].principal.user] = login[l].principal]
                  ELSE settled
    /\ UNCHANGED <<database, events>>

(* A database call throws. *)
LoginFails(l) ==
    /\ login[l].pc # "off"
    /\ Event
    /\ Finish(l, "failed")
    /\ UNCHANGED <<database, settled>>

(* The process ends and is started again. *)
Restart ==
    /\ Event
    /\ login' = [l \in Login |-> IdleLogin]
    /\ UNCHANGED <<database, settled>>

LoginStep(l) ==
    \/ Find(l)
    \/ SaveNew(l) \/ SaveFound(l)
    \/ List(l)
    \/ DeleteOne(l) \/ InsertOne(l) \/ Complete(l)

Next ==
    \/ \E l \in Login : Begin(l) \/ LoginStep(l) \/ LoginFails(l)
    \/ Restart

Spec == Init /\ [][Next]_vars

-----------------------------------------------------------------------------
(* After a login that no other login of the same user overlapped, and until *)
(* the next one begins, the userinfo endpoint says what that login said,    *)
(* whatever half-written or doubled claims earlier logins had left behind;  *)
(* and such a login never ends in a concurrency exception (PersistClaims    *)
(* and Userinfo together).                                                  *)
AnswersLastLogin ==
    /\ \A u \in User :
         settled[u] # None =>
           Userinfo(u) = [status |-> "ok",
                          says |-> [t \in ClaimType |-> FirstOf(settled[u], t)]]
    /\ \A l \in Login : login[l].alone => login[l].result # "conflict"

(* No step of a login changes what the userinfo endpoint answers for any    *)
(* other user, one with the same subject at another identity provider       *)
(* included (the lookup of PersistClaims and Userinfo).                     *)
UsersApart ==
    [][\A l \in Login :
         login[l].pc # "off" /\ login'[l] # login[l] =>
           \A u \in User \ {login[l].principal.user} : Userinfo(u)' = Userinfo(u)]_vars

(* What userinfo may answer, and its answer when it repeats a principal.     *)
Answer == {[status |-> "unknown"], [status |-> "error"]}
            \cup [status : {"ok"}, says : [ClaimType -> Value \cup {None}]]

Says == [p \in Principal |-> [status |-> "ok", says |-> [t \in ClaimType |-> FirstOf(p, t)]]]

Directory == INSTANCE UserDirectory WITH
    answer <- [u \in User |-> Userinfo(u)],
    active <- {u \in User : InFlight(u) # {}},
    Unknown <- [status |-> "unknown"]

(* The user store and userinfo keep the promise of a directory: an answer     *)
(* changes only while its user logs in, never back to unknown, and repeats    *)
(* the last login that ran alone until the user's next one (PersistClaims and *)
(* Userinfo together).                                                      *)
ImplementsDirectory == Directory!Spec
=============================================================================
