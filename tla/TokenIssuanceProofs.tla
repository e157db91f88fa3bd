-------------------------- MODULE TokenIssuanceProofs --------------------------
(* The properties of the token endpoint, for any clients, users, scopes and   *)
(* any number of requests at a time, chains, grants and events.              *)
EXTENDS TokenIssuance, TLAPS

(***************************************************************************)
(* What TypeOK needs of each request by itself, and the invariant.           *)
(***************************************************************************)
Begun(q) == q.at # "idle" => q.client \in Client /\ q.chain \in begun

\* The user of a request who is stored was stored since it came.
KnowsUser(q) == q.user \in exists => q.known = "yes"

Known == \A r \in Request : KnowsUser(request[r])

\* A request that waits for its tokens with the wish to have them plain finds
\* the switch thrown.
Thrown ==
    \A r \in Request :
        request[r].at = "configured" /\ request[r].wanted = "skip" => disabled = TRUE

Human(q) == q.at # "idle" /\ q.kind # "machine"
Machine(q) == q.at # "idle" /\ q.kind = "machine"

AccessBegun == \A t \in access : t.chain \in begun

\* A request with a code or a refresh token carries no more than a grant there is.
Behind(g, q) == g.chain = q.chain /\ g.user = q.user /\ q.scopes \subseteq g.scopes

Backed == \A r \in Request : Human(request[r]) => \E g \in grants : Behind(g, request[r])

\* The chain of a machine's request has nothing issued in it yet, and nobody else.
Unissued(k) == (\A g \in grants : g.chain # k) /\ (\A t \in access : t.chain # k)

Alone ==
    \A r \in Request :
        Machine(request[r]) =>
            /\ Unissued(request[r].chain)
            /\ \A s \in Request \ {r} :
                  request[s].at # "idle" => request[s].chain # request[r].chain

IInv ==
    /\ TypeOK
    /\ Known /\ RefreshNeedsUser
    /\ Thrown /\ SkipHonoured
    /\ AccessBegun /\ Backed /\ Alone

-----------------------------------------------------------------------------

LEMMA IdleTyped == Idle \in RequestState
  BY NoneAssumption DEF Idle, RequestState

LEMMA InitIInv == Init => IInv
  <1> SUFFICES ASSUME Init PROVE IInv
    OBVIOUS
  <1> USE DEF Init
  <1>0. /\ request \in [Request -> RequestState]
        /\ \A r \in Request : request[r].at = "idle"
    BY IdleTyped DEF Idle
  <1>1. TypeOK
    <2>1. client \in [Client -> {"skip", "default", "gone"}]
      OBVIOUS
    <2>2. events \in 0..MaxEvents
      BY BoundAssumption
    <2>3. grants \subseteq Grant /\ access \subseteq Access /\ exists \subseteq User
      OBVIOUS
    <2> QED
      BY <1>0, <2>1, <2>2, <2>3 DEF TypeOK
  <1>2. Known /\ RefreshNeedsUser
    BY NoneAssumption DEF Known, KnowsUser, RefreshNeedsUser, Idle
  <1>3. Thrown /\ SkipHonoured
    BY DEF Thrown, SkipHonoured, Idle
  <1>4. AccessBegun /\ Backed /\ Alone
    BY DEF AccessBegun, Backed, Alone, Human, Machine, Idle
  <1> QED
    BY <1>1, <1>2, <1>3, <1>4 DEF IInv

LEMMA StutterIInv == IInv /\ UNCHANGED vars => IInv'
  BY DEF IInv, vars, TypeOK, Known, KnowsUser, RefreshNeedsUser, Thrown, SkipHonoured,
         AccessBegun, Backed, Behind, Alone, Human, Machine, Unissued, Access, Grant, RequestState

(***************************************************************************)
(* The authorization endpoint begins a chain.                                *)
(***************************************************************************)
LEMMA AuthorizeIInv == ASSUME IInv, NEW k \in Chain, Authorize(k) PROVE IInv'
  <1>1. PICK c \in Client, u \in User, scopes \in SUBSET Scope :
          /\ exists' = exists \cup {u}
          /\ request' = [r \in Request |-> IF request[r].user = u
                                          THEN [request[r] EXCEPT !.known = "yes"]
                                          ELSE request[r]]
          /\ grants' = grants \cup {[kind |-> "code", chain |-> k, client |-> c, user |-> u,
                                    scopes |-> scopes]}
    BY DEF Authorize
  <1>2. /\ k \notin begun /\ begun' = begun \cup {k}
        /\ UNCHANGED <<client, disabled, access, events>>
    BY DEF Authorize
  <1>3. \A r \in Request :
          /\ request[r] \in RequestState
          /\ request'[r] \in RequestState
          /\ request'[r].at = request[r].at /\ request'[r].kind = request[r].kind
          /\ request'[r].chain = request[r].chain /\ request'[r].client = request[r].client
          /\ request'[r].user = request[r].user /\ request'[r].scopes = request[r].scopes
          /\ request'[r].wanted = request[r].wanted
          /\ request[r].known = "yes" \/ request[r].user = u => request'[r].known = "yes"
    BY <1>1 DEF IInv, TypeOK, RequestState
  <1>4. TypeOK'
    BY <1>1, <1>2, <1>3 DEF IInv, TypeOK, Grant
  <1>5. Known' /\ RefreshNeedsUser'
    BY <1>1, <1>3 DEF IInv, Known, KnowsUser, RefreshNeedsUser
  <1>6. Thrown' /\ SkipHonoured'
    BY <1>2, <1>3 DEF IInv, Thrown, SkipHonoured
  <1>7. AccessBegun' /\ Backed'
    BY <1>1, <1>2, <1>3 DEF IInv, AccessBegun, Backed, Behind, Human
  <1>8. Alone'
    BY <1>1, <1>2, <1>3 DEF IInv, TypeOK, Alone, Machine, Unissued
  <1> QED
    BY <1>4, <1>5, <1>6, <1>7, <1>8 DEF IInv

(***************************************************************************)
(* A request of its own changes one entry of the table.                      *)
(***************************************************************************)
Entry(q) == q \in RequestState /\ Begun(q)

LEMMA NewHuman ==
  ASSUME IInv, NEW r \in Request, NEW q \in RequestState, Human(q),
         q.client \in Client, q.chain \in begun,
         KnowsUser(q),
         q.kind = "refresh" /\ q.at \in {"signingIn", "configured"} => q.known = "yes",
         q.at = "configured" /\ q.wanted = "skip" => disabled' = TRUE,
         disabled = TRUE => disabled' = TRUE, disabled' \in BOOLEAN,
         \E g \in grants : Behind(g, q),
         request' = [request EXCEPT ![r] = q],
         UNCHANGED <<client, exists, begun, grants, access, events>>
  PROVE  IInv'
  <1>1. /\ request'[r] = q
        /\ \A s \in Request : s # r => request'[s] = request[s]
        /\ request' \in [Request -> RequestState]
    BY DEF IInv, TypeOK
  <1>2. TypeOK'
    BY <1>1 DEF IInv, TypeOK
  <1>3. Known' /\ RefreshNeedsUser'
    BY <1>1 DEF IInv, Known, KnowsUser, RefreshNeedsUser
  <1>4. Thrown' /\ SkipHonoured'
    BY <1>1 DEF IInv, Thrown, SkipHonoured
  <1>5. AccessBegun' /\ Backed'
    BY <1>1 DEF IInv, AccessBegun, Backed, Behind
  <1>6. Alone'
    BY <1>1 DEF IInv, Alone, Machine, Unissued, Human, Behind
  <1> QED
    BY <1>2, <1>3, <1>4, <1>5, <1>6 DEF IInv

LEMMA NewMachine ==
  ASSUME IInv, NEW r \in Request, NEW q \in RequestState, Machine(q),
         q.client \in Client, q.chain \in Chain \ begun, q.at = "signingIn",
         q.user = None,
         begun' = begun \cup {q.chain},
         request' = [request EXCEPT ![r] = q],
         UNCHANGED <<client, exists, disabled, grants, access, events>>
  PROVE  IInv'
  <1>1. /\ request'[r] = q
        /\ \A s \in Request : s # r => request'[s] = request[s]
        /\ request' \in [Request -> RequestState]
    BY DEF IInv, TypeOK
  <1>2. TypeOK'
    BY <1>1 DEF IInv, TypeOK
  <1>3. Known' /\ RefreshNeedsUser'
    BY <1>1, NoneAssumption DEF IInv, TypeOK, Known, KnowsUser, RefreshNeedsUser, Machine
  <1>4. Thrown' /\ SkipHonoured'
    BY <1>1 DEF IInv, Thrown, SkipHonoured
  <1>5. AccessBegun' /\ Backed'
    BY <1>1 DEF IInv, AccessBegun, Backed, Behind, Human, Machine
  <1>6. Alone'
    BY <1>1 DEF IInv, TypeOK, AccessBegun, Alone, Machine, Unissued
  <1> QED
    BY <1>2, <1>3, <1>4, <1>5, <1>6 DEF IInv

\* A request moves on, with the same grant behind it.
LEMMA Moves ==
  ASSUME IInv, NEW r \in Request, NEW q \in RequestState,
         request[r].at # "idle", q.at # "idle",
         q.kind = request[r].kind, q.chain = request[r].chain, q.client = request[r].client,
         q.user = request[r].user, q.scopes = request[r].scopes, q.known = request[r].known,
         q.kind = "refresh" /\ q.at \in {"signingIn", "configured"} => q.known = "yes",
         q.at = "configured" /\ q.wanted = "skip" => disabled' = TRUE,
         disabled = TRUE => disabled' = TRUE, disabled' \in BOOLEAN,
         request' = [request EXCEPT ![r] = q],
         UNCHANGED <<client, exists, begun, grants, access, events>>
  PROVE  IInv'
  <1>1. /\ request'[r] = q
        /\ \A s \in Request : s # r => request'[s] = request[s]
        /\ request' \in [Request -> RequestState]
    BY DEF IInv, TypeOK
  <1>2. TypeOK'
    BY <1>1 DEF IInv, TypeOK
  <1>3. Known' /\ RefreshNeedsUser'
    BY <1>1 DEF IInv, Known, KnowsUser, RefreshNeedsUser
  <1>4. Thrown' /\ SkipHonoured'
    BY <1>1 DEF IInv, Thrown, SkipHonoured
  <1>5. AccessBegun' /\ Backed'
    BY <1>1 DEF IInv, AccessBegun, Backed, Behind, Human
  <1>6. Alone'
    BY <1>1 DEF IInv, Alone, Machine, Unissued
  <1> QED
    BY <1>2, <1>3, <1>4, <1>5, <1>6 DEF IInv

\* Requests end, one or all of them, and the switch may be back where it was.
LEMMA Ends ==
  ASSUME IInv, request' \in [Request -> RequestState],
         \A s \in Request : request'[s] \in {request[s], Idle},
         disabled' = disabled \/ \A s \in Request : request'[s] = Idle, disabled' \in BOOLEAN,
         events' \in 0..MaxEvents,
         UNCHANGED <<client, exists, begun, grants, access>>
  PROVE  IInv'
  <1>1. TypeOK'
    BY DEF IInv, TypeOK, Idle
  <1>2. Known' /\ RefreshNeedsUser'
    BY NoneAssumption DEF IInv, TypeOK, Known, KnowsUser, RefreshNeedsUser, Idle
  <1>3. Thrown' /\ SkipHonoured'
    BY DEF IInv, Thrown, SkipHonoured, Idle
  <1>4. AccessBegun' /\ Backed'
    BY DEF IInv, AccessBegun, Backed, Behind, Human, Idle
  <1>5. Alone'
    BY DEF IInv, Alone, Machine, Unissued, Idle
  <1> QED
    BY <1>1, <1>2, <1>3, <1>4, <1>5 DEF IInv

-----------------------------------------------------------------------------
(* The actions.                                                             *)

LEMMA Downscoped ==
  ASSUME NEW asked \in SUBSET Scope, NEW original \in SUBSET Scope
  PROVE  downscoped(asked, original) \subseteq original
  BY DEF downscoped

LEMMA ExchangeIInv ==
  ASSUME IInv, NEW r \in Request, NEW kind \in {"code", "refresh"}, Exchange(r, kind)
  PROVE  IInv'
  <1>1. PICK g \in grants, asked \in SUBSET Scope :
          request' = [request EXCEPT ![r] =
                [at |-> IF kind = "code" THEN "signingIn" ELSE "looking",
                 kind |-> kind, chain |-> g.chain, client |-> g.client, user |-> g.user,
                 scopes |-> downscoped(asked, g.scopes), wanted |-> "default",
                 known |-> IF g.user \in exists THEN "yes" ELSE "no"]]
    BY DEF Exchange
  <1> DEFINE q == [at |-> IF kind = "code" THEN "signingIn" ELSE "looking",
                 kind |-> kind, chain |-> g.chain, client |-> g.client, user |-> g.user,
                 scopes |-> downscoped(asked, g.scopes), wanted |-> "default",
                 known |-> IF g.user \in exists THEN "yes" ELSE "no"]
  <1>2. /\ g.chain \in begun /\ g.chain \in Chain /\ g.client \in Client /\ g.user \in User
        /\ g.scopes \in SUBSET Scope
    BY DEF IInv, TypeOK, Grant
  <1>3. downscoped(asked, g.scopes) \subseteq g.scopes
    BY <1>2, Downscoped
  <1>4. /\ q \in RequestState /\ Human(q) /\ q.client \in Client /\ q.chain \in begun
        /\ KnowsUser(q)
        /\ ~(q.kind = "refresh" /\ q.at \in {"signingIn", "configured"})
        /\ q.at # "configured"
    BY <1>2, <1>3 DEF RequestState, Human, KnowsUser
  <1>5. \E h \in grants : Behind(h, q)
    BY <1>3 DEF Behind
  <1>6. UNCHANGED <<client, exists, disabled, begun, grants, access, events>>
    BY DEF Exchange
  <1>7. request' = [request EXCEPT ![r] = q]
    BY <1>1
  <1>8. disabled \in BOOLEAN
    BY DEF IInv, TypeOK
  <1> HIDE DEF q
  <1> QED
    BY <1>4, <1>5, <1>6, <1>7, <1>8, NewHuman

LEMMA MachineIInv ==
  ASSUME IInv, NEW r \in Request, NEW k \in Chain, ExchangeClientCredentials(r, k)
  PROVE  IInv'
  <1>1. PICK c \in Client, asked \in SUBSET Scope :
          request' = [request EXCEPT ![r] =
                [at |-> "signingIn", kind |-> "machine", chain |-> k, client |-> c, user |-> None,
                 scopes |-> asked, wanted |-> "default", known |-> "no"]]
    BY DEF ExchangeClientCredentials
  <1> DEFINE q == [at |-> "signingIn", kind |-> "machine", chain |-> k, client |-> c,
                   user |-> None, scopes |-> asked, wanted |-> "default", known |-> "no"]
  <1>2. /\ q \in RequestState /\ Machine(q) /\ q.client \in Client /\ q.at = "signingIn"
        /\ q.user = None /\ q.chain = k
    BY DEF RequestState, Machine
  <1>3. /\ k \in Chain \ begun /\ begun' = begun \cup {k}
        /\ UNCHANGED <<client, exists, disabled, grants, access, events>>
    BY DEF ExchangeClientCredentials
  <1>4. request' = [request EXCEPT ![r] = q]
    BY <1>1
  <1> HIDE DEF q
  <1> QED
    BY <1>2, <1>3, <1>4, NewMachine

LEMMA UserFoundIInv == ASSUME IInv, NEW r \in Request, UserFound(r) PROVE IInv'
  <1> DEFINE q == [request[r] EXCEPT !.at = "signingIn"]
  <1>1. /\ request[r] \in RequestState /\ request[r].at = "looking"
        /\ request[r].user \in exists
        /\ request' = [request EXCEPT ![r] = q]
        /\ UNCHANGED <<client, exists, disabled, begun, grants, access, events>>
    BY DEF UserFound, IInv, TypeOK
  <1>2. request[r].known = "yes" /\ disabled \in BOOLEAN
    BY <1>1 DEF IInv, TypeOK, Known, KnowsUser
  <1>3. /\ q \in RequestState /\ q.at = "signingIn"
        /\ q.kind = request[r].kind /\ q.chain = request[r].chain
        /\ q.client = request[r].client /\ q.user = request[r].user
        /\ q.scopes = request[r].scopes /\ q.known = request[r].known
    BY <1>1 DEF RequestState
  <1> HIDE DEF q
  <1> QED
    BY <1>1, <1>2, <1>3, Moves

LEMMA ConfigureIInv == ASSUME IInv, NEW r \in Request, Configure(r) PROVE IInv'
  <1> DEFINE skip == client[request[r].client] = "skip"
             q == [request[r] EXCEPT !.at = "configured",
                                     !.wanted = IF skip THEN "skip" ELSE "default"]
  <1>1. /\ request[r] \in RequestState /\ request[r].at = "signingIn"
        /\ disabled' = (disabled \/ skip)
        /\ request' = [request EXCEPT ![r] = q]
        /\ UNCHANGED <<client, exists, begun, grants, access, events>>
    BY DEF Configure, IInv, TypeOK
  <1>2. request[r].kind = "refresh" => request[r].known = "yes"
    BY <1>1 DEF IInv, RefreshNeedsUser
  <1>3. /\ q \in RequestState /\ q.at = "configured"
        /\ q.wanted = IF skip THEN "skip" ELSE "default"
        /\ q.kind = request[r].kind /\ q.chain = request[r].chain
        /\ q.client = request[r].client /\ q.user = request[r].user
        /\ q.scopes = request[r].scopes /\ q.known = request[r].known
    BY <1>1 DEF RequestState
  <1>4. disabled \in BOOLEAN
    BY DEF IInv, TypeOK
  <1>5. /\ q.wanted = "skip" => disabled' = TRUE
        /\ disabled = TRUE => disabled' = TRUE
        /\ disabled' \in BOOLEAN
    <2>1. q.wanted = "skip" => skip
      BY <1>3
    <2> HIDE DEF q, skip
    <2>2. CASE skip
      <3>1. disabled' = TRUE
        BY <2>2, <1>1, <1>4, Zenon
      <3> QED
        BY <3>1
    <2>3. CASE ~skip
      <3>1. disabled' = disabled
        BY <2>3, <1>1, <1>4, Zenon
      <3> QED
        BY <3>1, <2>1, <2>3, <1>4, Zenon
    <2> QED
      BY <2>2, <2>3
  <1> HIDE DEF q, skip
  <1> QED
    BY <1>1, <1>2, <1>3, <1>5, Moves

\* The tokens of a request are issued, which ends it.
LEMMA IssueIInv == ASSUME IInv, NEW r \in Request, Issue(r) PROVE IInv'
  <1> DEFINE q == request[r]
             token == [chain |-> q.chain, client |-> q.client, scopes |-> q.scopes,
                       form |-> IF disabled THEN "plain" ELSE "encrypted",
                       wanted |-> q.wanted]
  <1>1. /\ q.at = "configured"
        /\ access' = access \cup {token}
        /\ grants' = grants \cup {g \in {Refresh(q)} : q.kind # "machine" /\ Offline \in q.scopes}
        /\ request' = [request EXCEPT ![r] = Idle]
        /\ UNCHANGED <<client, exists, disabled, begun, events>>
    BY DEF Issue
  <1>2. /\ q \in RequestState /\ q.client \in Client /\ q.chain \in begun /\ q.chain \in Chain
    BY <1>1 DEF IInv, TypeOK
  <1>3. q.kind # "machine" => q.user \in User
    BY <1>1 DEF IInv, TypeOK, Grant, Backed, Behind, Human
  <1>4. /\ request' \in [Request -> RequestState]
        /\ request'[r] = Idle /\ \A s \in Request \ {r} : request'[s] = request[s]
    BY <1>1, IdleTyped DEF IInv, TypeOK
  <1>5. \A g \in grants' : g \in grants \/ (g = Refresh(q) /\ q.kind # "machine")
    BY <1>1
  <1>6. token \in Access /\ (q.wanted = "skip" => token.form = "plain")
    <2>1. q.wanted = "skip" => disabled = TRUE
      BY <1>1 DEF IInv, Thrown
    <2>2. token \in Access
      BY <1>2 DEF RequestState, Access
    <2> QED
      BY <2>1, <2>2
  <1>7. TypeOK'
    <2>1. q.kind # "machine" => Refresh(q) \in Grant /\ Refresh(q).chain \in begun
      BY <1>2, <1>3 DEF Refresh, Grant, RequestState
    <2>2. grants' \subseteq Grant /\ \A g \in grants' : g.chain \in begun'
      BY <1>1, <1>5, <2>1 DEF IInv, TypeOK
    <2>3. access' \subseteq Access
      BY <1>1, <1>6 DEF IInv, TypeOK
    <2>4. \A s \in Request : request'[s].at # "idle" =>
            request'[s].client \in Client /\ request'[s].chain \in begun'
      BY <1>1, <1>4 DEF IInv, TypeOK, Idle
    <2> QED
      BY <1>1, <1>4, <2>2, <2>3, <2>4 DEF IInv, TypeOK
  <1>8. Known' /\ RefreshNeedsUser'
    BY <1>1, <1>4, NoneAssumption DEF IInv, TypeOK, Known, KnowsUser, RefreshNeedsUser, Idle
  <1>9. Thrown'
    BY <1>1, <1>4 DEF IInv, Thrown, Idle
  <1>10. SkipHonoured'
    BY <1>1, <1>6 DEF IInv, SkipHonoured
  <1>11. AccessBegun'
    BY <1>1, <1>2 DEF IInv, AccessBegun
  <1>12. Backed'
    BY <1>1, <1>4 DEF IInv, Backed, Behind, Human, Idle
  <1>13. Alone'
    <2> SUFFICES ASSUME NEW s \in Request, Machine(request'[s])
                 PROVE  /\ Unissued(request[s].chain)'
                        /\ \A u \in Request \ {s} :
                              request'[u].at # "idle" => request'[u].chain # request'[s].chain
      BY DEF Alone
    <2>1. s # r /\ request'[s] = request[s] /\ Machine(request[s])
      BY <1>4 DEF Machine, Idle
    <2>2. q.chain # request[s].chain
      BY <1>1, <2>1 DEF IInv, Alone
    <2>3. Unissued(request[s].chain)
      BY <2>1 DEF IInv, Alone
    <2>4. Unissued(request[s].chain)'
      <3>1. \A g \in grants' : g.chain # request[s].chain
        BY <1>5, <2>2, <2>3 DEF Unissued, Refresh
      <3>2. \A t \in access' : t.chain # request[s].chain
        BY <1>1, <2>2, <2>3 DEF Unissued
      <3> QED
        BY <2>1, <3>1, <3>2 DEF Unissued
    <2>5. \A u \in Request \ {s} :
            request'[u].at # "idle" => request'[u].chain # request'[s].chain
      BY <1>4, <2>1 DEF IInv, Alone, Idle
    <2> QED
      BY <2>4, <2>5
  <1> QED
    BY <1>7, <1>8, <1>9, <1>10, <1>11, <1>12, <1>13 DEF IInv

LEMMA EventTyped == ASSUME IInv, Event PROVE events' \in 0..MaxEvents
  BY BoundAssumption DEF IInv, TypeOK, Event

LEMMA ClientChangesIInv == ASSUME IInv, NEW c \in Client, ClientChanges(c) PROVE IInv'
  <1>1. PICK s \in {"skip", "default", "gone"} : client' = [client EXCEPT ![c] = s]
    BY DEF ClientChanges
  <1>2. events' \in 0..MaxEvents /\ UNCHANGED <<exists, disabled, begun, grants, access, request>>
    BY EventTyped DEF ClientChanges
  <1>3. TypeOK'
    BY <1>1, <1>2 DEF IInv, TypeOK
  <1> QED
    BY <1>2, <1>3 DEF IInv, Known, KnowsUser, RefreshNeedsUser, Thrown, SkipHonoured,
                      AccessBegun, Backed, Alone, Unissued

LEMMA UserDeletedIInv == ASSUME IInv, NEW u \in User, UserDeleted(u) PROVE IInv'
  <1>1. /\ exists' \subseteq exists /\ events' \in 0..MaxEvents
        /\ UNCHANGED <<client, disabled, begun, grants, access, request>>
    BY EventTyped DEF UserDeleted
  <1>2. TypeOK'
    BY <1>1 DEF IInv, TypeOK
  <1>3. Known'
    BY <1>1 DEF IInv, Known, KnowsUser
  <1> QED
    BY <1>1, <1>2, <1>3 DEF IInv, RefreshNeedsUser, Thrown, SkipHonoured,
                      AccessBegun, Backed, Alone, Unissued

LEMMA NextIInv == ASSUME IInv, [Next]_vars PROVE IInv'
  <1>1. CASE \E k \in Chain : Authorize(k)
    BY <1>1, AuthorizeIInv
  <1>2. CASE \E r \in Request, kind \in {"code", "refresh"} : Exchange(r, kind)
    BY <1>2, ExchangeIInv
  <1>3. CASE \E r \in Request, k \in Chain : ExchangeClientCredentials(r, k)
    BY <1>3, MachineIInv
  <1>4. ASSUME NEW r \in Request, UserFound(r) \/ UserGone(r) \/ Configure(r) \/ Issue(r)
        PROVE  IInv'
    <2>1. CASE UserGone(r)
      <3>1. /\ request' = [request EXCEPT ![r] = Idle]
            /\ UNCHANGED <<client, exists, disabled, begun, grants, access, events>>
        BY <2>1 DEF UserGone
      <3>2. /\ request' \in [Request -> RequestState]
            /\ \A s \in Request : request'[s] \in {request[s], Idle}
            /\ disabled' \in BOOLEAN /\ events' \in 0..MaxEvents
        BY <3>1, IdleTyped DEF IInv, TypeOK
      <3> QED
        BY <3>1, <3>2, Ends
    <2> QED
      BY <1>4, <2>1, UserFoundIInv, ConfigureIInv, IssueIInv
  <1>5. CASE \E c \in Client : ClientChanges(c)
    BY <1>5, ClientChangesIInv
  <1>6. CASE \E u \in User : UserDeleted(u)
    BY <1>6, UserDeletedIInv
  <1>7. CASE Restart
    <2>1. /\ disabled' = FALSE /\ request' = [r \in Request |-> Idle]
          /\ UNCHANGED <<client, exists, begun, grants, access>>
          /\ events' \in 0..MaxEvents
      BY <1>7, EventTyped DEF Restart
    <2>2. /\ request' \in [Request -> RequestState]
          /\ \A s \in Request : request'[s] = Idle
      BY <2>1, IdleTyped
    <2> QED
      BY <2>1, <2>2, Ends
  <1>8. CASE UNCHANGED vars
    BY <1>8, StutterIInv
  <1> QED
    BY <1>1, <1>2, <1>3, <1>4, <1>5, <1>6, <1>7, <1>8 DEF Next

LEMMA Invariance == Spec => []IInv
  BY InitIInv, NextIInv, PTL DEF Spec

-----------------------------------------------------------------------------
(* What was issued, as the abstract specification sees it.                   *)

Handed_issued ==
    {[chain |-> g.chain, scopes |-> g.scopes] : g \in grants}
        \cup {[chain |-> t.chain, scopes |-> t.scopes] : t \in access}

Hand(k, scopes) == [chain |-> k, scopes |-> scopes]
Hands(S) == {[chain |-> g.chain, scopes |-> g.scopes] : g \in S}

LEMMA HandsAdd ==
  ASSUME NEW S, NEW x
  PROVE  Hands(S \cup {x}) = Hands(S) \cup {Hand(x.chain, x.scopes)}
  <1>1. Hand(x.chain, x.scopes) \in Hands(S \cup {x})
    BY DEF Hands, Hand
  <1>2. \A h \in Hands(S \cup {x}) : h \in Hands(S) \cup {Hand(x.chain, x.scopes)}
    BY DEF Hands, Hand
  <1>3. \A h \in Hands(S) : h \in Hands(S \cup {x})
    BY DEF Hands
  <1> QED
    BY <1>1, <1>2, <1>3

LEMMA AuthorizeHands == ASSUME IInv, NEW k \in Chain, Authorize(k) PROVE Handed!Begin
  <1>1. PICK c \in Client, u \in User, scopes \in SUBSET Scope :
          grants' = grants \cup {[kind |-> "code", chain |-> k, client |-> c, user |-> u,
                                    scopes |-> scopes]}
    BY DEF Authorize
  <1>2. k \notin begun /\ access' = access
    BY DEF Authorize
  <1>3. Handed_issued' = Handed_issued \cup {Hand(k, scopes)}
    <2> DEFINE code == [kind |-> "code", chain |-> k, client |-> c, user |-> u,
                        scopes |-> scopes]
    <2>1. Hands(grants \cup {code}) = Hands(grants) \cup {Hand(k, scopes)}
      <3>1. code.chain = k /\ code.scopes = scopes
        OBVIOUS
      <3> HIDE DEF code
      <3> QED
        BY <3>1, HandsAdd
    <2>2. Handed_issued' = Hands(grants \cup {code}) \cup Hands(access)
      BY <1>1, <1>2 DEF Handed_issued, Hands
    <2> QED
      BY <2>1, <2>2 DEF Handed_issued, Hands
  <1>4. \A h \in Handed_issued : h.chain # k
    BY <1>2 DEF IInv, TypeOK, AccessBegun, Handed_issued
  <1>5. Hand(k, scopes) \in Handed!Issued /\ Hand(k, scopes).chain = k
    BY DEF Hand, Handed!Issued
  <1> QED
    BY <1>3, <1>4, <1>5 DEF Handed!Begin, Handed_issued

LEMMA IssueHands ==
  ASSUME IInv, NEW r \in Request, Issue(r)
  PROVE  Handed!Begin \/ Handed!Derive
  <1> DEFINE q == request[r]
  <1>1. /\ q.at = "configured" /\ q \in RequestState /\ q.chain \in Chain
        /\ q.scopes \in SUBSET Scope
    BY DEF Issue, IInv, TypeOK, RequestState
  <1>2. Handed_issued' = Handed_issued \cup {Hand(q.chain, q.scopes)}
    <2> DEFINE token == [chain |-> q.chain, client |-> q.client, scopes |-> q.scopes,
                         form |-> IF disabled THEN "plain" ELSE "encrypted",
                         wanted |-> q.wanted]
    <2>1. access' = access \cup {token}
      BY DEF Issue
    <2>2. grants' = grants \/ grants' = grants \cup {Refresh(q)}
      BY DEF Issue
    <2>3. /\ Hands(access \cup {token}) = Hands(access) \cup {Hand(q.chain, q.scopes)}
          /\ Hands(grants \cup {Refresh(q)}) = Hands(grants) \cup {Hand(q.chain, q.scopes)}
      <3>1. token.chain = q.chain /\ token.scopes = q.scopes
        OBVIOUS
      <3>2. Refresh(q).chain = q.chain /\ Refresh(q).scopes = q.scopes
        BY DEF Refresh
      <3> HIDE DEF token, q
      <3>3. /\ Hands(access \cup {token})
                = Hands(access) \cup {Hand(token.chain, token.scopes)}
            /\ Hands(grants \cup {Refresh(q)})
                = Hands(grants) \cup {Hand(Refresh(q).chain, Refresh(q).scopes)}
        BY HandsAdd
      <3> QED
        BY <3>1, <3>2, <3>3
    <2>4. /\ Handed_issued = Hands(grants) \cup Hands(access)
          /\ Handed_issued' = Hands(grants') \cup Hands(access')
      BY DEF Handed_issued, Hands
    <2> HIDE DEF token
    <2> QED
      BY <2>1, <2>2, <2>3, <2>4
  <1>3. Hand(q.chain, q.scopes) \in Handed!Issued
    BY <1>1 DEF Hand, Handed!Issued
  <1>4. CASE q.kind = "machine"
    <2>1. Unissued(q.chain)
      BY <1>1, <1>4 DEF IInv, Alone, Machine
    <2>2. \A h \in Handed_issued : h.chain # Hand(q.chain, q.scopes).chain
      BY <2>1 DEF Unissued, Handed_issued, Hand
    <2> QED
      BY <1>2, <1>3, <2>2 DEF Handed!Begin, Handed_issued
  <1>5. CASE q.kind # "machine"
    <2>1. PICK g \in grants : g.chain = q.chain /\ q.scopes \subseteq g.scopes
      BY <1>1, <1>5 DEF IInv, Backed, Behind, Human
    <2>2. Hand(g.chain, g.scopes) \in Handed_issued
      BY DEF Handed_issued, Hand
    <2>3. /\ q.scopes \subseteq Hand(g.chain, g.scopes).scopes
          /\ Hand(q.chain, q.scopes)
               = [chain |-> Hand(g.chain, g.scopes).chain, scopes |-> q.scopes]
      BY <2>1 DEF Hand
    <2> QED
      BY <1>1, <1>2, <2>2, <2>3 DEF Handed!Derive, Handed_issued
  <1> QED
    BY <1>4, <1>5

LEMMA NextHands == ASSUME IInv, [Next]_vars PROVE Handed!Next \/ UNCHANGED Handed_issued
  <1> SUFFICES ASSUME ~ UNCHANGED <<grants, access>> PROVE Handed!Next
    BY DEF Handed_issued
  <1>1. CASE \E k \in Chain : Authorize(k)
    BY <1>1, AuthorizeHands DEF Handed!Next
  <1>2. CASE \E r \in Request : Issue(r)
    BY <1>2, IssueHands DEF Handed!Next
  <1>3. /\ \A r \in Request, kind \in {"code", "refresh"} : ~Exchange(r, kind)
        /\ \A r \in Request, k \in Chain : ~ExchangeClientCredentials(r, k)
        /\ \A r \in Request : ~UserFound(r) /\ ~UserGone(r) /\ ~Configure(r)
        /\ \A c \in Client : ~ClientChanges(c)
        /\ \A u \in User : ~UserDeleted(u)
        /\ ~Restart /\ ~UNCHANGED vars
    BY DEF Exchange, ExchangeClientCredentials, UserFound, UserGone, Configure, ClientChanges,
           UserDeleted, Restart, vars
  <1> QED
    BY <1>1, <1>2, <1>3 DEF Next

LEMMA InitHands == Init => Handed!Init
  BY DEF Init, Handed!Init

-----------------------------------------------------------------------------
(* The theorems.                                                            *)

\* Every reachable state has the declared shape: in particular no refresh
\* token is without a user, and no grant without a chain that was begun.
THEOREM TypeCorrect == Spec => []TypeOK
  BY Invariance, PTL DEF IInv

\* A client that wants its access tokens unencrypted gets them so
\* (ConfigureAccessTokenEncryption.cs:29-42).
THEOREM SkipIsHonoured == Spec => []SkipHonoured
  BY Invariance, PTL DEF IInv

\* Nobody is issued anything for a refresh token who was not stored at some
\* time since its arrival (ExchangeRefreshTokenHandler.cs:25-33).
THEOREM RefreshesNeedUsers == Spec => []RefreshNeedsUser
  BY Invariance, PTL DEF IInv

\* The token endpoint keeps the promise of Grants.tla: whatever follows an
\* authorization, nothing issued for it carries more than something issued
\* for it before (OAuthController.cs:156-166,
\* ExchangeRefreshTokenHandler.cs:38-49).
THEOREM GrantsAreImplemented == Spec => ImplementsGrants
  <1>1. IInv /\ [Next]_vars => [Handed!Next]_Handed_issued
    BY NextHands
  <1>2. IInv /\ [Next]_vars
          => [Handed!Next]_({[chain |-> g.chain, scopes |-> g.scopes] : g \in grants}
                \cup {[chain |-> t.chain, scopes |-> t.scopes] : t \in access})
    BY <1>1 DEF Handed_issued
  <1> QED
    BY <1>2, InitHands, Invariance, PTL DEF Spec, ImplementsGrants, Handed!Spec
=============================================================================
