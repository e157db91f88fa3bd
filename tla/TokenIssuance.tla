---------------------------- MODULE TokenIssuance ----------------------------
(***************************************************************************)
(* The token endpoint (Controllers/OAuthController.cs, Exchange) and what the *)
(* sign-in does to the tokens: the scopes handed down from the authorization  *)
(* to the code, to refresh tokens and to access tokens, the user looked up    *)
(* for a refresh, and the encryption of access tokens, which a handler        *)
(* switches off on the one options object all requests of the process share. *)
(*                                                                         *)
(* A chain is what follows from one authorization, or one request with       *)
(* client credentials. Validating and redeeming grants is OpenIddict's; here  *)
(* a grant stays usable, and a request may ask for any scopes.               *)
(***************************************************************************)
EXTENDS FiniteSets, Naturals

CONSTANTS
    Chain,      \* bound: authorizations and requests with client credentials
    Client,
    User,
    Scope,
    Offline,    \* the scope that a refresh token is issued for
    None,       \* "nobody", "nothing"
    Request,    \* bound: token requests in flight
    MaxIssued,  \* bound: codes and tokens issued
    MaxEvents   \* bound: changes of clients and users, and restarts, together

ASSUME OfflineAssumption == Offline \in Scope
ASSUME NoneAssumption == None \notin Client \cup User \cup Chain
ASSUME BoundAssumption == MaxEvents \in Nat

VARIABLES
    client,    \* what each client's properties say of its access tokens
    exists,    \* the users there are
    disabled,  \* context.Options.DisableAccessTokenEncryption
    begun,     \* chains begun
    grants,    \* codes and refresh tokens
    access,    \* access tokens issued
    request,   \* token requests in flight
    events     \* events so far (bounded by MaxEvents)

vars == <<client, exists, disabled, begun, grants, access, request, events>>

Grant == [kind : {"code", "refresh"}, chain : Chain, client : Client, user : User,
          scopes : SUBSET Scope]

Access ==
    [chain : Chain, client : Client, scopes : SUBSET Scope, form : {"encrypted", "plain"},
     wanted : {"skip", "default"}]   \* history: what the client's property said

Idle == [at |-> "idle", kind |-> "code", chain |-> None, client |-> None, user |-> None,
         scopes |-> {}, wanted |-> "default", known |-> "no"]

RequestState ==
    [at : {"idle", "looking", "signingIn", "configured"},
     kind : {"code", "refresh", "machine"},
     chain : Chain \cup {None}, client : Client \cup {None}, user : User \cup {None},
     scopes : SUBSET Scope,
     wanted : {"skip", "default"},
     known : {"yes", "no"}]   \* history: was its user stored at any time since it came?

TypeOK ==
    /\ client \in [Client -> {"skip", "default", "gone"}]
    /\ exists \subseteq User
    /\ disabled \in BOOLEAN
    /\ begun \subseteq Chain
    /\ grants \subseteq Grant /\ \A g \in grants : g.chain \in begun
    /\ access \subseteq Access
    /\ request \in [Request -> RequestState]
    /\ \A r \in Request : request[r].at # "idle" =>
          request[r].client \in Client /\ request[r].chain \in begun
    /\ events \in 0..MaxEvents

Init ==
    /\ client \in [Client -> {"skip", "default"}]
    /\ exists = {}
    /\ disabled = FALSE
    /\ begun = {}
    /\ grants = {} /\ access = {}
    /\ request = [r \in Request |-> Idle]
    /\ events = 0

Room == Cardinality(grants) + Cardinality(access) < MaxIssued
Event == events < MaxEvents /\ events' = events + 1

-----------------------------------------------------------------------------

\* Authorize, for a user signed in, who is stored again if need be: the code
\* carries the scopes requested.
Authorize(k) ==
    /\ k \notin begun
    /\ Room
    /\ begun' = begun \cup {k}
    /\ \E c \in Client, u \in User, scopes \in SUBSET Scope :
          /\ client[c] # "gone"
          /\ exists' = exists \cup {u}
          /\ request' = [r \in Request |-> IF request[r].user = u
                                          THEN [request[r] EXCEPT !.known = "yes"]
                                          ELSE request[r]]
          /\ grants' = grants \cup {[kind |-> "code", chain |-> k, client |-> c, user |-> u,
                                    scopes |-> scopes]}
    /\ UNCHANGED <<client, disabled, access, events>>

downscoped_AsAsked(asked, original) ==   \* mutant: the intersection is left out
    IF asked = {} THEN original ELSE asked

\* The scopes of a principal exchanged for others.
downscoped(asked, original) == IF asked = {} THEN original ELSE asked \cap original

\* A code or a refresh token is presented, with the scopes asked for. A code is
\* exchanged without another look; for a refresh token the user is looked up.
Exchange(r, kind) ==
    /\ request[r].at = "idle"
    /\ \E g \in grants, asked \in SUBSET Scope :
          /\ g.kind = kind
          /\ client[g.client] # "gone"
          /\ request' = [request EXCEPT ![r] =
                [at |-> IF kind = "code" THEN "signingIn" ELSE "looking",
                 kind |-> kind, chain |-> g.chain, client |-> g.client, user |-> g.user,
                 scopes |-> downscoped(asked, g.scopes), wanted |-> "default",
                 known |-> IF g.user \in exists THEN "yes" ELSE "no"]]
    /\ UNCHANGED <<client, exists, disabled, begun, grants, access, events>>

\* Client credentials: a client, found by its id, is its own subject.
ExchangeClientCredentials(r, k) ==
    /\ request[r].at = "idle"
    /\ k \notin begun
    /\ begun' = begun \cup {k}
    /\ \E c \in Client, asked \in SUBSET Scope :
          /\ client[c] # "gone"
          /\ request' = [request EXCEPT ![r] =
                [at |-> "signingIn", kind |-> "machine", chain |-> k, client |-> c, user |-> None,
                 scopes |-> asked, wanted |-> "default", known |-> "no"]]
    /\ UNCHANGED <<client, exists, disabled, grants, access, events>>

UserFound_Unchecked(r) ==   \* mutant: the claims of the token are enough
    /\ request[r].at = "looking"
    /\ request' = [request EXCEPT ![r].at = "signingIn"]
    /\ UNCHANGED <<client, exists, disabled, begun, grants, access, events>>

UserFound(r) ==
    /\ request[r].at = "looking"
    /\ request[r].user \in exists
    /\ request' = [request EXCEPT ![r].at = "signingIn"]
    /\ UNCHANGED <<client, exists, disabled, begun, grants, access, events>>

UserGone(r) ==
    /\ request[r].at = "looking"
    /\ request[r].user \notin exists
    /\ request' = [request EXCEPT ![r] = Idle]
    /\ UNCHANGED <<client, exists, disabled, begun, grants, access, events>>

Configure_BothWays(r) ==   \* mutant: the switch is set to what each client says
    /\ request[r].at = "signingIn"
    /\ LET skip == client[request[r].client] = "skip"
       IN /\ disabled' = skip
          /\ request' = [request EXCEPT ![r].at = "configured",
                                        ![r].wanted = IF skip THEN "skip" ELSE "default"]
    /\ UNCHANGED <<client, exists, begun, grants, access, events>>

\* ConfigureAccessTokenEncryption: the switch is thrown, never back.
Configure(r) ==
    /\ request[r].at = "signingIn"
    /\ LET skip == client[request[r].client] = "skip"
       IN /\ disabled' = (disabled \/ skip)
          /\ request' = [request EXCEPT ![r].at = "configured",
                                        ![r].wanted = IF skip THEN "skip" ELSE "default"]
    /\ UNCHANGED <<client, exists, begun, grants, access, events>>

\* What a refresh token of the request would hand on.
Refresh(q) ==
    [kind |-> "refresh", chain |-> q.chain, client |-> q.client, user |-> q.user,
     scopes |-> q.scopes]

Issue_ToMachines(r) ==   \* mutant: a client by itself is issued refresh tokens too
    LET q == request[r]
    IN /\ q.at = "configured" /\ Room
       /\ access' = access \cup {[chain |-> q.chain, client |-> q.client, scopes |-> q.scopes,
                                  form |-> IF disabled THEN "plain" ELSE "encrypted",
                                  wanted |-> q.wanted]}
       /\ grants' = grants \cup {g \in {Refresh(q)} : Offline \in q.scopes}
       /\ request' = [request EXCEPT ![r] = Idle]
       /\ UNCHANGED <<client, exists, disabled, begun, events>>

\* OpenIddict generates the tokens under the option as it is now.
Issue(r) ==
    LET q == request[r]
    IN /\ q.at = "configured" /\ Room
       /\ access' = access \cup {[chain |-> q.chain, client |-> q.client, scopes |-> q.scopes,
                                  form |-> IF disabled THEN "plain" ELSE "encrypted",
                                  wanted |-> q.wanted]}
       /\ grants' = grants \cup {g \in {Refresh(q)} : q.kind # "machine" /\ Offline \in q.scopes}
       /\ request' = [request EXCEPT ![r] = Idle]
       /\ UNCHANGED <<client, exists, disabled, begun, events>>

-----------------------------------------------------------------------------

\* The manager app, or the configuration, changes or deletes a client.
ClientChanges(c) ==
    /\ Event
    /\ client' \in {[client EXCEPT ![c] = s] : s \in {"skip", "default", "gone"}}
    /\ UNCHANGED <<exists, disabled, begun, grants, access, request>>

UserDeleted(u) ==
    /\ Event
    /\ exists' = exists \ {u}
    /\ UNCHANGED <<client, disabled, begun, grants, access, request>>

\* The process restarts, with the options of its configuration.
Restart ==
    /\ Event
    /\ disabled' = FALSE
    /\ request' = [r \in Request |-> Idle]
    /\ UNCHANGED <<client, exists, begun, grants, access>>

Next ==
    \/ \E k \in Chain : Authorize(k)
    \/ \E r \in Request, kind \in {"code", "refresh"} : Exchange(r, kind)
    \/ \E r \in Request, k \in Chain : ExchangeClientCredentials(r, k)
    \/ \E r \in Request : UserFound(r) \/ UserGone(r) \/ Configure(r) \/ Issue(r)
    \/ \E c \in Client : ClientChanges(c)
    \/ \E u \in User : UserDeleted(u)
    \/ Restart

Spec == Init /\ [][Next]_vars

-----------------------------------------------------------------------------
(* Properties.                                                              *)

\* Scopes only shrink: whatever exchanges of codes and refresh tokens follow an
\* authorization, overlapping or repeated, nothing issued carries more than
\* something issued for it before (OAuthController.cs:156-166,
\* ExchangeRefreshTokenHandler.cs:38-49).
Handed == INSTANCE Grants WITH
    issued <- {[chain |-> g.chain, scopes |-> g.scopes] : g \in grants}
                \cup {[chain |-> t.chain, scopes |-> t.scopes] : t \in access}

ImplementsGrants == Handed!Spec

\* A client that wants its access tokens unencrypted gets them so, whatever
\* other clients sign in between its own two steps: the reason why a switch set
\* back for the next client would not do (ConfigureAccessTokenEncryption.cs:29-42).
SkipHonoured == \A t \in access : t.wanted = "skip" => t.form = "plain"

\* Nobody is issued anything for a refresh token who was not stored at some time
\* between its arrival and its answer (ExchangeRefreshTokenHandler.cs:25-33). A
\* user deleted after the lookup is; one who signs in again revives old tokens.
RefreshNeedsUser ==
    \A r \in Request :
        request[r].kind = "refresh" /\ request[r].at \in {"signingIn", "configured"}
            => request[r].known = "yes"
=============================================================================
