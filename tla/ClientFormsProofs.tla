--------------------------- MODULE ClientFormsProofs ---------------------------
(* The properties of the session and of the forms of the manager app, for any *)
(* clients and any number of requests in flight.                             *)
EXTENDS ClientForms, FiniteSetTheorems, TLAPS

(***************************************************************************)
(* The session.                                                             *)
(***************************************************************************)

\* A page's code is fetched for a protected page only for a user the store
\* holds, and after an accepted check.
Cleared(n, u, a) == n.at = "import" /\ n.to \in Protected => u = TRUE /\ a = TRUE

SessionInv ==
    /\ SessionTypeOK
    /\ isAuthorized = TRUE => accepted = TRUE
    /\ Cleared(nav, user, accepted)

Nav == [to : Route, at : {"rest", "check", "import"}]

\* What the guard decides is a route or to proceed; it lets nobody proceed to a
\* protected page without a user and an authorization.
LEMMA GuardDecides ==
  ASSUME NEW to \in Route, NEW l \in BOOLEAN, NEW a \in BOOLEAN
  PROVE  /\ guard(to, l, a) \in {"clients", "Unauthorized", "Login", "proceed"}
         /\ guard(to, l, a) = "proceed" /\ to \in Protected => l = TRUE /\ a = TRUE
         /\ guard(to, l, a) = "clients" => l = TRUE /\ a = TRUE
  BY DEF guard, Protected, publicRoutes, Route

LEMMA NavigateClears ==
  ASSUME NEW to \in Route, NEW l \in BOOLEAN, NEW a \in BOOLEAN, stored \in BOOLEAN,
         Navigate(to, l, a)
  PROVE  /\ user' \in BOOLEAN /\ nav' \in Nav
         /\ Cleared(nav', user', a)
  <1> DEFINE held == l \/ stored
             decided == guard(to, held, a)
             there == IF decided = "proceed" THEN to ELSE decided
             Shown(route) == route = page /\ route # "edit-client"
  <1>1. held \in BOOLEAN
    OBVIOUS
  <1>2. /\ decided \in {"clients", "Unauthorized", "Login", "proceed"}
        /\ decided = "proceed" /\ to \in Protected => held = TRUE /\ a = TRUE
        /\ decided = "clients" => held = TRUE /\ a = TRUE
    BY <1>1, GuardDecides
  <1>3. AtRest \in Nav /\ AtRest.at = "rest"
    BY DEF AtRest, Nav, Route
  <1>4. there \in Route
    BY <1>2 DEF Route, Protected, publicRoutes
  <1>5. there \in Protected => held = TRUE /\ a = TRUE
    BY <1>2 DEF Protected
  <1>6. CASE Shown(to)
    <2>1. user' = l /\ nav' = AtRest
      BY <1>6 DEF Navigate
    <2> QED
      BY <2>1, <1>3 DEF Cleared
  <1>7. CASE ~Shown(to)
    <2>1. /\ user' = held
          /\ \/ nav' = [to |-> to, at |-> "check"]
             \/ nav' = AtRest
             \/ nav' = [to |-> there, at |-> "import"]
      BY <1>7 DEF Navigate
    <2> HIDE DEF held, there, decided
    <2>2. nav' \in Nav
      BY <2>1, <1>3, <1>4 DEF Nav
    <2>3. Cleared(nav', user', a)
      BY <2>1, <1>3, <1>5 DEF Cleared
    <2> QED
      BY <2>1, <2>2, <2>3, <1>1
  <1> QED
    BY <1>6, <1>7

LEMMA NavTyped == AtRest \in Nav /\ AtRest.at = "rest"
  BY DEF AtRest, Nav, Route

LEMMA InitSession == SessionInit => SessionInv
  <1> SUFFICES ASSUME SessionInit PROVE SessionInv
    OBVIOUS
  <1>1. PICK to \in Route : nav = FirstNavigation(to, stored)
    BY DEF SessionInit
  <1>2. /\ stored \in BOOLEAN /\ user \in BOOLEAN /\ isAuthorized = FALSE /\ page = "start"
        /\ stale = 0 /\ exchanging = FALSE /\ accepted = FALSE
    BY DEF SessionInit
  <1>3. nav \in Nav /\ ~(nav.at = "import" /\ nav.to \in Protected)
    BY <1>1 DEF FirstNavigation, Nav, Route, Protected, publicRoutes
  <1> QED
    BY <1>2, <1>3 DEF SessionInv, SessionTypeOK, Cleared, Nav

\* A navigation started in the middle of a step, from what the step leaves.
LEMMA Navigated ==
  ASSUME SessionInv, NEW to \in Route, NEW l \in BOOLEAN, NEW a \in BOOLEAN,
         Navigate(to, l, a), a = TRUE => accepted' = TRUE,
         isAuthorized' = a, accepted' \in BOOLEAN, stored' \in BOOLEAN,
         stale' \in Nat, exchanging' \in BOOLEAN, page' = page
  PROVE  SessionInv'
  <1>1. /\ user' \in BOOLEAN /\ nav' \in Nav /\ Cleared(nav', user', a)
    BY NavigateClears DEF SessionInv, SessionTypeOK
  <1>2. Cleared(nav', user', accepted')
    BY <1>1 DEF Cleared
  <1> QED
    BY <1>1, <1>2 DEF SessionInv, SessionTypeOK, Nav

LEMMA AbandonedTyped == ASSUME SessionInv PROVE Abandoned \in Nat
  BY DEF SessionInv, SessionTypeOK, Abandoned

LEMMA PushSession == ASSUME SessionInv, NEW to \in Route, push(to) PROVE SessionInv'
  <1>1. /\ Navigate(to, user, isAuthorized) /\ stale' = Abandoned
        /\ UNCHANGED <<isAuthorized, stored, page, exchanging, accepted>>
    BY DEF push
  <1> QED
    BY <1>1, Navigated, AbandonedTyped DEF SessionInv, SessionTypeOK

LEMMA UnauthorizedSession == ASSUME SessionInv, unauthorized PROVE SessionInv'
  <1>1. /\ Navigate("Unauthorized", FALSE, FALSE) /\ stale' = Abandoned
        /\ isAuthorized' = FALSE /\ UNCHANGED <<stored, page, exchanging, accepted>>
    BY DEF unauthorized
  <1>2. "Unauthorized" \in Route /\ FALSE \in BOOLEAN
    BY DEF Route, publicRoutes
  <1> QED
    BY <1>1, <1>2, Navigated, AbandonedTyped DEF SessionInv, SessionTypeOK

LEMMA LoadedSession == ASSUME Loaded PROVE SessionInv'
  <1>1. PICK to \in Route : nav' = FirstNavigation(to, stored')
    BY DEF Loaded
  <1>2. /\ stored' \in BOOLEAN /\ user' \in BOOLEAN /\ isAuthorized' = FALSE /\ page' = "start"
        /\ stale' = 0 /\ exchanging' = FALSE /\ accepted' = FALSE
    BY DEF Loaded
  <1>3. nav' \in Nav /\ ~(nav'.at = "import" /\ nav'.to \in Protected)
    BY <1>1 DEF FirstNavigation, Nav, Route, Protected, publicRoutes
  <1> QED
    BY <1>2, <1>3 DEF SessionInv, SessionTypeOK, Cleared, Nav

LEMMA CheckAnsweredSession ==
  ASSUME SessionInv, NEW ok \in BOOLEAN, CheckAnswered(ok) PROVE SessionInv'
  <1> DEFINE decided == guard(nav.to, user, ok)
  <1>1. /\ isAuthorized' = ok /\ accepted' = (accepted \/ ok)
        /\ UNCHANGED <<stored, page, stale, exchanging>>
    BY DEF CheckAnswered
  <1>2. /\ user \in BOOLEAN /\ accepted \in BOOLEAN /\ stored \in BOOLEAN
        /\ exchanging \in BOOLEAN /\ stale \in Nat /\ nav \in Nav /\ nav.to \in Route
    BY DEF SessionInv, SessionTypeOK, Nav
  <1>3. accepted' \in BOOLEAN /\ (ok = TRUE => accepted' = TRUE)
    BY <1>1, <1>2
  <1>4. /\ decided \in {"clients", "Unauthorized", "Login", "proceed"}
        /\ decided = "proceed" /\ nav.to \in Protected => user = TRUE /\ ok = TRUE
    BY <1>2, GuardDecides
  <1>5. CASE decided = "proceed"
    <2>1. nav' = [nav EXCEPT !.at = "import"] /\ user' = user
      BY <1>5 DEF CheckAnswered
    <2> HIDE DEF decided
    <2>2. nav' \in Nav /\ nav'.to = nav.to
      BY <2>1, <1>2 DEF Nav
    <2>3. Cleared(nav', user', accepted')
      BY <2>1, <2>2, <1>3, <1>4, <1>5 DEF Cleared
    <2> QED
      BY <2>1, <2>2, <2>3, <1>1, <1>2, <1>3 DEF SessionInv, SessionTypeOK, Nav
  <1>6. CASE decided # "proceed"
    <2>1. Navigate(decided, user, ok)
      BY <1>6 DEF CheckAnswered
    <2>2. decided \in Route
      BY <1>4, <1>6 DEF Route, Protected, publicRoutes
    <2> HIDE DEF decided
    <2> QED
      BY <2>1, <2>2, <1>1, <1>2, <1>3, Navigated
  <1> QED
    BY <1>5, <1>6

LEMMA StaleAnsweredSession ==
  ASSUME SessionInv, NEW ok \in BOOLEAN, StaleAnswered(ok) PROVE SessionInv'
  <1>1. /\ isAuthorized' = ok /\ accepted' = (accepted \/ ok)
        /\ stale > 0 /\ stale' = stale - 1
        /\ UNCHANGED <<user, stored, page, nav, exchanging>>
    BY DEF StaleAnswered
  <1>2. accepted \in BOOLEAN /\ stale \in Nat
    BY DEF SessionInv, SessionTypeOK
  <1>3. /\ accepted' \in BOOLEAN /\ (ok = TRUE => accepted' = TRUE)
        /\ accepted = TRUE => accepted' = TRUE
    BY <1>1, <1>2
  <1>4. stale' \in Nat
    BY <1>1, <1>2
  <1>5. Cleared(nav', user', accepted')
    BY <1>1, <1>3 DEF SessionInv, Cleared
  <1> QED
    BY <1>1, <1>3, <1>4, <1>5 DEF SessionInv, SessionTypeOK

LEMMA FailedSession == ASSUME SessionInv, NavigationFailed \/ StaleFailed PROVE SessionInv'
  <1>1. CASE NavigationFailed
    <2>1. nav' = AtRest /\ UNCHANGED <<user, isAuthorized, stored, page, stale, exchanging, accepted>>
      BY <1>1 DEF NavigationFailed
    <2> QED
      BY <2>1, NavTyped DEF SessionInv, SessionTypeOK, Cleared, Nav
  <1>2. CASE StaleFailed
    <2>1. stale \in Nat /\ stale > 0 /\ stale' = stale - 1
          /\ UNCHANGED <<user, isAuthorized, stored, page, nav, exchanging, accepted>>
      BY <1>2 DEF StaleFailed, SessionInv, SessionTypeOK
    <2>2. stale' \in Nat
      BY <2>1
    <2> QED
      BY <2>1, <2>2 DEF SessionInv, SessionTypeOK, Cleared
  <1> QED
    BY <1>1, <1>2

LEMMA ArrivedSession ==
  ASSUME SessionInv, Arrived
  PROVE  SessionInv' /\ (page' \in Protected => user' = TRUE /\ accepted = TRUE)
  <1>1. /\ nav.at = "import" /\ page' = nav.to /\ nav' = AtRest
        /\ exchanging' = (exchanging \/ nav.to = "AuthCallback")
        /\ UNCHANGED <<user, isAuthorized, stored, stale, accepted>>
    BY DEF Arrived
  <1>2. exchanging' \in BOOLEAN /\ page' \in Route
    BY <1>1 DEF SessionInv, SessionTypeOK
  <1>3. Cleared(nav', user', accepted') /\ nav' \in Nav
    BY <1>1, NavTyped DEF Cleared
  <1>4. page' \in Protected => user' = TRUE /\ accepted = TRUE
    BY <1>1 DEF SessionInv, Cleared
  <1> QED
    BY <1>1, <1>2, <1>3, <1>4 DEF SessionInv, SessionTypeOK, Nav

LEMMA CallbackSession == ASSUME SessionInv, LoginCallback PROVE SessionInv'
  <1>1. /\ exchanging' = FALSE /\ stale' = Abandoned
        /\ UNCHANGED <<isAuthorized, page, accepted>>
        /\ \/ stored' = TRUE /\ Navigate("clients", TRUE, isAuthorized)
           \/ stored' = stored /\ Navigate("missing", user, isAuthorized)
    BY DEF LoginCallback
  <1>2. /\ "clients" \in Route /\ "missing" \in Route
        /\ user \in BOOLEAN /\ isAuthorized \in BOOLEAN /\ stored \in BOOLEAN
        /\ accepted \in BOOLEAN /\ (isAuthorized = TRUE => accepted = TRUE)
    BY DEF SessionInv, SessionTypeOK, Route, Protected
  <1>3. stored' \in BOOLEAN
    BY <1>1, <1>2
  <1>4. CASE Navigate("clients", TRUE, isAuthorized)
    BY <1>1, <1>2, <1>3, <1>4, Navigated, AbandonedTyped
  <1>5. CASE Navigate("missing", user, isAuthorized)
    BY <1>1, <1>2, <1>3, <1>5, Navigated, AbandonedTyped
  <1> QED
    BY <1>1, <1>4, <1>5

LEMMA StorageSession == ASSUME SessionInv, StorageChanges PROVE SessionInv'
  <1>1. stored' = ~stored
        /\ UNCHANGED <<user, isAuthorized, page, nav, stale, exchanging, accepted>>
    BY DEF StorageChanges
  <1> QED
    BY <1>1 DEF SessionInv, SessionTypeOK, Cleared

LEMMA StillSession == ASSUME SessionInv, UNCHANGED sessionVars PROVE SessionInv'
  BY DEF SessionInv, SessionTypeOK, sessionVars, Cleared

(***************************************************************************)
(* The forms.                                                               *)
(***************************************************************************)

\* What is known of a request: loads, and additions answered, have an id; the
\* page of an addition not left is the one for new clients.
Sound(q, p) ==
    /\ q.kind = "load" \/ (q.kind = "add" /\ q.at = "ok") => q.body.id \in Client
    /\ q.kind = "add" /\ q.sender = "mounted" => p = "new-client"

Requests == request \in [Slot -> Request] /\ \A s \in Slot : Sound(request[s], page)

Dialogs ==
    /\ dialog \in Dialog \cup {None}
    /\ page # "new-client" => dialog = None
    /\ SecretMatchesClient

Counters ==
    /\ submitted \in Nat /\ reported \in Nat
    /\ message \in {"none", "success", "error"}
    /\ inputs \in 0..MaxInputs /\ events \in 0..MaxEvents

Models ==
    /\ registered \in [Client -> Content \cup {None}]
    /\ listLost \in BOOLEAN
    /\ draft \in Fields
    /\ form \in {"draft", "loaded", "lost"}
    /\ loaded \in Fields

FormsInv == Requests /\ Dialogs /\ Counters /\ Models

IInv == SessionInv /\ FormsInv

LEMMA Strong == IInv => TypeOK /\ SecretMatchesClient
  BY DEF IInv, SessionInv, FormsInv, Requests, Dialogs, Counters, Models, TypeOK

LEMMA Fixed == Blank \in Fields /\ NoRequest \in Request /\ (\A p : Sound(NoRequest, p))
  BY DEF Blank, Fields, NoRequest, Request, Sound

LEMMA InitForms == Init => FormsInv
  <1> SUFFICES ASSUME Init PROVE FormsInv
    OBVIOUS
  <1>1. Requests
    BY Fixed DEF Init, Requests
  <1>2. Dialogs
    BY DEF Init, Dialogs, SecretMatchesClient
  <1>3. Counters
    BY BoundAssumption DEF Init, Counters
  <1>4. Models
    BY Fixed DEF Init, Models
  <1> QED
    BY <1>1, <1>2, <1>3, <1>4 DEF FormsInv

\* One entry of the table changes, on the page shown.
LEMMA Entry ==
  ASSUME Requests, NEW s \in Slot, NEW q \in Request, Sound(q, page),
         request' = [request EXCEPT ![s] = q], page' = page
  PROVE  Requests'
  BY DEF Requests

LEMMA EndsEntry == ASSUME Requests, NEW s \in Slot, Ends(s), page' = page PROVE Requests'
  BY Fixed, Entry DEF Ends

LEMMA OrphanedSound ==
  ASSUME Requests
  PROVE  Orphaned \in [Slot -> Request] /\ \A s \in Slot, p \in Route : Sound(Orphaned[s], p)
  BY DEF Requests, Orphaned, Request, Sound

LEMMA InputCounted == ASSUME Counters, Input PROVE inputs' \in 0..MaxInputs /\ events' = events
  BY BoundAssumption DEF Counters, Input

LEMMA EventCounted == ASSUME Counters, Event PROVE events' \in 0..MaxEvents /\ inputs' = inputs
  BY BoundAssumption DEF Counters, Event

LEMMA CountersKept ==
  ASSUME Counters, message' \in {"none", "success", "error"},
         reported' \in {reported, reported + 1}, submitted' \in {submitted, submitted + 1},
         UNCHANGED <<inputs, events>>
  PROVE  Counters'
  BY DEF Counters

LEMMA ServeForms == ASSUME FormsInv, NEW s \in Slot, Serve(s) PROVE FormsInv'
  <1> DEFINE r == request[s]
             complete == r.body.id # None /\ r.body.content # None
  <1>1. /\ r \in Request /\ Sound(r, page) /\ r.kind # "none" /\ r.at = "sent"
        /\ page' = page
        /\ UNCHANGED <<listLost, draft, form, loaded, dialog, submitted, reported,
                       message, inputs, events>>
    BY DEF Serve, FormsInv, Requests, sessionVars
  <1>2. Dialogs' /\ Counters'
    BY <1>1 DEF FormsInv, Dialogs, Counters, SecretMatchesClient
  <1>3. ASSUME NEW at \in {"ok", "failed", "invalid", "duplicate"},
               request' = [request EXCEPT ![s].at = at],
               at = "ok" /\ r.kind = "add" => complete
        PROVE  Requests'
    <2> DEFINE q == [r EXCEPT !.at = at]
    <2>1. request' = [request EXCEPT ![s] = q]
      BY <1>3
    <2>2. r.body \in Fields
      BY <1>1 DEF Request
    <2>3. q \in Request /\ q.kind = r.kind /\ q.at = at /\ q.body = r.body /\ q.sender = r.sender
      BY <1>1 DEF Request
    <2>4. Sound(q, page)
      BY <1>1, <1>3, <2>2, <2>3 DEF Sound, Fields
    <2> HIDE DEF q
    <2> QED
      BY <1>1, <2>1, <2>3, <2>4, Entry DEF FormsInv
  <1>4. CASE r.kind = "list"
    <2>1. request' = [request EXCEPT ![s].at = "ok"] /\ registered' = registered
      BY <1>4 DEF Serve
    <2> QED
      BY <1>1, <1>2, <1>3, <1>4, <2>1 DEF FormsInv, Models
  <1>5. CASE r.kind = "load"
    <2>1. registered' = registered
      BY <1>5 DEF Serve
    <2>2. CASE registered[r.body.id] = None
      <3>1. request' = [request EXCEPT ![s].at = "failed"]
        BY <1>5, <2>2 DEF Serve
      <3> QED
        BY <1>1, <1>2, <1>3, <2>1, <3>1 DEF FormsInv, Models
    <2>3. CASE registered[r.body.id] # None
      <3> DEFINE q == [r EXCEPT !.at = "ok", !.body.content = registered[r.body.id]]
      <3>1. request' = [request EXCEPT ![s].at = "ok", ![s].body.content = registered[r.body.id]]
        BY <1>5, <2>3 DEF Serve
      <3>2. request' = [request EXCEPT ![s] = q]
        BY <3>1, <1>1 DEF FormsInv, Requests
      <3>3. r.body \in Fields /\ r.body.id \in Client /\ registered[r.body.id] \in Content \cup {None}
        BY <1>1, <1>5 DEF Request, Sound, FormsInv, Models
      <3>4. [r.body EXCEPT !.content = registered[r.body.id]] \in Fields
        BY <3>3 DEF Fields
      <3>5. /\ q.kind = r.kind /\ q.at = "ok" /\ q.sender = r.sender
            /\ q.body = [r.body EXCEPT !.content = registered[r.body.id]]
        BY <1>1 DEF Request
      <3>6. q \in Request
        BY <1>1, <3>4 DEF Request
      <3>7. Sound(q, page)
        BY <1>5, <3>3, <3>5 DEF Sound, Fields
      <3> HIDE DEF q
      <3> QED
        BY <1>1, <1>2, <2>1, <3>2, <3>6, <3>7, Entry DEF FormsInv, Models
    <2> QED
      BY <2>2, <2>3
  <1>6. CASE r.kind \in {"update", "add"} /\ ~complete
    <2>1. /\ \E at \in {"failed", "invalid"} : request' = [request EXCEPT ![s].at = at]
          /\ registered' = registered
      BY <1>6 DEF Serve
    <2> QED
      BY <1>1, <1>2, <1>3, <2>1 DEF FormsInv, Models
  <1>7. CASE r.kind \in {"update", "add"} /\ complete
    <2>1. /\ \E at \in {"ok", "duplicate"} : request' = [request EXCEPT ![s].at = at]
          /\ \/ registered' = [registered EXCEPT ![r.body.id] = r.body.content]
             \/ registered' = registered
      BY <1>7 DEF Serve
    <2>2. r.body.content \in Content \cup {None}
      BY <1>1 DEF Request, Fields
    <2>3. Models'
      BY <1>1, <2>1, <2>2 DEF FormsInv, Models
    <2>4. Requests'
      BY <1>3, <1>7, <2>1
    <2> QED
      BY <1>2, <2>3, <2>4 DEF FormsInv
  <1>8. r.kind \in {"list", "load", "update", "add"}
    BY <1>1 DEF Request
  <1> QED
    BY <1>4, <1>5, <1>6, <1>7, <1>8

LEMMA FailForms == ASSUME FormsInv, NEW s \in Slot, Fail(s) PROVE FormsInv'
  <1>1. PICK at \in {"failed", "refused"} : request' = [request EXCEPT ![s].at = at]
    BY DEF Fail
  <1>2. /\ page' = page
        /\ UNCHANGED <<registered, listLost, draft, form, loaded, dialog, submitted, reported,
                       message, inputs, events>>
    BY DEF Fail, sessionVars
  <1> DEFINE q == [request[s] EXCEPT !.at = at]
  <1>3. request' = [request EXCEPT ![s] = q]
    BY <1>1
  <1>4. q \in Request /\ Sound(q, page)
    BY DEF FormsInv, Requests, Request, Sound
  <1> HIDE DEF q
  <1>5. Requests'
    BY <1>2, <1>3, <1>4, Entry DEF FormsInv
  <1> QED
    BY <1>2, <1>5 DEF FormsInv, Dialogs, Counters, Models, SecretMatchesClient

\* What a step that leaves page, dialog and models alone has to show.
LEMMA Steady ==
  ASSUME FormsInv, Requests', Counters', page' = page,
         UNCHANGED <<registered, listLost, draft, form, loaded, dialog>>
  PROVE  FormsInv'
  BY DEF FormsInv, Dialogs, Models, SecretMatchesClient

LEMMA SessionShown ==
  ASSUME push("clients") \/ unauthorized \/ UNCHANGED sessionVars
  PROVE  page' = page
  BY DEF push, unauthorized, sessionVars

LEMMA SentSound ==
  ASSUME NEW kind \in {"list", "load", "update", "add"}, NEW body \in Fields, NEW p,
         kind = "load" => body.id \in Client, kind = "add" => p = "new-client"
  PROVE  Sent(kind, body) \in Request /\ Sound(Sent(kind, body), p)
  BY DEF Sent, Request, Sound

LEMMA EnterForms ==
  ASSUME FormsInv, SessionInv, Enter
  PROVE  FormsInv'
  <1>1. /\ page' \in Route /\ dialog' = None
        /\ form' = "draft" /\ loaded' = Blank
        /\ UNCHANGED <<registered, listLost, draft, submitted, reported, message, inputs, events>>
    BY DEF Enter, Arrived, SessionInv, SessionTypeOK
  <1>2. Dialogs' /\ Counters' /\ Models'
    BY <1>1, Fixed DEF FormsInv, Dialogs, Counters, Models, SecretMatchesClient
  <1>3. /\ Orphaned \in [Slot -> Request]
        /\ \A s \in Slot : Sound(Orphaned[s], page')
    BY <1>1, OrphanedSound DEF FormsInv
  <1>4. ASSUME NEW s \in Slot, NEW q \in Request, Sound(q, page'),
               request' = [Orphaned EXCEPT ![s] = q]
        PROVE  Requests'
    BY <1>3, <1>4 DEF Requests
  <1>5. CASE request' = Orphaned
    BY <1>2, <1>3, <1>5 DEF FormsInv, Requests
  <1>6. CASE \E s \in Slot : request' = [Orphaned EXCEPT ![s] = Sent("list", Blank)]
    <2>1. Sent("list", Blank) \in Request /\ Sound(Sent("list", Blank), page')
      BY Fixed, SentSound
    <2> QED
      BY <1>2, <1>4, <1>6, <2>1 DEF FormsInv
  <1>7. ASSUME NEW s \in Slot, NEW c \in Client,
               request' = [Orphaned EXCEPT ![s] = Sent("load", [id |-> c, content |-> None])]
        PROVE  FormsInv'
    <2> DEFINE body == [id |-> c, content |-> None]
    <2>1. body \in Fields /\ body.id \in Client
      BY DEF Fields
    <2> HIDE DEF body
    <2>2. Sent("load", body) \in Request /\ Sound(Sent("load", body), page')
      BY <2>1, SentSound
    <2>3. request' = [Orphaned EXCEPT ![s] = Sent("load", body)]
      BY <1>7 DEF body
    <2> QED
      BY <1>2, <1>4, <2>2, <2>3 DEF FormsInv
  <1> QED
    BY <1>5, <1>6, <1>7 DEF Enter

LEMMA BrowseForms == ASSUME FormsInv, Browse PROVE FormsInv'
  <1>1. page' = page
        /\ UNCHANGED <<registered, listLost, draft, form, loaded, dialog, request, submitted,
                       reported, message>>
    BY DEF Browse, push
  <1>2. Counters'
    BY <1>1, EventCounted DEF Browse, FormsInv, Counters
  <1> QED
    BY <1>1, <1>2, Steady DEF FormsInv, Requests

LEMMA ListAnsweredForms == ASSUME FormsInv, NEW s \in Slot, ListAnswered(s) PROVE FormsInv'
  <1>1. /\ page' = page /\ Ends(s)
        /\ UNCHANGED <<registered, draft, form, loaded, dialog, submitted, reported, message,
                       inputs, events>>
    BY SessionShown DEF ListAnswered
  <1>2. listLost' \in BOOLEAN
    <2>1. listLost' = TRUE \/ listLost' = FALSE \/ listLost' = listLost
      BY DEF ListAnswered
    <2> QED
      BY <2>1 DEF FormsInv, Models
  <1>3. Requests' /\ Dialogs' /\ Counters'
    BY <1>1, EndsEntry DEF FormsInv, Dialogs, Counters, SecretMatchesClient
  <1> QED
    BY <1>1, <1>2, <1>3 DEF FormsInv, Models

LEMMA LoadAnsweredForms == ASSUME FormsInv, NEW s \in Slot, LoadAnswered(s) PROVE FormsInv'
  <1>1. /\ page' = page /\ Ends(s)
        /\ UNCHANGED <<registered, listLost, draft, dialog, submitted, reported, message,
                       inputs, events>>
    BY SessionShown DEF LoadAnswered
  <1>2. request[s].body \in Fields
    BY DEF FormsInv, Requests, Request
  <1>3. form' \in {"draft", "loaded", "lost"} /\ loaded' \in Fields
    <2>1. \/ /\ form' = IF request[s].at = "ok" THEN "loaded" ELSE "lost"
             /\ loaded' = IF request[s].at = "ok" THEN request[s].body ELSE Blank
          \/ UNCHANGED <<form, loaded>>
      BY DEF LoadAnswered
    <2> QED
      BY <1>2, <2>1, Fixed DEF FormsInv, Models
  <1>4. Requests' /\ Dialogs' /\ Counters'
    BY <1>1, EndsEntry DEF FormsInv, Dialogs, Counters, SecretMatchesClient
  <1> QED
    BY <1>1, <1>3, <1>4 DEF FormsInv, Models

LEMMA FillForms == ASSUME FormsInv, Fill PROVE FormsInv'
  <1>1. /\ page' = page
        /\ UNCHANGED <<registered, listLost, form, dialog, request, submitted, reported, message>>
    BY DEF Fill, sessionVars
  <1>2. \A f \in Fields, x \in Content \cup {None} : [f EXCEPT !.content = x] \in Fields
    BY DEF Fields
  <1>3. draft' \in Fields /\ loaded' \in Fields
    BY <1>2 DEF Fill, FormsInv, Models
  <1>4. Counters'
    BY <1>1, InputCounted DEF Fill, FormsInv, Counters
  <1>5. Requests' /\ Dialogs'
    BY <1>1 DEF FormsInv, Requests, Dialogs, SecretMatchesClient
  <1> QED
    BY <1>1, <1>3, <1>4, <1>5 DEF FormsInv, Models

LEMMA SaveUpdateForms == ASSUME FormsInv, SaveUpdate PROVE FormsInv'
  <1>1. /\ page' = page
        /\ UNCHANGED <<registered, listLost, draft, form, loaded, dialog>>
    BY DEF SaveUpdate, push, sessionVars
  <1>2. Counters'
    <2>1. /\ message' \in {message, "success"} /\ reported' \in {reported, reported + 1}
          /\ submitted' = submitted + 1
      BY DEF SaveUpdate
    <2>2. inputs' \in 0..MaxInputs /\ events' = events
      BY InputCounted DEF SaveUpdate, FormsInv
    <2> QED
      BY <2>1, <2>2 DEF FormsInv, Counters
  <1>3. Requests'
    <2>1. CASE request' = request
      BY <1>1, <2>1 DEF FormsInv, Requests
    <2>2. CASE request' # request
      <3> DEFINE body == IF form = "loaded" THEN loaded ELSE draft
      <3>1. PICK s \in Slot : request' = [request EXCEPT ![s] = Sent("update", body)]
        BY <2>2 DEF SaveUpdate
      <3>2. body \in Fields
        BY DEF FormsInv, Models
      <3> HIDE DEF body
      <3>3. Sent("update", body) \in Request /\ Sound(Sent("update", body), page)
        BY <3>2, SentSound
      <3> QED
        BY <1>1, <3>1, <3>3, Entry DEF FormsInv
    <2> QED
      BY <2>1, <2>2
  <1> QED
    BY <1>1, <1>2, <1>3, Steady

LEMMA UpdateAnsweredForms ==
  ASSUME FormsInv, NEW s \in Slot, UpdateSucceeded(s) \/ UpdateFailed(s) PROVE FormsInv'
  <1>1. /\ page' = page /\ Ends(s)
        /\ message' \in {"success", "error"} /\ reported' = reported + 1
        /\ UNCHANGED <<registered, listLost, draft, form, loaded, dialog, submitted, inputs, events>>
    BY DEF UpdateSucceeded, UpdateFailed, push, sessionVars
  <1>2. Requests' /\ Counters'
    BY <1>1, EndsEntry, CountersKept DEF FormsInv
  <1> QED
    BY <1>1, <1>2, Steady

LEMMA SaveNewForms == ASSUME FormsInv, SaveNew PROVE FormsInv'
  <1>1. /\ page' = page /\ page = "new-client"
        /\ UNCHANGED <<registered, listLost, draft, form, loaded, dialog, submitted, reported,
                       message>>
    BY DEF SaveNew, sessionVars
  <1>2. PICK s \in Slot : request' = [request EXCEPT ![s] = Sent("add", draft)]
    BY DEF SaveNew
  <1>3. Sent("add", draft) \in Request /\ Sound(Sent("add", draft), page)
    BY <1>1, SentSound DEF FormsInv, Models
  <1>4. Requests'
    BY <1>1, <1>2, <1>3, Entry DEF FormsInv
  <1>5. Counters'
    BY <1>1, InputCounted DEF SaveNew, FormsInv, Counters
  <1> QED
    BY <1>1, <1>4, <1>5, Steady

LEMMA AddedForms == ASSUME FormsInv, NEW s \in Slot, Added(s) PROVE FormsInv'
  <1> DEFINE shown == [id |-> request[s].body.id, secret |-> request[s].body.id,
                       content |-> draft.content]
  <1>1. /\ page' = page /\ Ends(s)
        /\ request[s].kind = "add" /\ request[s].at = "ok"
        /\ message' \in {message, "success"}
        /\ dialog' = dialog \/ (request[s].sender = "mounted" /\ dialog' = shown)
        /\ UNCHANGED <<registered, listLost, draft, form, loaded, submitted, reported,
                       inputs, events>>
    BY DEF Added, sessionVars
  <1>2. Requests' /\ Counters' /\ Models'
    BY <1>1, EndsEntry DEF FormsInv, Counters, Models
  <1>3. Dialogs'
    <2>1. CASE dialog' = dialog
      BY <1>1, <2>1 DEF FormsInv, Dialogs, SecretMatchesClient
    <2>2. CASE request[s].sender = "mounted" /\ dialog' = shown
      <3>1. request[s].body.id \in Client /\ page = "new-client"
        BY <1>1, <2>2 DEF FormsInv, Requests, Sound
      <3>2. draft.content \in Content \cup {None}
        BY DEF FormsInv, Models, Fields
      <3>3. shown \in Dialog /\ shown.secret = shown.id
        BY <3>1, <3>2 DEF Dialog
      <3> HIDE DEF shown
      <3> QED
        BY <1>1, <2>2, <3>1, <3>3 DEF Dialogs, SecretMatchesClient
    <2> QED
      BY <1>1, <2>1, <2>2
  <1> QED
    BY <1>2, <1>3 DEF FormsInv

LEMMA NotAddedForms == ASSUME FormsInv, NEW s \in Slot, NotAdded(s) PROVE FormsInv'
  <1>1. /\ page' = page /\ Ends(s) /\ message' \in {message, "error"}
        /\ UNCHANGED <<registered, listLost, draft, form, loaded, dialog, submitted, reported,
                       inputs, events>>
    BY DEF NotAdded, sessionVars
  <1>2. Requests' /\ Counters'
    BY <1>1, EndsEntry DEF FormsInv, Counters
  <1> QED
    BY <1>1, <1>2, Steady

LEMMA ClosedForms == ASSUME FormsInv, onModalClose PROVE FormsInv'
  <1>1. /\ page' = page /\ dialog' = None
        /\ UNCHANGED <<registered, listLost, draft, form, loaded, request, submitted, reported,
                       message, inputs, events>>
    BY DEF onModalClose, push
  <1> QED
    BY <1>1 DEF FormsInv, Requests, Dialogs, Counters, Models, SecretMatchesClient

LEMMA ElsewhereForms == ASSUME FormsInv, NEW c \in Client, Elsewhere(c) PROVE FormsInv'
  <1>1. /\ page' = page
        /\ UNCHANGED <<listLost, draft, form, loaded, dialog, request, submitted, reported, message>>
    BY DEF Elsewhere, sessionVars
  <1>2. registered' \in [Client -> Content \cup {None}]
    BY DEF Elsewhere, FormsInv, Models
  <1>3. Counters'
    BY <1>1, EventCounted DEF Elsewhere, FormsInv, Counters
  <1> QED
    BY <1>1, <1>2, <1>3 DEF FormsInv, Requests, Dialogs, Models, SecretMatchesClient

LEMMA ReloadForms == ASSUME FormsInv, Reload PROVE FormsInv'
  <1>1. /\ listLost' = FALSE /\ draft' = Blank /\ form' = "draft" /\ loaded' = Blank
        /\ dialog' = None /\ request' = [s \in Slot |-> NoRequest]
        /\ reported' = submitted /\ submitted' = submitted /\ message' = "none"
        /\ registered' = registered
    BY DEF Reload
  <1>2. Counters'
    BY <1>1, EventCounted DEF Reload, FormsInv, Counters
  <1>3. Requests' /\ Dialogs' /\ Models'
    BY <1>1, Fixed DEF FormsInv, Requests, Dialogs, Models, SecretMatchesClient
  <1> QED
    BY <1>2, <1>3 DEF FormsInv

LEMMA StillForms == ASSUME FormsInv, UNCHANGED formVars, page' = page PROVE FormsInv'
  BY DEF FormsInv, formVars, Requests, Dialogs, Counters, Models, SecretMatchesClient

(***************************************************************************)
(* The updates in flight, and the history of what was submitted and told.    *)
(***************************************************************************)

UpdatesIn(g) == {s \in Slot : g[s].kind = "update"}

LEMMA UpdatesFinite ==
  ASSUME NEW g
  PROVE  IsFiniteSet(UpdatesIn(g)) /\ Cardinality(UpdatesIn(g)) \in Nat
  <1>1. UpdatesIn(g) \in SUBSET Slot
    BY DEF UpdatesIn
  <1> QED
    BY <1>1, BoundAssumption, FS_Subset, FS_CardinalityType

\* Updates in flight stay in flight, and no other request becomes one.
LEMMA UpdatesStay ==
  ASSUME UpdatesAccounted, UNCHANGED <<submitted, reported>>,
         \A s \in Slot : request'[s].kind = "update" <=> request[s].kind = "update"
  PROVE  UpdatesAccounted'
  <1>1. UpdatesIn(request') = UpdatesIn(request)
    BY DEF UpdatesIn
  <1> QED
    BY <1>1 DEF UpdatesAccounted, Updates, UpdatesIn

\* One request changes, to one of the same kind or to none of an update.
LEMMA UpdatesUntouched ==
  ASSUME Requests, UpdatesAccounted, UNCHANGED <<submitted, reported>>,
         NEW s \in Slot, NEW q, request' = [request EXCEPT ![s] = q],
         q.kind = "update" <=> request[s].kind = "update"
  PROVE  UpdatesAccounted'
  <1>1. \A t \in Slot : request'[t].kind = "update" <=> request[t].kind = "update"
    BY DEF Requests
  <1> QED
    BY <1>1, UpdatesStay

\* One more is sent.
LEMMA UpdateSent ==
  ASSUME Requests, UpdatesAccounted, Counters, NEW s \in Slot, Free(s), NEW body,
         request' = [request EXCEPT ![s] = Sent("update", body)],
         submitted' = submitted + 1, reported' = reported
  PROVE  UpdatesAccounted'
  <1>1. Sent("update", body).kind = "update"
    BY DEF Sent
  <1>2. s \notin UpdatesIn(request) /\ UpdatesIn(request') = UpdatesIn(request) \cup {s}
    BY <1>1 DEF Requests, UpdatesIn, Free
  <1>3. Cardinality(UpdatesIn(request')) = Cardinality(UpdatesIn(request)) + 1
    BY <1>2, UpdatesFinite, FS_AddElement
  <1>4. submitted = reported + Cardinality(UpdatesIn(request))
    BY DEF UpdatesAccounted, Updates, UpdatesIn
  <1>5. submitted' = reported' + Cardinality(UpdatesIn(request'))
    BY <1>3, <1>4, UpdatesFinite DEF Counters
  <1> QED
    BY <1>5 DEF UpdatesAccounted, Updates, UpdatesIn

\* One is over, and told.
LEMMA UpdateTold ==
  ASSUME Requests, UpdatesAccounted, Counters, NEW s \in Slot, request[s].kind = "update",
         Ends(s), reported' = reported + 1, submitted' = submitted
  PROVE  UpdatesAccounted'
  <1>1. request' = [request EXCEPT ![s] = NoRequest] /\ NoRequest.kind = "none"
    BY DEF Ends, NoRequest
  <1>2. s \in UpdatesIn(request) /\ UpdatesIn(request') = UpdatesIn(request) \ {s}
    BY <1>1 DEF Requests, UpdatesIn
  <1>3. Cardinality(UpdatesIn(request')) = Cardinality(UpdatesIn(request)) - 1
    BY <1>2, UpdatesFinite, FS_RemoveElement
  <1>4. submitted = reported + Cardinality(UpdatesIn(request))
    BY DEF UpdatesAccounted, Updates, UpdatesIn
  <1>5. submitted' = reported' + Cardinality(UpdatesIn(request'))
    BY <1>3, <1>4, UpdatesFinite DEF Counters
  <1> QED
    BY <1>5 DEF UpdatesAccounted, Updates, UpdatesIn

LEMMA InitUpdates == Init => UpdatesAccounted
  <1> SUFFICES ASSUME Init PROVE UpdatesAccounted
    OBVIOUS
  <1>1. Updates = {}
    BY DEF Init, Updates, NoRequest
  <1>2. submitted = 0 /\ reported = 0
    BY DEF Init
  <1> QED
    BY <1>1, <1>2, FS_EmptySet DEF UpdatesAccounted

LEMMA EnterUpdates == ASSUME Requests, UpdatesAccounted, Enter PROVE UpdatesAccounted'
  <1>1. UNCHANGED <<submitted, reported>>
    BY DEF Enter
  <1>2. /\ Orphaned \in [Slot -> Request]
        /\ \A s \in Slot : Orphaned[s].kind = request[s].kind
    BY OrphanedSound DEF Orphaned, Requests, Request
  <1>3. \/ request' = Orphaned
        \/ \E s \in Slot, kind \in {"list", "load"} : \E body :
              Free(s) /\ request' = [Orphaned EXCEPT ![s] = Sent(kind, body)]
    BY DEF Enter
  <1>4. CASE request' = Orphaned
    BY <1>1, <1>2, <1>4, UpdatesStay
  <1>5. ASSUME NEW s \in Slot, NEW kind \in {"list", "load"}, NEW body, Free(s),
               request' = [Orphaned EXCEPT ![s] = Sent(kind, body)]
        PROVE  UpdatesAccounted'
    <2>1. Sent(kind, body).kind # "update" /\ request[s].kind # "update"
      BY <1>5 DEF Sent, Free
    <2>2. \A t \in Slot : request'[t] = IF t = s THEN Sent(kind, body) ELSE Orphaned[t]
      BY <1>2, <1>5
    <2>3. \A t \in Slot : request'[t].kind = "update" <=> request[t].kind = "update"
      BY <1>2, <2>1, <2>2
    <2> QED
      BY <1>1, <2>3, UpdatesStay
  <1> QED
    BY <1>3, <1>4, <1>5

LEMMA ServeUpdates ==
  ASSUME Requests, UpdatesAccounted, NEW s \in Slot, Serve(s) \/ Fail(s)
  PROVE  UpdatesAccounted'
  <1>1. UNCHANGED <<submitted, reported>> /\ request[s] \in Request
    BY DEF Serve, Fail, Requests
  <1>2. \/ \E at : request' = [request EXCEPT ![s].at = at]
        \/ request' = [request EXCEPT ![s].at = "ok",
                                      ![s].body.content = registered[request[s].body.id]]
    BY DEF Serve, Fail
  <1>3. ASSUME NEW at, request' = [request EXCEPT ![s].at = at] PROVE UpdatesAccounted'
    <2>1. [request[s] EXCEPT !.at = at].kind = request[s].kind
      BY <1>1 DEF Request
    <2> QED
      BY <1>1, <1>3, <2>1, UpdatesUntouched
  <1>4. ASSUME NEW x, request' = [request EXCEPT ![s].at = "ok", ![s].body.content = x]
        PROVE  UpdatesAccounted'
    <2> DEFINE q == [request[s] EXCEPT !.at = "ok", !.body.content = x]
    <2>1. request' = [request EXCEPT ![s] = q]
      BY <1>4
    <2>2. q.kind = request[s].kind
      BY <1>1 DEF Request
    <2> HIDE DEF q
    <2> QED
      BY <1>1, <2>1, <2>2, UpdatesUntouched
  <1> QED
    BY <1>2, <1>3, <1>4

LEMMA UpdatesStep == ASSUME IInv, UpdatesAccounted, [Next]_vars PROVE UpdatesAccounted'
  <1>0. Requests /\ Counters
    BY DEF IInv, FormsInv
  <1>1. ASSUME UNCHANGED <<request, submitted, reported>> PROVE UpdatesAccounted'
    BY <1>1, UpdatesStay
  <1>2. CASE Session \/ Browse \/ Renewal \/ Fill \/ onModalClose \/ UNCHANGED vars
    BY <1>1, <1>2 DEF Session, Browse, Renewal, Fill, onModalClose, vars, formVars
  <1>3. CASE Enter
    BY <1>0, <1>3, EnterUpdates
  <1>4. CASE Reload
    <2>1. Updates' = {}
      BY <1>4 DEF Reload, Updates, NoRequest
    <2>2. Cardinality(Updates') = 0
      BY <2>1, FS_EmptySet
    <2>3. PICK n \in Nat : submitted' = n /\ reported' = n
      BY <1>0, <1>4 DEF Reload, Counters
    <2>4. submitted' = reported' + Cardinality(Updates')
      <3>1. n = n + 0
        OBVIOUS
      <3> QED
        BY <2>2, <2>3, <3>1
    <2> QED
      BY <2>4 DEF UpdatesAccounted
  <1>5. CASE SaveUpdate
    <2>1. \/ /\ reported' = reported
             /\ \E s \in Slot : \E body :
                  Free(s) /\ request' = [request EXCEPT ![s] = Sent("update", body)]
          \/ reported' = reported + 1 /\ request' = request
      BY <1>5 DEF SaveUpdate
    <2>2. submitted' = submitted + 1
      BY <1>5 DEF SaveUpdate
    <2>3. CASE reported' = reported + 1 /\ request' = request
      <3>1. submitted = reported + Cardinality(Updates)
        BY DEF UpdatesAccounted
      <3>2. Updates' = Updates
        BY <2>3 DEF Updates
      <3>3. Cardinality(Updates) \in Nat
        BY UpdatesFinite DEF Updates, UpdatesIn
      <3>4. submitted' = reported' + Cardinality(Updates')
        BY <1>0, <2>2, <2>3, <3>1, <3>2, <3>3 DEF Counters
      <3> QED
        BY <3>4 DEF UpdatesAccounted
    <2> QED
      BY <1>0, <2>1, <2>2, <2>3, UpdateSent
  <1>6. CASE SaveNew
    <2>1. PICK s \in Slot : Free(s) /\ request' = [request EXCEPT ![s] = Sent("add", draft)]
      BY <1>6 DEF SaveNew
    <2>2. Sent("add", draft).kind = "add" /\ request[s].kind = "none"
      BY <2>1 DEF Sent, Free
    <2>3. UNCHANGED <<submitted, reported>>
      BY <1>6 DEF SaveNew
    <2> QED
      BY <1>0, <2>1, <2>2, <2>3, UpdatesUntouched
  <1>7. ASSUME NEW s \in Slot, Serve(s) \/ Fail(s) PROVE UpdatesAccounted'
    BY <1>0, <1>7, ServeUpdates
  <1>8. ASSUME NEW s \in Slot, UpdateSucceeded(s) \/ UpdateFailed(s) PROVE UpdatesAccounted'
    BY <1>0, <1>8, UpdateTold DEF UpdateSucceeded, UpdateFailed
  <1>9. ASSUME NEW s \in Slot, ListAnswered(s) \/ LoadAnswered(s) \/ Added(s) \/ NotAdded(s)
        PROVE  UpdatesAccounted'
    <2>1. /\ request[s].kind \in {"list", "load", "add"} /\ Ends(s)
          /\ UNCHANGED <<submitted, reported>>
      BY <1>9 DEF ListAnswered, LoadAnswered, Added, NotAdded
    <2>2. request' = [request EXCEPT ![s] = NoRequest] /\ NoRequest.kind = "none"
      BY <2>1 DEF Ends, NoRequest
    <2> QED
      BY <1>0, <2>1, <2>2, UpdatesUntouched
  <1>10. CASE \E c \in Client : Elsewhere(c)
    BY <1>1, <1>10 DEF Elsewhere
  <1> QED
    BY <1>2, <1>3, <1>4, <1>5, <1>6, <1>7, <1>8, <1>9, <1>10 DEF Next, Answered

-----------------------------------------------------------------------------
(* The theorems.                                                            *)

LEMMA InitIInv == Init => IInv
  BY InitSession, InitForms DEF Init, IInv

LEMMA NavigatingStep ==
  ASSUME SessionInv, Navigating PROVE SessionInv' /\ page' = page
  <1>1. SessionInv'
    BY CheckAnsweredSession, StaleAnsweredSession, FailedSession, CallbackSession DEF Navigating
  <1>2. page' = page
    BY DEF Navigating, CheckAnswered, StaleAnswered, NavigationFailed, StaleFailed, LoginCallback
  <1> QED
    BY <1>1, <1>2

LEMMA PagesStep == ASSUME IInv, Session \/ Enter \/ Browse \/ Renewal \/ Reload PROVE IInv'
  <1> USE DEF IInv
  <1>1. CASE Session
    BY <1>1, NavigatingStep, StillForms DEF Session
  <1>2. CASE Enter
    BY <1>2, ArrivedSession, EnterForms DEF Enter
  <1>3. CASE Browse
    <2>1. SessionInv'
      BY <1>3, PushSession DEF Browse
    <2> QED
      BY <1>3, <2>1, BrowseForms
  <1>4. CASE Renewal
    <2>1. page' = page
      BY <1>4 DEF Renewal, StorageChanges
    <2> QED
      BY <1>4, <2>1, StorageSession, StillForms DEF Renewal
  <1>5. CASE Reload
    BY <1>5, LoadedSession, ReloadForms DEF Reload
  <1> QED
    BY <1>1, <1>2, <1>3, <1>4, <1>5

LEMMA FieldsStep ==
  ASSUME IInv, Fill \/ SaveUpdate \/ SaveNew \/ onModalClose PROVE IInv'
  <1> USE DEF IInv
  <1>0. "clients" \in Route
    BY DEF Route, Protected
  <1>1. CASE Fill
    BY <1>1, StillSession, FillForms DEF Fill
  <1>2. CASE SaveUpdate
    <2>1. push("clients") \/ UNCHANGED sessionVars
      BY <1>2 DEF SaveUpdate
    <2> QED
      BY <1>0, <1>2, <2>1, StillSession, PushSession, SaveUpdateForms
  <1>3. CASE SaveNew
    BY <1>3, StillSession, SaveNewForms DEF SaveNew
  <1>4. CASE onModalClose
    BY <1>0, <1>4, PushSession, ClosedForms DEF onModalClose
  <1> QED
    BY <1>1, <1>2, <1>3, <1>4

LEMMA RequestStep ==
  ASSUME IInv, NEW s \in Slot, Serve(s) \/ Fail(s) \/ Answered(s) PROVE IInv'
  <1> USE DEF IInv
  <1>0. "clients" \in Route
    BY DEF Route, Protected
  <1>1. CASE Serve(s)
    BY <1>1, StillSession, ServeForms DEF Serve
  <1>2. CASE Fail(s)
    BY <1>2, StillSession, FailForms DEF Fail
  <1>3. CASE ListAnswered(s)
    <2>1. unauthorized \/ UNCHANGED sessionVars
      BY <1>3 DEF ListAnswered
    <2> QED
      BY <1>3, <2>1, StillSession, UnauthorizedSession, ListAnsweredForms
  <1>4. CASE LoadAnswered(s)
    <2>1. unauthorized \/ UNCHANGED sessionVars
      BY <1>4 DEF LoadAnswered
    <2> QED
      BY <1>4, <2>1, StillSession, UnauthorizedSession, LoadAnsweredForms
  <1>5. CASE UpdateSucceeded(s)
    <2>1. push("clients")
      BY <1>5 DEF UpdateSucceeded
    <2> QED
      BY <1>0, <1>5, <2>1, PushSession, UpdateAnsweredForms
  <1>6. CASE UpdateFailed(s)
    <2>1. UNCHANGED sessionVars
      BY <1>6 DEF UpdateFailed
    <2> QED
      BY <1>6, <2>1, StillSession, UpdateAnsweredForms
  <1>7. CASE Added(s)
    BY <1>7, StillSession, AddedForms DEF Added
  <1>8. CASE NotAdded(s)
    BY <1>8, StillSession, NotAddedForms DEF NotAdded
  <1> QED
    BY <1>1, <1>2, <1>3, <1>4, <1>5, <1>6, <1>7, <1>8 DEF Answered

LEMMA NextIInv == ASSUME IInv, [Next]_vars PROVE IInv'
  <1>1. CASE UNCHANGED vars
    <2>1. UNCHANGED sessionVars /\ UNCHANGED formVars /\ page' = page
      BY <1>1 DEF vars, sessionVars
    <2> QED
      BY <2>1, StillSession, StillForms DEF IInv
  <1>2. CASE \E c \in Client : Elsewhere(c)
    <2>1. UNCHANGED sessionVars
      BY <1>2 DEF Elsewhere
    <2> QED
      BY <1>2, <2>1, StillSession, ElsewhereForms DEF IInv
  <1> QED
    BY <1>1, <1>2, PagesStep, FieldsStep, RequestStep DEF Next

LEMMA Invariance == Spec => []IInv
  BY InitIInv, NextIInv, PTL DEF Spec

\* Every reachable state of the tab has the declared shape: a secret dialog
\* only on the page for new clients, requests with what they were sent with.
THEOREM TypeCorrect == Spec => []TypeOK
  BY Invariance, Strong, PTL

\* The dialog shows a secret beside the id of the client it belongs to
\* (ClientNewView.vue:43-57).
THEOREM SecretsMatch == Spec => []SecretMatchesClient
  BY Invariance, Strong, PTL

\* A protected page is entered only by a user the store holds, and only after
\* the host answered a check of this tab other than by 401 or 403
\* (router/index.js:45-64, stores/auth.js:42-54).
THEOREM ProtectedPages == Spec => EntersSignedIn
  <1>1. ASSUME IInv, [Next]_vars, page' # page, page' \in Protected
        PROVE  user' /\ accepted
    <2>1. CASE Enter
      <3>1. user' = TRUE /\ accepted = TRUE
        BY <1>1, <2>1, ArrivedSession DEF IInv, Enter
      <3> QED
        BY <3>1
    <2>2. CASE Reload
      BY <1>1, <2>2 DEF Reload, Loaded, Protected
    <2>3. CASE Session \/ Browse \/ Renewal
      BY <1>1, <2>3, NavigatingStep DEF IInv, Session, Browse, push, Renewal, StorageChanges
    <2>4. CASE Fill \/ SaveUpdate \/ SaveNew \/ onModalClose
      BY <1>1, <2>4 DEF Fill, SaveUpdate, SaveNew, onModalClose, push, sessionVars
    <2>5. ASSUME NEW s \in Slot, Serve(s) \/ Fail(s) \/ Answered(s)
          PROVE  page' = page
      BY <2>5 DEF Serve, Fail, Answered, ListAnswered, LoadAnswered, UpdateSucceeded,
                  UpdateFailed, Added, NotAdded, push, unauthorized, sessionVars
    <2>6. CASE \E c \in Client : Elsewhere(c)
      BY <1>1, <2>6 DEF Elsewhere, sessionVars
    <2>7. CASE UNCHANGED vars
      BY <1>1, <2>7 DEF vars, sessionVars
    <2> QED
      BY <1>1, <2>1, <2>2, <2>3, <2>4, <2>5, <2>6, <2>7 DEF Next
  <1>2. IInv /\ [Next]_vars
          => [page' # page /\ page' \in Protected => user' /\ accepted]_<<page, user, accepted>>
    BY <1>1
  <1> QED
    BY <1>2, Invariance, PTL DEF Spec, EntersSignedIn

\* Every report that an update was saved ends an update the host has answered so,
\* unless its form was submitted without a token and nothing was sent: never one
\* that failed, was refused or is still on its way, wherever the user has gone
\* (apiClient.js:41-45, ClientEditView.vue:27-42).
THEOREM SavedWasAnsweredOrUnsent == Spec => SavedMeansAnsweredOrUnsent
  <1> DEFINE Answer == \E s \in Updates : request[s].at = "ok" /\ Updates' = Updates \ {s}
             Unsent == ~user /\ submitted' > submitted /\ Updates' = Updates
  <1>1. ASSUME IInv, [Next]_vars, reported' > reported, message' = "success"
        PROVE  Answer \/ Unsent
    <2>0. /\ request \in [Slot -> Request]
          /\ submitted \in Nat /\ reported \in Nat
      BY <1>1 DEF IInv, FormsInv, Requests, Counters
    <2>1. CASE Enter \/ Session \/ Browse \/ Renewal
      BY <1>1, <2>0, <2>1 DEF Enter, Session, Browse, Renewal, formVars
    <2>2. CASE Reload
      BY <1>1, <2>2 DEF Reload
    <2>3. CASE Fill \/ SaveNew \/ onModalClose
      BY <1>1, <2>0, <2>3 DEF Fill, SaveNew, onModalClose
    <2>4. CASE SaveUpdate
      <3>1. ~user /\ submitted' = submitted + 1 /\ UNCHANGED request
        BY <1>1, <2>0, <2>4 DEF SaveUpdate
      <3> QED
        BY <2>0, <3>1 DEF Updates
    <2>5. ASSUME NEW s \in Slot, Serve(s) \/ Fail(s) \/ Answered(s)
          PROVE  Answer
      <3>1. UpdateSucceeded(s)
        <4>0. reported' # reported
          BY <1>1, <2>0
        <4>1. ~ (Serve(s) \/ Fail(s) \/ ListAnswered(s) \/ LoadAnswered(s))
          BY <4>0, Zenon DEF Serve, Fail, ListAnswered, LoadAnswered
        <4>2. ~ (UpdateFailed(s) \/ Added(s) \/ NotAdded(s))
          BY <1>1, <2>0 DEF UpdateFailed, Added, NotAdded
        <4> QED
          BY <2>5, <4>1, <4>2 DEF Answered
      <3>2. s \in Updates /\ request[s].at = "ok"
        BY <3>1 DEF UpdateSucceeded, Updates
      <3>3. request' = [request EXCEPT ![s] = NoRequest] /\ NoRequest.kind = "none"
        BY <3>1 DEF UpdateSucceeded, Ends, NoRequest
      <3>4. Updates' = Updates \ {s}
        BY <2>0, <3>3 DEF Updates
      <3> QED
        BY <3>2, <3>4
    <2>6. CASE \E c \in Client : Elsewhere(c)
      BY <1>1, <2>0, <2>6 DEF Elsewhere
    <2>7. CASE UNCHANGED vars
      BY <1>1, <2>0, <2>7 DEF vars, formVars
    <2> QED
      BY <1>1, <2>1, <2>2, <2>3, <2>4, <2>5, <2>6, <2>7 DEF Next
  <1>2. IInv /\ [Next]_vars
          => [reported' > reported /\ message' = "success" => Answer \/ Unsent]_vars
    BY <1>1
  <1> QED
    BY <1>2, Invariance, PTL DEF Spec, SavedMeansAnsweredOrUnsent

\* Every update submitted is in flight or was reported, once: an expired token, a
\* failure, a page left meanwhile or answers out of order lose none
\* (ClientEditView.vue:27-42).
THEOREM NoUpdateLost == Spec => []UpdatesAccounted
  <1>1. Init => UpdatesAccounted
    BY InitUpdates
  <1>2. UpdatesAccounted /\ IInv /\ [Next]_vars => UpdatesAccounted'
    BY UpdatesStep
  <1> QED
    BY <1>1, <1>2, Invariance, PTL DEF Spec

\* The store is read again before the guard runs on a redirection. Whatever that
\* finds, a redirection leads on to another only if it came to say otherwise who
\* may proceed (router/index.js:51-63): a session that stands still is redirected
\* once at most, and no navigation goes in circles by itself. This is also why
\* Navigate takes a redirection and the guard's second run for one step.
THEOREM RedirectionsEnd ==
  ASSUME NEW to \in Route,
         NEW l \in BOOLEAN, NEW a \in BOOLEAN, guard(to, l, a) # "proceed",
         NEW m \in BOOLEAN, NEW b \in BOOLEAN, guard(guard(to, l, a), m, b) # "proceed"
  PROVE  /\ guard(to, l, a) \in Route
         /\ (l /\ a) # (m /\ b)
  BY DEF guard, Protected, publicRoutes, Route
=============================================================================
