---------------------------- MODULE ManagerSession ----------------------------
(***************************************************************************)
(* The session of the manager app in one tab: the auth store (stores/auth.js), *)
(* the user oidc-client keeps in the browser's storage, and the router with   *)
(* its guard (router/index.js). A navigation may wait for the host's answer   *)
(* to check-authorization and for the page's code. A newer navigation, also   *)
(* one to the page shown, supersedes it; the guard of the older one still     *)
(* changes the store when its answer comes.                                  *)
(*                                                                         *)
(* ClientForms.tla composes this module with the pages.                      *)
(***************************************************************************)
EXTENDS Naturals

VARIABLES
    user,          \* does the auth store hold a user?
    isAuthorized,  \* the store's flag
    stored,        \* is there a user in storage who has not expired?
    page,          \* the route shown; "start" before the first
    nav,           \* the navigation under way
    stale,         \* check-authorization requests of superseded navigations
    exchanging,    \* the callback page's exchange of the code is under way
    accepted       \* history: was a check answered other than by 401 or 403?

sessionVars == <<user, isAuthorized, stored, page, nav, stale, exchanging, accepted>>

Protected == {"clients", "new-client", "edit-client"}
publicRoutes == {"AuthCallback", "Login", "Unauthorized"}
Route == Protected \cup publicRoutes \cup {"missing"}

AtRest == [to |-> "missing", at |-> "rest"]

SessionTypeOK ==
    /\ user \in BOOLEAN /\ isAuthorized \in BOOLEAN /\ stored \in BOOLEAN
    /\ page \in Route \cup {"start"}
    /\ nav \in [to : Route, at : {"rest", "check", "import"}]
    /\ stale \in Nat
    /\ exchanging \in BOOLEAN /\ accepted \in BOOLEAN

guard_BackAndForth(to, loggedIn, authorized) ==   \* mutant: no page is public
    IF loggedIn /\ authorized THEN IF to = "Login" THEN "clients" ELSE "proceed"
    ELSE IF loggedIn THEN IF to = "Unauthorized" THEN "Login" ELSE "Unauthorized"
    ELSE IF to = "Login" THEN "proceed" ELSE "Login"

\* What the guard decides of a navigation: to let it proceed, or where else.
guard(to, loggedIn, authorized) ==
    LET canProceed == loggedIn /\ authorized
    IN IF canProceed /\ to = "Login" THEN "clients"
       ELSE IF ~canProceed /\ to \notin publicRoutes
            THEN IF loggedIn THEN "Unauthorized" ELSE "Login"
            ELSE "proceed"

\* A check still unanswered when its navigation is superseded.
Abandoned == IF nav.at = "check" THEN stale + 1 ELSE stale

\* A navigation, or a redirection, from a store with this user and this flag.
\* The guard loads the user from storage if there is none, and asks the host
\* only if there is a token and the flag is not set. Without a user, or with
\* the flag set, it decides at once; a redirection then proceeds.
Navigate(to, loggedIn, authorized) ==
    LET loaded == loggedIn \/ stored
        decided == guard(to, loaded, authorized)
        there == IF decided = "proceed" THEN to ELSE decided
        Shown(route) == route = page /\ route # "edit-client"
    IN IF Shown(to) THEN user' = loggedIn /\ nav' = AtRest
       ELSE /\ user' = loaded
            /\ nav' = IF loaded /\ ~authorized THEN [to |-> to, at |-> "check"]
                      ELSE IF Shown(there) THEN AtRest ELSE [to |-> there, at |-> "import"]

\* router.push, by a button, the browser or a page.
push(to) ==
    /\ Navigate(to, user, isAuthorized)
    /\ stale' = Abandoned
    /\ UNCHANGED <<isAuthorized, stored, page, exchanging, accepted>>

\* A refused token was used: the user is forgotten, to be loaded again by the
\* guard of the navigation that follows.
unauthorized ==
    /\ isAuthorized' = FALSE
    /\ Navigate("Unauthorized", FALSE, FALSE)
    /\ stale' = Abandoned
    /\ UNCHANGED <<stored, page, exchanging, accepted>>

-----------------------------------------------------------------------------

\* The app is loaded at one of its addresses: the guard of the first
\* navigation meets an empty store, and App.vue loads the user once more.
FirstNavigation(to, inStorage) ==
    IF inStorage THEN [to |-> to, at |-> "check"]
    ELSE [to |-> IF to \in publicRoutes THEN to ELSE "Login", at |-> "import"]

SessionInit ==
    /\ stored \in BOOLEAN
    /\ user = stored /\ isAuthorized = FALSE
    /\ page = "start"
    /\ \E to \in Route : nav = FirstNavigation(to, stored)
    /\ stale = 0
    /\ exchanging = FALSE /\ accepted = FALSE

\* The tab is reloaded, or comes back from the host's login or logout page.
Loaded ==
    /\ stored' \in BOOLEAN
    /\ user' = stored' /\ isAuthorized' = FALSE
    /\ page' = "start"
    /\ \E to \in Route : nav' = FirstNavigation(to, stored')
    /\ stale' = 0
    /\ exchanging' = FALSE /\ accepted' = FALSE

CheckAnswered_StatusUnread(ok) ==   \* mutant: every answer authorizes
    /\ nav.at = "check"
    /\ isAuthorized' = TRUE
    /\ accepted' = (accepted \/ ok)
    /\ LET decided == guard(nav.to, user, TRUE)
       IN IF decided = "proceed"
          THEN nav' = [nav EXCEPT !.at = "import"] /\ UNCHANGED user
          ELSE Navigate(decided, user, TRUE)
    /\ UNCHANGED <<stored, page, stale, exchanging>>

\* checkAuthorization of the navigation under way is answered; any status but
\* 401 and 403 authorizes. A redirection runs the guard again.
CheckAnswered(ok) ==
    /\ nav.at = "check"
    /\ isAuthorized' = ok
    /\ accepted' = (accepted \/ ok)
    /\ LET decided == guard(nav.to, user, ok)
       IN IF decided = "proceed"
          THEN nav' = [nav EXCEPT !.at = "import"] /\ UNCHANGED user
          ELSE Navigate(decided, user, ok)
    /\ UNCHANGED <<stored, page, stale, exchanging>>

StaleAnswered(ok) ==
    /\ stale > 0
    /\ stale' = stale - 1
    /\ isAuthorized' = ok
    /\ accepted' = (accepted \/ ok)
    /\ UNCHANGED <<user, stored, page, nav, exchanging>>

\* The network fails a check, or a page's code (the list's is loaded with the
\* app): the navigation ends where it began.
NavigationFailed ==
    /\ nav.at = "check" \/ (nav.at = "import" /\ nav.to \notin {"clients", "missing"})
    /\ nav' = AtRest
    /\ UNCHANGED <<user, isAuthorized, stored, page, stale, exchanging, accepted>>

StaleFailed ==
    /\ stale > 0
    /\ stale' = stale - 1
    /\ UNCHANGED <<user, isAuthorized, stored, page, nav, exchanging, accepted>>

\* The page's code is there. The callback page starts its exchange.
Arrived ==
    /\ nav.at = "import"
    /\ page' = nav.to
    /\ nav' = AtRest
    /\ exchanging' = (exchanging \/ nav.to = "AuthCallback")
    /\ UNCHANGED <<user, isAuthorized, stored, stale, accepted>>

\* handleLoginCallback after the exchange: the user is stored and held, and "/"
\* leads to the list; a failure leads to a route there is not.
LoginCallback ==
    /\ exchanging
    /\ exchanging' = FALSE
    /\ \/ stored' = TRUE /\ Navigate("clients", TRUE, isAuthorized)
       \/ UNCHANGED stored /\ Navigate("missing", user, isAuthorized)
    /\ stale' = Abandoned
    /\ UNCHANGED <<isAuthorized, page, accepted>>

\* The stored user is renewed (automaticSilentRenew) or expires. The storage is
\* the tab's own.
StorageChanges ==
    /\ stored' = ~stored
    /\ UNCHANGED <<user, isAuthorized, page, nav, stale, exchanging, accepted>>

\* A protected page is entered only by a user the store holds, and only after
\* the host answered a check of this tab other than by 401 or 403, whatever
\* superseded navigations and late answers did to the store
\* (router/index.js:45-64, stores/auth.js:42-54).
EntersSignedIn ==
    [][page' # page /\ page' \in Protected => user' /\ accepted]_<<page, user, accepted>>

\* Every navigation comes to an end: no redirection leads back to itself for
\* ever (router/index.js:51-63).
NavigationsSettle == nav.at # "rest" ~> nav.at = "rest"
=============================================================================
