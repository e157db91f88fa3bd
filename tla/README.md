# A verification development for ApogeeDev Identity Provider

TLA+ models of the identity provider in this repository, TLC configurations
that check them on small instances, and TLAPS proofs of what matters most for
every value of the constants. Paths below are relative to the repository;
`Host/` stands for `src/ApogeeDev.IdentityProvider.Host/` and `SPA/` for
`src/idp-manager-app/src/`.

## 1. Inventory

### Components, their state and their operations

| Component | State it keeps | Operations |
|---|---|---|
| **Client registry: admin API** (`Host/Operations/RequestHandlers/AppClient*RequestHandler.cs`, `OperationContext.cs`) | documents of the `applications` collection; per request the options snapshot of its scope | add, update, delete (and lists, which change nothing) |
| **Client registry: static clients** (`Host/Initializers/ApplicationClientInitializer.cs`) | the same documents; the `OnChange` subscription | a pass at start-up, a pass per configuration change: list, delete what is configured or doubled, create what is configured |
| **Client registry: indexes** (`Host/Initializers/MongoDbPerformanceInitializer.cs`) | the unique index on `client_id`; `AppDbSettings.PerformanceIndexCreated` | check the flag, build, set the flag |
| **External login and user store** (`Host/Operations/Processors/*`, `ExtrnalLoginRequestHandlerBase.cs`, `CallbackController.cs`) | `app_users`, `app_user_claims`; the login in flight | the callback of an external login: find, save, list, rewrite the claims; userinfo reads |
| **Authorization endpoint and session** (`Host/Controllers/OAuthController.cs`, login view) | the session cookie, the challenge flag in TempData | authorize (prompt, max_age), the login round trip, logout |
| **Token endpoint and token contents** (`OAuthController.Exchange`, `Exchange*Handler.cs`, `Host/Helpers/Authentication/*`) | codes and tokens with their scopes, audiences and claims; the server's options object | authorization code, refresh token and client credentials grants; per-client encryption; audiences |
| **Manager single-page app** (`SPA/stores`, `SPA/router`, `SPA/services`, `SPA/components`) | the client list, the delete dialog, notifications, the signed-in user | fetch, add, update, delete, confirm or close the dialog, notify and expire |
| **Certificates, keys, envelopes** (`src/SelfSignedCert`, `Host/Helpers/CryptoHelper.cs`, `AuthServerExtension.cs`) | files | generate, load, encrypt, decrypt |
| **Hosting** (`Startup.cs`, health checks, telemetry, views, vendored Bootstrap) | none of its own | service registration, rendering |

### How they interact

Everything on the server meets in MongoDB. The admin handlers, the static-client
passes and the index initializer write the same collection and know nothing of
each other; no call of theirs is in a transaction (`ApplicationDbContext` turns
the automatic ones off) and the passes do not wait for one another
(`OnChange` runs an async callback and drops its task). Tokens refer to the
object id of their client's document, so deleting a document, which every
static-client pass does, takes its tokens along. A login writes the user store
before it sets the cookie; the userinfo endpoint and the refresh grant read the
store later. The manager app holds a copy of the client list that it changes by
itself after each answer of the admin API.

### What is hard, and what makes each component correct

* *Registry.* Handlers check first and write later, across awaits; the options
  they check against are a snapshot; the passes of two configuration changes
  overlap; any call may fail and any restart may come between two writes. It is
  correct when client ids stay unique, static clients end up registered as
  configured and stay so, administrators cannot touch them, and a deleted
  client stays deleted.
* *User store.* A login rewrites a user's claims document by document. It is
  correct when the store always recovers at the next login, whatever an
  overlapping login, a failed call or a crash left behind, and when one
  person's login never shows in what another's userinfo answers.
* *Authorization endpoint.* A flag in TempData and the age of the cookie decide
  whether a login is asked for, over several requests of several tabs.
* *Token endpoint.* Scopes may only shrink along code, token and refresh; a
  refresh is for a user there is, and the one switch for the encryption of all
  access tokens must serve each client that asks for it.
* *Manager app.* Every `await` lets the user move on: answers come late, in
  another order, fail, or find their page gone; a dialog is in transition; a
  navigation is superseded by another. It is correct when a deletion is
  requested only for what the user confirmed, when what is reported is what the
  host answered, when no request ends in silence, and when pages are entered
  only by users the host accepts.

Every hazard is listed in `PROJECT.json` at the line where it bites.

## 2. The modules

| Module | What it is |
|---|---|
| `ClientRegistry` | the registry with all its writers |
| `MCClientRegistry` + five `.cfg` | its instances for TLC |
| `Catalogue` | abstract: what the registry promises of its documents, whoever writes |
| `ClientRegistryProofs` | types, unique index, deletion, what admin requests may touch; `ClientRegistry` implements `Catalogue` |
| `StaticClientProofs` | static clients are served |
| `UserClaims` | the user store and the login callback |
| `MCUserClaims` + `.cfg` | its instance for TLC |
| `UserDirectory` | abstract: what is promised to the readers of userinfo |
| `UserClaimsProofs` | types, users are kept apart |
| `LastLoginProofs` | userinfo answers the last login; `UserClaims` implements `UserDirectory` |
| `AuthorizeSession` | the authorization endpoint, one browser with several tabs |
| `MCAuthorizeSession` + three `.cfg` | its instances for TLC |
| `AuthorizeSessionProofs` | types, the challenge flag excuses once |
| `TokenIssuance` | the token endpoint, and the sign-in's work on tokens |
| `Grants` | abstract: what is promised of scopes along a chain of grants |
| `MCTokenIssuance` + `.cfg` | its instance for TLC |
| `TokenIssuanceProofs` | types, encryption switch, refreshes, `TokenIssuance` implements `Grants` |
| `DeleteDialog` | the delete dialog: its store, its component, Bootstrap's transitions |
| `ClientList` | the list page of the manager app; extends `DeleteDialog` |
| `Confirmation` | abstract: what a delete dialog promises |
| `MCClientList` + `.cfg` | its instance for TLC |
| `ClientListProofs` | types, deletions and their messages, the summary agrees with the filter; `ClientList` implements `Confirmation` |
| `ManagerSession` | the manager app's session in one tab: auth store, storage, router, guard |
| `ClientForms` | the new and the edit page; extends `ManagerSession` |
| `MCClientForms` + `.cfg` | its instance for TLC |
| `ClientFormsProofs` | types, secrets, protected pages, reports of updates, redirections |

### ClientRegistry and Catalogue

`apps` holds the documents (`oid` is the object id, `id` the client id),
`tokens` the object ids that tokens refer to, `indexed` and `indexFlag` the
unique index and the settings flag, `config` the ids of the static clients in
the configuration file. `req` has one record per admin request in flight, with
`statics`, the options its scope read when it began; `pass` one record per
initializer pass. One action is what the code does between two awaits:

| Code | Actions |
|---|---|
| `AppClientAddRequestHandler.Handle` | `BeginAdd` (static check), `AddFind` (duplicate id or name), `AddValidate`, `AddInsert` (the two halves of the manager's `CreateAsync`) |
| `AppClientUpdateRequestHandler.Handle` | `BeginUpdate` (refused when the id of the URL is not that of the body, `Refuses`), `Update` (one `UpdateOne`, past the manager) |
| `AppClientDeleteRequestHandler.Handle` | `BeginDelete`, `DeleteLocate`, `DeleteRemove`, `DeletePurge` (the manager's `DeleteAsync`) |
| `ApplicationClientInitializer` | `PassList`, `PassRemove`, `PassPurge`, `PassValidate`, `PassInsert`, `Subscribe`; `Reload` and `ReloadUnwatched` are a saved configuration file before and after the subscription |
| `MongoDbPerformanceInitializer` | `IndexCheck`, `IndexBuild`, `IndexSetFlag` |
| a database call throws, the process ends | `RequestFails`, `PassFails`, `IndexFails`, `Restart` |
| the token endpoint | `IssueToken` (external) |

Redirect URIs, permissions and requirements are data no property tells apart.
A form's flow and type are kept because the secret depends on them. What
MongoDB and OpenIddict do is modelled from how the handlers use them and marked
external in the map.

`Catalogue` is the registry without its writers: documents with an id and a
client id, the tokens stored for them, the unique index. It knows five steps
(`Register`, `Remove`, `Issue`, `Purge`, `BuildIndex`) and no requests, passes,
names or configurations. `ImplementsCatalogue` maps `documents` to the ids of
`apps`, `issued` to the object ids below `nextOid`, `unique` to `indexed`. What
it adds to the invariants is about steps: an update, by whichever handler and
from whatever snapshot, leaves a document's client id alone; tokens go only when
their document is gone already, by a document at a time; an id given once is not
given again.

### UserClaims and UserDirectory

`users` and `claims` are the documents; `login` has one record per login in
flight: the principal the provider returned, the user document it works on, the
profile as it was read (the base of Entity Framework's change tracking), the
claim documents still to delete and the claims still to insert. The actions
follow `ClaimsProcessorBase.PersistClaims`: `Begin`, `Find`, `SaveNew` or
`SaveFound` (first `SaveChanges`), `List` (the read behind `RemoveRange`),
`DeleteOne` and `InsertOne` in any order (second `SaveChanges`: a batch of
single-document writes), `Complete`; `LoginFails` at any step, and `Restart`.
`Userinfo` is the endpoint's answer as a function of the store. Names, emails
and scopes are values; which claim types go to the user document (`IdType`) is
a constant.

Two details of the code carry the properties, and the model keeps them.
`principal.Claims.Except(idClaims)` compares claims by type only, so it also
drops a second claim of one type; and userinfo builds a dictionary by type,
which throws when a type is stored twice.

`UserDirectory` is the store as the readers of userinfo see it: one answer per
user. While a login of a user is under way that user's answer may be anything
but "unknown" (the store is written document by document); nobody else's
changes. A login that no other of its user overlapped settles the answer: it is
what this login said, and stays so until the user's next login begins.
`ImplementsDirectory` maps `answer` to `Userinfo` of each user, `settled` to the
history variable of the same name, and `active` to the users of the logins in
flight; documents, claims, object ids and the order of writes are hidden.

### AuthorizeSession

The host keeps no state of a login under way; the browser does. `session` and
`temp` are its session and TempData cookies, `tab` the authorization request in
each tab, with the copies of the cookies it was sent with: a response is
computed from those copies and changes the browser's cookies, whatever other
responses changed meanwhile.

| Code | Actions |
|---|---|
| a client redirects the browser to `/connect/authorize` | `Begin` (any prompt and max_age) |
| `OAuthController.OAuthAuthorize` | `ShowLogin`, `LoginRequired`, `IssueCode`, by the condition of lines 33-39 (`Challenged`); `AuthorizeFails` |
| `AuthorizeWithGithub`, `AuthorizeWithGoogle` | `Choose`, refused when the antiforgery token of the form is bound to another user |
| `CallbackController` | `Callback` (session cookie, redirect), `CallbackFails`; `Return` is the redirect, to the same URL |
| `Logout`, the cookie's end | `Logout` |
| the clock | `TimePasses`: max_age goes by |

`ReadsTempData` matters: TempData drops an entry only when it is read, and the
`&&` of line 39 reads it only for an over-age session. `CookieMayBeRenewed` is
sliding expiration, which gives an old sign-in a new date. Of time, only what
max_age compares is kept (`fresh`, `renewed`, `old`). `excused` and `signedIn`
are history variables for the properties.

### TokenIssuance and Grants

A *chain* is what follows from one authorization, or one request with client
credentials. `grants` are the codes and refresh tokens, `access` the access
tokens, `request` the token requests under way, `disabled` the option
`DisableAccessTokenEncryption` of the process.

| Code | Actions |
|---|---|
| `OAuthAuthorize`, signed in | `Authorize`: a code with the scopes requested; the user is stored again if need be |
| `OAuthController.Exchange` | `Exchange` for a code or a refresh token, `ExchangeClientCredentials`; scopes by `downscoped` |
| `ExchangeRefreshTokenRequestHandler` | `UserFound`, `UserGone` |
| `ConfigureAccessTokenEncryption` | `Configure` (reads the client, throws the switch) |
| OpenIddict's sign-in | `Issue` (external) |
| the manager, the database, the process | `ClientChanges`, `UserDeleted`, `Restart` |

OpenIddict validates and redeems grants; here a grant stays usable and a
request may ask for any scopes, which is more than it can do. `Grants` knows
only what was issued: a chain begins with any scopes, and everything later is
derived from something issued in it, with no scope more. It hides users,
clients, requests and forms; `ImplementsGrants` maps `issued` to the chains and
scopes of codes, refresh tokens and access tokens together.

### DeleteDialog, ClientList and Confirmation

`ClientList` is the list page from one `await` to the next. `list` is the
store's list (or `Undefined`, after an answer without a body), `setUp` the
client each row was set up with, which `useDeleteClient` keeps; `fetch` and `op`
are the fetches and the deletions in flight; `registered` is the host.

| Code | Actions |
|---|---|
| `stores/clients.js`, getters | `filteredClients`, `stats`; with the component, `Summary` |
| `fetchClients`, `apiClient.get` | `EnterList` (sent on mounting), `ServeFetch`, `RefuseFetch`, `FetchAnswered`, `FetchRefused`, `FetchFailed` |
| `useDeleteClient`, `deleteClient` | `AskDelete`, `ConfirmDelete`, `ServeDelete`, `RefuseDelete`, `LoseDelete`, `DeleteAnswered`, `DeleteFailed` |
| the dialog | `Type`, `handleCancel`, `Dismiss` (the cross), `handleConfirm`, `TransitionEnd` (in `Answered` and `ConfirmDelete`) |
| `stores/notifications.js`, toasts | `notify`, `remove`; `Tick` is the clock that gives ids |
| filter, window, pages, tab | `ChooseView`, `Resize`, `LeaveList`, `Reload` |

Three things are easily lost and are kept. The watcher of `isOpen` fires only
when the flag *changes* (`Watched`); Bootstrap ignores `show()` and `hide()`
during a fade; and the store outlives the component. `Confirmation` has none of
this: one question is open at a time, its deletion is requested once, by the
name asked for. The mapping takes a question as open while the dialog can be
seen (`Visible`) and a promise waits (`resolver`).

### ManagerSession and ClientForms

`ManagerSession` is the session in one tab: `user` and `isAuthorized` of the
store, `stored` of the browser's storage, and `nav`, the navigation under way,
which waits for the host's check or for the page's code. A newer navigation
supersedes it; the check of the older one stays in flight (`stale`) and still
sets `isAuthorized`. `guard` is the decision of `beforeEach`, `Navigate` the way
from a push to its first wait, redirections included.

`ClientForms` adds the pages: requests in flight with the body they were sent
with and whether their page is still there (`sender`), the draft both pages
share (`emptyClient` is a cached getter), the client loaded, the secret dialog.
The actions are the awaits of `ClientNewView` (`SaveNew`, `Added`, `NotAdded`,
`onModalClose`) and `ClientEditView` (`LoadAnswered`, `SaveUpdate`,
`UpdateSucceeded`, `UpdateFailed`), `Fill` for every input, `Enter` for a page
that is shown, `ListAnswered` for the list page's fetch, and `Serve` and `Fail`
for the host and the network. Fields other than the id are one value,
`content`; whether it is confidential is what decides on the dialog.

## 3. What the runs check

| Run | Instance | Shows |
|---|---|---|
| `registry` | 2 clients, 2 names, 2 requests, 2 passes, 3 events | `TypeOK`, `IndexHonest`, `StaticClientsServed`, `DeletedStaysDeleted`, `StaticClientsProtected`, `ImplementsCatalogue` hold in every interleaving |
| `registry_live` | 1 request, 2 passes, 2 events, fair | the configuration is watched in the end; after the last change every static client is served (`WatchesConfiguration`, `StaticClientsSettle`) |
| `registry_reload` | fair, reliable database | violation of `ConfigurationTakesEffect` |
| `registry_undeletable` | as `registry`, 1 request | violation of `StaticClientsUndeletable` |
| `registry_machine_client` | a credentials form with its type unset | violation of `MachineClientsRegister` |
| `user_claims` | 1 subject at 2 providers, 3 principals, 2 logins, 4 events | `TypeOK`, `AnswersLastLogin`, `UsersApart`, `ImplementsDirectory` hold |
| `authorize` | 2 tabs, 2 users, 3 events, fair | `TypeOK`, `ExcusedOnce`, `RequestsSettle` hold |
| `authorize_max_age` | 2 tabs, 1 user, 3 events | violation of `MaxAgeKept` |
| `authorize_prompt_login` | 2 tabs, 1 user, 3 events, fair | violation of `EveryRequestSettles` |
| `tokens` | 2 chains, 2 clients, 1 user, 2 scopes, 2 requests, 4 grants and tokens, 1 event | `TypeOK`, `SkipHonoured`, `RefreshNeedsUser`, `ImplementsGrants` hold |
| `manager_list` | 1 configured and 1 other client, 2 names, 2 fetches, 2 deletions, 4 events, fair | `TypeOK`, `SummaryMatchesFilters`, `ImplementsConfirmation`, `RowsLeaveOnSuccess`, `DeletionsAccounted`, `DeletionsReported`, `NotificationsEnd` hold |
| `manager_forms` | 2 clients, 2 contents (one confidential), 2 requests, 3 inputs, 1 event, fair | `TypeOK`, `SecretMatchesClient`, `EntersSignedIn`, `SavedMeansAnsweredOrUnsent`, `UpdatesAccounted`, `UpdatesAreReported`, `NavigationsSettle` hold |

*Bounds.* `MaxEvents` bounds requests, saves, failures and restarts (in the
user store: logins, failures and restarts) together; nothing else is cut off.
Each registry property relates at most two writers and one disturbance: two
requests or two passes at a time with three events are enough for a request
that began before a reload, a pass that overlaps another, a restart with
documents left over, and a failure in each. In the user store, two overlapping
first logins, a third that heals them and one crash are four events. One
subject at two providers and one user of each are what `UsersApart` tells
apart; a principal that says a type twice is what `AnswersLastLogin` needs.
At the authorization endpoint events are new requests, sign-outs and failures;
the passing of time and the steps of a login are not bounded. Two tabs race for
one pair of cookies, and a third request is what a flag left over can excuse.

At the token endpoint four codes and tokens are a code, its refresh token, what
that one gives, and one more of another chain; two requests interleave their
looks at the client with each other's, and one event changes a client, deletes a
user or restarts the process in between. On the list page events are questions
asked, pages entered, filters chosen, windows resized, ticks, reloads and changes
made elsewhere; every answer, click in the dialog and transition is free. Four of
them are two overlapping deletions with a page left and entered again. On the
forms inputs (fillings and submissions) and other events (browsing, reloads,
changes elsewhere) are counted apart; two requests and three inputs are a new
form filled, submitted and edited while its answer is on its way, or a loaded
one submitted, edited and submitted again; one content is confidential and one
is not, so that an add gives a secret or none; the session's own steps are not
counted.

*Symmetry.* Requests, and login slots, are interchangeable; the symmetry sets
are used in the safety runs only, never with a liveness property. In `tokens`
chains, clients and requests are interchangeable, in the refinement mapping too.

*Deadlock* is off in every run: an idle host with its events used up has
nothing to do.

*Fairness.* `Fairness` asks weak fairness of each request's, each pass's and
the index initializer's steps, and of the subscription: they are continuations
on the thread pool, each of which runs in the end when it is ready. At the
authorization endpoint the host answers and the browser follows redirects; that
the user and the provider carry a login through (`Choose`, `Callback`) is an
assumption about them, and `Abandon` may still end it. New
requests, saved configurations, failures and restarts need never happen. In the
manager app a request is answered or fails in the end, what
follows the `await` runs, the delay of a toast that is shown passes, and a
navigation under way gets its answer or its code or fails. Nothing is assumed of
the user. `NotificationsEnd` speaks of pages that show messages: the login page
has no container for them, and what is pushed there waits for the next page.

### Disagreements found

1. `ConfigurationTakesEffect`: `ExecuteAsync` reads the options, runs the
   start-up pass and only then registers `OnChange`. A configuration saved in
   between is not applied until the next save or restart.
2. `StaticClientsUndeletable`: the handlers look at the options snapshot of
   their own scope, so a delete request under way when a client becomes static
   removes it. What does hold, and is proved, is `StaticClientsProtected`: a
   request never touches a client that was static when the request began.
3. `MachineClientsRegister`: the secret is generated from the submitted client
   type before the client-credentials flow forces the type to confidential; a
   form with the type left unset is rejected by OpenIddict.
4. `MaxAgeKept`: the flag is set when the login view is shown, not when the
   login succeeds, and belongs to the browser, not to the request. A later
   request that is over its max_age passes on it without a sign-in. What does
   hold, and is proved, is that the flag is spent by it (`ExcusedOnce`).
5. `EveryRequestSettles`: `&&` binds tighter than `||`, so the flag does not
   reach `prompt=login` and `max_age=0`, and both are still in the URL the
   login returns to. Every other request settles (`RequestsSettle`).

### Differences met while modelling, without a run of their own

These are what the models say of the code where its texts suggest otherwise, or
where a reader would not expect it.

* `ConfigureAccessTokenEncryption.cs:37` says "for this client", but the option
  is the process's: after one sign-in of a client that skips encryption, every
  client's access tokens are plain until a restart. The property that holds is
  the other half, `SkipHonoured`.
* A user who was deleted and signs in again is stored again, and the refresh
  tokens of before serve again; `RefreshNeedsUser` says what holds.
* `useDeleteClient.js:18`: a deletion the host refuses is reported as a success
  (the row stays); the properties of reports say that there is one, not that it
  is true. Cards offer *Delete* and *Edit* also for configured clients;
  table rows do not.
* `DeleteConfirmationModal.vue:82`: after the cross, `isOpen` stays set; a
  *Delete* chosen next asks its question in the store but no dialog appears,
  until the dialog is set up anew or the tab reloaded. `hidden` is never emitted.
* `auth.js:52`: any status but 401 and 403, an error 500 too, authorizes.
* `apiClient.js:41-45`: without a token, `put` sends nothing and gives
  `undefined`, so `ClientEditView.vue:30-37` reports the update as saved though
  the host never saw it. `SavedMeansAnsweredOrUnsent` says exactly this: a report
  of success ends an update the host answered with success, or one that was
  submitted without a token. `UpdatesAccounted` counts the latter as reported.
* An update of a client that is gone is answered by 204 and reported as saved.
  An add of an id that exists ends in an exception and no message.
* A late answer acts where the user is by then: `gotoList` of an update
  closes the secret dialog of a client added meanwhile.
* Rows keep the name they were set up with when a fetch brings another; the
  dialog then asks for the old name and deletes by id.

## 4. What is proved

All theorems hold for any sets of clients, names, requests, passes, users,
principals, logins, tabs, scopes, chains and contents, and any bounds. They
assume what the `ASSUME`s of the modules say of the constants: forms are valid
forms, `Entry` gives every client a name and a type, `None` is none of the
values, principals carry sequences of claims, `Offline` is a scope, searches are
sets of names. On the two pages of the manager app the requests that may be in
flight at a time (`Op`, `Slot`) are finitely many, because `DeletionsAccounted`
and `UpdatesAccounted` count them; a browser has never more.

| Theorem | States |
|---|---|
| `ClientRegistryProofs!TypeCorrect` | `Spec => []TypeOK` |
| `ClientRegistryProofs!IndexIsHonest` | `Spec => []IndexHonest` |
| `ClientRegistryProofs!DeletionIsFinal` | `Spec => []DeletedStaysDeleted` |
| `ClientRegistryProofs!AdminSparesStaticClients` | `Spec => StaticClientsProtected` |
| `ClientRegistryProofs!RegistryIsACatalogue` | `Spec => ImplementsCatalogue` |
| `StaticClientProofs!StaticClientsAreServed` | `Spec => []StaticClientsServed` |
| `UserClaimsProofs!TypeCorrect` | `Spec => []TypeOK` |
| `UserClaimsProofs!UsersAreApart` | `Spec => UsersApart` |
| `LastLoginProofs!LastLoginIsAnswered` | `Spec => []AnswersLastLogin` |
| `LastLoginProofs!StoreIsADirectory` | `Spec => ImplementsDirectory` |
| `AuthorizeSessionProofs!TypeCorrect` | `Spec => []TypeOK` |
| `AuthorizeSessionProofs!ExcusesAreSpent` | `Spec => ExcusedOnce` |
| `TokenIssuanceProofs!TypeCorrect` | `Spec => []TypeOK` |
| `TokenIssuanceProofs!SkipIsHonoured` | `Spec => []SkipHonoured` |
| `TokenIssuanceProofs!RefreshesNeedUsers` | `Spec => []RefreshNeedsUser` |
| `TokenIssuanceProofs!GrantsAreImplemented` | `Spec => ImplementsGrants` |
| `ClientListProofs!TypeCorrect` | `Spec => []TypeOK` |
| `ClientListProofs!DialogIsImplemented` | `Spec => ImplementsConfirmation` |
| `ClientListProofs!SummaryIsRight` | `Spec => []SummaryMatchesFilters` |
| `ClientListProofs!NoDeletionLost` | `Spec => []DeletionsAccounted` |
| `ClientListProofs!SuccessIsTold` | `Spec => RowsLeaveOnSuccess` |
| `ClientFormsProofs!TypeCorrect` | `Spec => []TypeOK` |
| `ClientFormsProofs!SecretsMatch` | `Spec => []SecretMatchesClient` |
| `ClientFormsProofs!ProtectedPages` | `Spec => EntersSignedIn` |
| `ClientFormsProofs!SavedWasAnsweredOrUnsent` | `Spec => SavedMeansAnsweredOrUnsent` |
| `ClientFormsProofs!NoUpdateLost` | `Spec => []UpdatesAccounted` |
| `ClientFormsProofs!RedirectionsEnd` | a redirection is redirected again only if the store says otherwise by then, and then to a route |

*Registry.* `Typed` adds to `TypeOK` which fields a request or a pass has set at
each step. Every action is then shown to be one of five kinds of step on the
collections (`DatabaseStep`), so a fact about the documents is proved once per
kind and not once per action. `IndexInv` adds to `IndexHonest` that the flag is
about to be set only when the index is there. `DeleteInv` adds that object ids
are below `nextOid` and unique (`ObjectIds`), so that a document that is gone
cannot come back, and what a deletion has established at each step. `OwnInv`
says that a request past the static check works on a client that was not static
when it began, and that the document it located has that client's id.
`CalmInv` is the argument of `StaticClientsAreServed`: while nothing else may
touch a pass's clients (`Alone`), every document of theirs is either still
listed for deletion or one the pass has just created as configured
(`Progress`), and no other action can make that false.

`RegistryIsACatalogue` maps the same kinds of step: an insert is a `Register`
(the object id is new by `ObjectIds`, the client id by `MayInsert` once the
index is built), a change of a document leaves what is shown of it alone, a
removal is a `Remove` or a stutter, a token stored is an `Issue`. What the kinds
leave open is the purge of tokens, which is not tied to the removal before it:
two deletions, a pass and a restart may come between. `CatalogueInv` adds that a
pass about to purge has a document in hand that is gone (`PurgesGone`);
`DeleteInv` says so for a request. As object ids are never given again, it stays
gone until the purge (`StandingKeepTokens`). `BuildCatalogue` shows that only
`IndexBuild` turns the index on, and only over unique ids.

*User store.* `Typed` again gives each step's fields. `StoreInv` adds that
object ids are unique and that a login's document is its own user's and the
claims it will delete belong to that document; from it, a login's step leaves
the documents of every other user as they are (`LoginTouchesItsUser`), hence
`UsersAreApart`. `HealInv` adds, for a login that runs alone, that the
document it works on is the one userinfo will read (the first inserted, when
earlier overlaps left two) and that the claims it will not delete are exactly
those it has inserted so far (`AloneInv`); and, for a user whose last login has
settled, that the stored documents mirror the principal (`SettledInv`).
`AnswerMirrors` then computes the userinfo answer: the claims stored are the
first of each type that is not kept in the user document, so no type is doubled
and the answer is `FirstOf` for every type.

`StoreIsADirectory` rests on `HealInv` again. The steps that read (`Find`,
`List`) leave every answer as it is (`ReadIsQuiet`); those that write belong to
a login under way, whose user is not settled, change no other user's answer (the
lemma behind `UsersAreApart`) and leave a document of their user behind, so that
its answer is not "unknown" (`WriteWrites`). The end of a login that ran alone
is a `Settle` by `AnswerMirrors` (`CompleteSettles`); every other end is an
`End`, and a user is active until the last of his logins is over (`LoginEnds`).

*Authorization endpoint.* `ExcusedOnce` speaks of a step; what makes it hold is
`FlagSpent`: once a tab was excused, the flag is gone from the browser and from
that tab's own request. Other tabs may still carry it, and each may be excused
once. `Unanswered` (a request under way has no answer) shows that a code comes
from `IssueCode` alone.

*Token endpoint.* `Thrown` says that a request that noted its client's wish for
plain tokens finds the switch thrown, whoever ran in between: the switch never
goes back but in a restart, which ends the requests. `Known` links a request's
history to the users there are. For the refinement, `Backed` says that a request
with a code or a refresh token has a grant behind it that carries its scopes, so
that what it issues is a `Derive`; `Alone` says that a machine's request is the
only one of its chain and nothing is issued in it, so that its token is a
`Begin`. `Restart` and every other step leave `issued` as it is.

*List page.* `Asking` is what the dialog needs: rows are set up with names
(because the search sets are sets of names), and the name shown is that of the
item whose promise waits (`AsksForItsItem`). Each step of the dialog is then an
`Ask`, an `Answer` or a `Drop` of the mapped question (`Unrequested`), and
`ConfirmDelete` alone is an `Approve`. `ListsTyped` (the store's list and the
answers on their way are lists) gives `SummaryIsRight`.

`DeletionsAccounted` is the safety half of `DeletionsReported`: what a user
confirmed and has not been told of is in flight, as many deletions as that
(`Awaited`). With `DeletionsTyped` it is inductive by itself. `ConfirmDelete`
counts one up and takes an idle place, `DeleteAnswered` and `DeleteFailed` tell
and free one, `ServeDelete`, `RefuseDelete` and `LoseDelete` pass it on, and
leaving the page does neither; a reload of the tab ends the requests, and nobody
is left to be told. That messages are at most three and well formed
(`MessagesTyped`) needs that `Without` selects; that rows are gone and the
dialog unmounted off the list page (`PageTyped`) needs that every way out of it,
`FetchRefused` and the blank page of a failed rendering included, takes them
along. `RowsLeaveOnSuccess` then follows from the types and the one action that
changes the list at the end of a deletion.

*Forms.* `SessionInv` says that the flag is set only after an accepted check and
that a navigation waiting for the code of a protected page was let in with user
and flag (`Cleared`). Nothing forgets the user without starting a navigation of
its own, which supersedes that one; a late check may clear the flag under it but
not undo that a check was accepted. `SecretMatchesClient` is preserved by
itself; reports of updates follow from `TypeOK` and the kinds of requests.
`UpdatesAccounted` counts as `DeletionsAccounted` does: a request stands for an
update from `SaveUpdate` to its report, also once its page is gone (`Orphaned`
keeps it). `RedirectionsEnd` is about `guard` alone, which reads the store anew
at each run: where it redirects to, it lets in, unless user and flag together
have changed over between the two runs. `Navigate` takes both runs in one step:
the router starts the second when the first returns, without waiting for a
request, so a message about the session comes before both or after both.

The inductive invariants were checked with TLC as invariants of a run before
they were proved.

*Only model-checked.* Liveness under fairness (`WatchesConfiguration`,
`StaticClientsSettle`, `RequestsSettle`, `DeletionsReported`,
`NotificationsEnd`, `UpdatesAreReported`, `NavigationsSettle`) is out of the prover's reach, as is anything about
`ENABLED`. Two of these properties have a proved safety half,
`DeletionsAccounted` and `UpdatesAccounted`. Every invariant and every action
property of the passing runs is proved, and so are the four refinements. That
`Without`, which the list page's proofs unfold as a recursive function, selects
what the code's `filter` selects is an `ASSUME` that TLC evaluates
(`WithoutSelects` in `MCClientList`), since the provers know nothing of
`SelectSeq`. The refutations are TLC's counterexamples.

## 5. Limits

* A token request that found its client before a deletion may store its token
  after it. `tokens` leaves such late tokens out; it happens inside OpenIddict.
* The pass lists the collection in one step (a cursor of one batch), and the
  index initializer is the unique index on `client_id` only.
* A driver that retries a write, and a second host on the same database, are
  not modelled.
* The authorization endpoint is seen by one browser: hosts share no state but
  the cookies. The claims and scopes of a code belong to the token contents, and
  a request's protocol checks to OpenIddict. A login that was abandoned is not
  taken up again from the browser's history.
* The list queries, the settings of redirect URIs and permissions, and the
  format of claims are not modelled.
* Of the manager app: the lists of redirect URIs and the selects of a form,
  application types, the copy buttons and the spinner of the sign-in are data
  or rendering; sign-in and sign-out are reloads of the tab. Of the token
  endpoint: `AttachClientAudienceHandler`, `AppManagerClaimsTranformation` and
  the destinations of claims, which no step decides on again.
* Certificates, envelopes, health checks, telemetry, views and OpenIddict's
  token pruning have no state a property could be about.

## 6. Plan

1. A refinement of the host inside `ClientForms` (`registered`, one atomic
   change per request) by `ClientRegistry`.
2. What the runs that expect a violation miss, as theorems: that a session is
   over its max_age only on a request the flag excuses, and that a change of the
   configuration after the subscription always starts a pass.
3. Audiences and the `app_manager` claim along refreshes, once it is said how
   long a manager taken off the list keeps access.
