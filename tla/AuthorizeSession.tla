--------------------------- MODULE AuthorizeSession ---------------------------
(***************************************************************************)
(* The authorization endpoint as one browser meets it, with several tabs:    *)
(* the session cookie, the flag "IgnoreAuthenticationChallenge" in the       *)
(* TempData cookie, and the round trip by the login view, an external        *)
(* provider and the callback back to the authorization request.             *)
(*                                                                         *)
(* The host keeps none of this: a request carries copies of the cookies,     *)
(* and its response changes the browser's. Between the two, the responses    *)
(* of other tabs arrive. Time is what max_age tells apart of it: whether a   *)
(* sign-in, and the date on its cookie, are longer ago than max_age.        *)
(***************************************************************************)
EXTENDS Naturals

CONSTANTS
    Tab,        \* tabs of the browser
    User,       \* who may sign in at the external providers
    None,       \* "no session", "nobody"
    MaxEvents   \* bound: requests, sign-outs, expiries and failures together

ASSUME NoneAssumption == None \notin User
ASSUME BoundAssumption == MaxEvents \in Nat

VARIABLES
    session,   \* the session cookie
    temp,      \* the TempData cookie
    tab,       \* the authorization request in each tab
    excused,   \* history: tabs let past max_age since the last login view
    events     \* events so far (bounded by MaxEvents)

cookies == <<session, temp>>
vars == <<session, temp, tab, excused, events>>

(* "old": the date on the cookie is longer ago than max_age; "renewed": only *)
(* the sign-in is, the cookie was renewed since; "fresh": neither is.        *)
Session == [user : User, age : {"fresh", "renewed", "old"}]

TempData == {"empty", "ignore"}

TabState ==
    [pc : {"idle", "sent", "view", "away", "back"},
     prompt : {"absent", "none", "login"},
     maxAge : {"absent", "zero", "some"},
     session : Session \cup {None},   \* the cookies the request was sent with
     temp : TempData,
     shownTo : User \cup {None},      \* who the login form was rendered for
     signedIn : {"before", "since"},  \* history: has this request led to a sign-in?
     answer : {"none", "code", "login_required", "error"}]

IdleTab == [pc |-> "idle", prompt |-> "absent", maxAge |-> "absent", session |-> None,
            temp |-> "empty", shownTo |-> None, signedIn |-> "before", answer |-> "none"]

TypeOK ==
    /\ session \in Session \cup {None}
    /\ temp \in TempData
    /\ tab \in [Tab -> TabState]
    /\ excused \subseteq Tab
    /\ events \in Nat

Init ==
    /\ session = None
    /\ temp = "empty"
    /\ tab = [t \in Tab |-> IdleTab]
    /\ excused = {}
    /\ events = 0

Event == events < MaxEvents /\ events' = events + 1

UserOf(s) == IF s = None THEN None ELSE s.user

AgeOf(s) == IF s = None THEN "none" ELSE s.age

-----------------------------------------------------------------------------
(* What the endpoint makes of a request q.                                  *)

(* The first disjuncts of the condition. *)
MustSignIn(q) ==
    \/ q.session = None
    \/ q.prompt = "login"
    \/ q.maxAge = "zero"

OverAge(q) == q.maxAge = "some" /\ AgeOf(q.session) = "old"

(* TempData is read only when the other conjuncts hold. *)
ReadsTempData(q) == ~ MustSignIn(q) /\ OverAge(q)

Challenged_NoFlag(q) == MustSignIn(q) \/ OverAge(q)

Challenged(q) == MustSignIn(q) \/ (OverAge(q) /\ q.temp = "empty")

TempDataAfter_Peek(q) == temp

(* The filter that saves TempData: what was read is dropped, and a cookie is *)
(* only written when TempData was loaded.                                   *)
TempDataAfter(q) == IF ReadsTempData(q) THEN "empty" ELSE temp

(* The cookie handler may renew the cookie it was sent, with the date of now. *)
Renewed(s) == [s EXCEPT !.age = IF s.age = "old" THEN "renewed" ELSE s.age]

CookieMayBeRenewed(q) ==
    \/ UNCHANGED session
    \/ q.session # None /\ session' = Renewed(q.session)

-----------------------------------------------------------------------------
(* The tabs.                                                                *)

(* The request goes out with the cookies of the moment. *)
Sent(q) == [q EXCEPT !.pc = "sent", !.session = session, !.temp = temp]

Begin(t) ==
    /\ tab[t].pc = "idle"
    /\ Event
    /\ \E p \in {"absent", "none", "login"}, m \in {"absent", "zero", "some"} :
         tab' = [tab EXCEPT ![t] = Sent([IdleTab EXCEPT !.prompt = p, !.maxAge = m])]
    /\ UNCHANGED <<cookies, excused>>

Answer(t, answer) ==
    tab' = [tab EXCEPT ![t] = [IdleTab EXCEPT !.answer = answer]]

ShownTo_Ticket(q) == q.session

(* The antiforgery token of the form is bound to the user it is shown to. *)
ShownTo(q) == UserOf(q.session)

ShowLogin(t) ==
    /\ tab[t].pc = "sent"
    /\ Challenged(tab[t]) /\ tab[t].prompt # "none"
    /\ tab' = [tab EXCEPT ![t] = [tab[t] EXCEPT !.pc = "view",
                                                !.shownTo = ShownTo(tab[t])]]
    /\ temp' = "ignore"
    /\ excused' = {}
    /\ CookieMayBeRenewed(tab[t])
    /\ UNCHANGED events

LoginRequired(t) ==
    /\ tab[t].pc = "sent"
    /\ Challenged(tab[t]) /\ tab[t].prompt = "none"
    /\ Answer(t, "login_required")
    /\ temp' = TempDataAfter(tab[t])
    /\ CookieMayBeRenewed(tab[t])
    /\ UNCHANGED <<excused, events>>

IssueCode(t) ==
    /\ tab[t].pc = "sent"
    /\ ~ Challenged(tab[t])
    /\ Answer(t, "code")
    /\ temp' = TempDataAfter(tab[t])
    /\ excused' = IF ReadsTempData(tab[t]) THEN excused \cup {t} ELSE excused
    /\ CookieMayBeRenewed(tab[t])
    /\ UNCHANGED events

(* The login view cannot be built, or the process ends: TempData is not     *)
(* saved.                                                                   *)
AuthorizeFails(t) ==
    /\ tab[t].pc = "sent"
    /\ Event
    /\ Answer(t, "error")
    /\ UNCHANGED <<cookies, excused>>

(* The user picks a provider. The form is refused when the browser's user   *)
(* is not the one it was shown to.                                          *)
Choose(t) ==
    /\ tab[t].pc = "view"
    /\ IF UserOf(session) = tab[t].shownTo
       THEN tab' = [tab EXCEPT ![t] = [tab[t] EXCEPT !.pc = "away"]]
       ELSE Answer(t, "error")
    /\ UNCHANGED <<cookies, excused, events>>

Abandon(t) ==
    /\ tab[t].pc \in {"view", "away"}
    /\ Answer(t, "none")
    /\ UNCHANGED <<cookies, excused, events>>

(* The provider's answer signs the user in and redirects to the request.    *)
Callback(t) ==
    /\ tab[t].pc = "away"
    /\ \E u \in User : session' = [user |-> u, age |-> "fresh"]
    /\ tab' = [tab EXCEPT ![t] = [tab[t] EXCEPT !.pc = "back", !.signedIn = "since"]]
    /\ UNCHANGED <<temp, excused, events>>

CallbackFails(t) ==
    /\ tab[t].pc = "away"
    /\ Event
    /\ Answer(t, "error")
    /\ UNCHANGED <<cookies, excused>>

Return(t) ==
    /\ tab[t].pc = "back"
    /\ tab' = [tab EXCEPT ![t] = Sent(tab[t])]
    /\ UNCHANGED <<cookies, excused, events>>

(* Sign-out, or the end of the cookie's lifetime. *)
Logout ==
    /\ session # None
    /\ Event
    /\ session' = None
    /\ UNCHANGED <<temp, tab, excused>>

(* As long as max_age passes. *)
Aged(s) == IF s = None THEN None ELSE [s EXCEPT !.age = "old"]

TimePasses ==
    /\ session' = Aged(session)
    /\ tab' = [t \in Tab |-> [tab[t] EXCEPT !.session = Aged(tab[t].session)]]
    /\ UNCHANGED <<temp, excused, events>>

Authorize(t) == ShowLogin(t) \/ LoginRequired(t) \/ IssueCode(t)

Next ==
    \/ \E t \in Tab :
         \/ Begin(t)
         \/ Authorize(t) \/ AuthorizeFails(t)
         \/ Choose(t) \/ Abandon(t)
         \/ Callback(t) \/ CallbackFails(t)
         \/ Return(t)
    \/ Logout
    \/ TimePasses

Spec == Init /\ [][Next]_vars

(* The host answers, the browser follows redirects, and the user carries    *)
(* through a login that was begun, unless it is abandoned.                  *)
Fairness ==
    \A t \in Tab : /\ WF_vars(Authorize(t))
                   /\ WF_vars(Choose(t))
                   /\ WF_vars(Callback(t))
                   /\ WF_vars(Return(t))

FairSpec == Spec /\ Fairness

-----------------------------------------------------------------------------
(* A login view excuses an over-age session at most once in each tab: until  *)
(* a login view is shown again, in whichever tab, no tab gets a second code  *)
(* on a cookie older than its max_age, whatever copies of the TempData       *)
(* cookie were under way (the TempData flag of OAuthAuthorize).              *)
ExcusedOnce ==
    [][\A t \in Tab :
         tab[t].pc = "sent" /\ tab'[t].answer = "code" /\ ReadsTempData(tab[t]) =>
           t \notin excused]_vars

(* A request that does not insist on a new sign-in is answered in the end,   *)
(* however often its max_age passes between the login and the return, and    *)
(* whatever other tabs do to the cookies: the flag ends the round trips      *)
(* (OAuthAuthorize and the login view).                                     *)
Insists(q) == q.prompt # "none" /\ (q.prompt = "login" \/ q.maxAge = "zero")

RequestsSettle ==
    \A t \in Tab : (tab[t].pc # "idle" /\ ~ Insists(tab[t])) ~> tab[t].pc = "idle"

-----------------------------------------------------------------------------
(* What OpenID Connect asks of the endpoint and the code does not keep.      *)

(* A code for a request with max_age is given only for a sign-in that is no  *)
(* longer ago, or to a user who signed in for this very request.             *)
MaxAgeKept ==
    [][\A t \in Tab :
         /\ tab[t].pc = "sent" /\ tab'[t].answer = "code"
         /\ tab[t].maxAge = "some" /\ tab[t].signedIn = "before"
         => tab[t].session.age = "fresh"]_vars

(* Every request is answered in the end, those with prompt=login or          *)
(* max_age=0 included.                                                      *)
EveryRequestSettles ==
    \A t \in Tab : tab[t].pc # "idle" ~> tab[t].pc = "idle"
=============================================================================
