------------------------ MODULE AuthorizeSessionProofs ------------------------
(***************************************************************************)
(* Proofs about AuthorizeSession, for any tabs and users, and with no bound   *)
(* on the number of events.                                                 *)
(***************************************************************************)
EXTENDS AuthorizeSession, TLAPS

-----------------------------------------------------------------------------
(* What the helpers return.                                                 *)

LEMMA UserOfType ==
    ASSUME NEW s \in Session \cup {None}
    PROVE  UserOf(s) \in User \cup {None}
BY DEF UserOf, Session

LEMMA AgedType ==
    ASSUME NEW s \in Session \cup {None}
    PROVE  Aged(s) \in Session \cup {None}
BY DEF Aged, Session

LEMMA IdleTabType ==
    ASSUME NEW answer \in {"none", "code", "login_required", "error"}
    PROVE  /\ IdleTab \in TabState
           /\ [IdleTab EXCEPT !.answer = answer] \in TabState
BY DEF IdleTab, TabState, TempData

LEMMA SentType ==
    ASSUME NEW q \in TabState, session \in Session \cup {None}, temp \in TempData
    PROVE  /\ Sent(q) \in TabState
           /\ Sent(q).pc = "sent"
           /\ Sent(q).temp = temp
BY DEF Sent, TabState

(* A response leaves the cookies typed, whatever it does to them.            *)
LEMMA ResponseType ==
    ASSUME TypeOK, NEW t \in Tab
    PROVE  /\ CookieMayBeRenewed(tab[t]) => session' \in Session \cup {None}
           /\ TempDataAfter(tab[t]) \in {"empty", temp}
<1>1. tab[t].session \in Session \cup {None}
  BY DEF TypeOK, TabState
<1>2. ASSUME NEW s \in Session
      PROVE  Renewed(s) \in Session
  BY DEF Renewed, Session
<1>3. CookieMayBeRenewed(tab[t]) => session' \in Session \cup {None}
  BY <1>1, <1>2 DEF CookieMayBeRenewed, TypeOK
<1> QED
  BY <1>3 DEF TempDataAfter

-----------------------------------------------------------------------------
(* Types.                                                                   *)

LEMMA TypeStep ==
    ASSUME TypeOK, [Next]_vars
    PROVE  TypeOK'
<1> USE DEF TypeOK, TempData, Event
<1>1. ASSUME NEW t \in Tab, Begin(t)
      PROVE  TypeOK'
  <2>1. PICK p \in {"absent", "none", "login"}, m \in {"absent", "zero", "some"} :
          tab' = [tab EXCEPT ![t] = Sent([IdleTab EXCEPT !.prompt = p, !.maxAge = m])]
    BY <1>1 DEF Begin
  <2>2. [IdleTab EXCEPT !.prompt = p, !.maxAge = m] \in TabState
    BY DEF IdleTab, TabState
  <2>3. Sent([IdleTab EXCEPT !.prompt = p, !.maxAge = m]) \in TabState
    BY <2>2, SentType
  <2> QED
    BY <1>1, <2>1, <2>3 DEF Begin, cookies
<1>2. ASSUME NEW t \in Tab, ShowLogin(t)
      PROVE  TypeOK'
  <2>1. ShownTo(tab[t]) \in User \cup {None}
    BY UserOfType DEF ShownTo, TabState
  <2>2. [tab[t] EXCEPT !.pc = "view", !.shownTo = ShownTo(tab[t])] \in TabState
    BY <2>1 DEF TabState
  <2>3. session' \in Session \cup {None}
    BY <1>2, ResponseType DEF ShowLogin
  <2> QED
    BY <1>2, <2>2, <2>3 DEF ShowLogin
<1>3. ASSUME NEW t \in Tab, LoginRequired(t) \/ IssueCode(t)
      PROVE  TypeOK'
  <2>1. session' \in Session \cup {None}
    BY <1>3, ResponseType DEF LoginRequired, IssueCode
  <2>2. temp' \in TempData
    BY <1>3, ResponseType DEF LoginRequired, IssueCode
  <2>3. tab' \in [Tab -> TabState]
    BY <1>3, IdleTabType DEF LoginRequired, IssueCode, Answer
  <2> QED
    BY <1>3, <2>1, <2>2, <2>3 DEF LoginRequired, IssueCode
<1>4. ASSUME NEW t \in Tab, AuthorizeFails(t) \/ Abandon(t) \/ CallbackFails(t)
      PROVE  TypeOK'
  BY <1>4, IdleTabType DEF AuthorizeFails, Abandon, CallbackFails, Answer, cookies
<1>5. ASSUME NEW t \in Tab, Choose(t)
      PROVE  TypeOK'
  <2>1. [tab[t] EXCEPT !.pc = "away"] \in TabState
    BY DEF TabState
  <2> QED
    BY <1>5, <2>1, IdleTabType DEF Choose, Answer, cookies
<1>6. ASSUME NEW t \in Tab, Callback(t)
      PROVE  TypeOK'
  <2>1. [tab[t] EXCEPT !.pc = "back", !.signedIn = "since"] \in TabState
    BY DEF TabState
  <2>2. session' \in Session
    BY <1>6 DEF Callback, Session
  <2> QED
    BY <1>6, <2>1, <2>2 DEF Callback
<1>7. ASSUME NEW t \in Tab, Return(t)
      PROVE  TypeOK'
  BY <1>7, SentType DEF Return, cookies
<1>8. ASSUME Logout
      PROVE  TypeOK'
  BY <1>8 DEF Logout
<1>9. ASSUME TimePasses
      PROVE  TypeOK'
  <2>1. session' \in Session \cup {None}
    BY <1>9, AgedType DEF TimePasses
  <2>2. ASSUME NEW t \in Tab
        PROVE  [tab[t] EXCEPT !.session = Aged(tab[t].session)] \in TabState
    BY AgedType DEF TabState
  <2> QED
    BY <1>9, <2>1, <2>2 DEF TimePasses
<1>10. CASE UNCHANGED vars
  BY <1>10 DEF vars
<1> QED
  BY <1>1, <1>2, <1>3, <1>4, <1>5, <1>6, <1>7, <1>8, <1>9, <1>10 DEF Next, Authorize

(* Every reachable state of the browser has the declared shape: the copies   *)
(* of the cookies that requests carry, and the user a login form is bound    *)
(* to, included.                                                            *)
THEOREM TypeCorrect == Spec => []TypeOK
<1>1. Init => TypeOK
  BY IdleTabType DEF Init, TypeOK, TempData
<1>2. TypeOK /\ [Next]_vars => TypeOK'
  BY TypeStep
<1> QED
  BY <1>1, <1>2, PTL DEF Spec

-----------------------------------------------------------------------------
(* The flag is used up once.                                                *)

(* Once a tab was excused, the flag is gone from the browser, and that tab    *)
(* carries no older copy of it. Other tabs still may.                        *)
FlagSpent ==
    \A t \in excused :
        /\ temp = "empty"
        /\ tab[t].pc = "sent" => tab[t].temp = "empty"

SpentInv == TypeOK /\ FlagSpent

(* A code for an over-age session is issued on a request that carries the    *)
(* flag.                                                                    *)
LEMMA ExcuseNeedsFlag ==
    ASSUME NEW q, ReadsTempData(q), ~ Challenged(q)
    PROVE  q.temp # "empty"
BY DEF ReadsTempData, Challenged

(* The tab that a step answers, or sends, is the only one it changes.        *)
LEMMA SpentElsewhere ==
    ASSUME SpentInv, NEW t \in Tab, NEW q,
           tab' = [tab EXCEPT ![t] = q],
           q.pc = "sent" => q.temp = temp,
           temp' \in {"empty", temp},
           excused' = excused
    PROVE  FlagSpent'
BY DEF SpentInv, FlagSpent, TypeOK

LEMMA SpentStep ==
    ASSUME SpentInv, [Next]_vars
    PROVE  SpentInv'
<1>0. TypeOK /\ TypeOK' /\ FlagSpent
  BY TypeStep DEF SpentInv
<1>1. ASSUME NEW t \in Tab, Begin(t)
      PROVE  FlagSpent'
  <2>1. PICK p \in {"absent", "none", "login"}, m \in {"absent", "zero", "some"} :
          tab' = [tab EXCEPT ![t] = Sent([IdleTab EXCEPT !.prompt = p, !.maxAge = m])]
    BY <1>1 DEF Begin
  <2>2. [IdleTab EXCEPT !.prompt = p, !.maxAge = m] \in TabState
    BY DEF IdleTab, TabState, TempData
  <2>3. Sent([IdleTab EXCEPT !.prompt = p, !.maxAge = m]).temp = temp
    BY <1>0, <2>2, SentType DEF TypeOK
  <2> QED
    BY <1>1, <2>1, <2>3, SpentElsewhere DEF Begin, cookies
<1>2. ASSUME NEW t \in Tab, ShowLogin(t)
      PROVE  FlagSpent'
  BY <1>2 DEF ShowLogin, FlagSpent
<1>3. ASSUME NEW t \in Tab, LoginRequired(t)
      PROVE  FlagSpent'
  <2>1. temp' \in {"empty", temp}
    BY <1>0, <1>3, ResponseType DEF LoginRequired
  <2>2. [IdleTab EXCEPT !.answer = "login_required"].pc # "sent"
    BY DEF IdleTab
  <2> QED
    BY <1>3, <2>1, <2>2, SpentElsewhere DEF LoginRequired, Answer
<1>4. ASSUME NEW t \in Tab, IssueCode(t)
      PROVE  FlagSpent'
  <2>1. [IdleTab EXCEPT !.answer = "code"].pc # "sent"
    BY DEF IdleTab
  <2>2. tab' = [tab EXCEPT ![t] = [IdleTab EXCEPT !.answer = "code"]]
    BY <1>4 DEF IssueCode, Answer
  <2>3. temp' \in {"empty", temp}
    BY <1>0, <1>4, ResponseType DEF IssueCode
  <2>4. CASE ReadsTempData(tab[t])
    <3>1. temp' = "empty" /\ excused' = excused \cup {t}
      BY <1>4, <2>4 DEF IssueCode, TempDataAfter
    <3>2. tab'[t].pc # "sent"
      BY <1>0, <2>1, <2>2 DEF TypeOK
    <3>3. \A u \in Tab \ {t} : tab'[u] = tab[u]
      BY <1>0, <2>2 DEF TypeOK
    <3> QED
      BY <1>0, <3>1, <3>2, <3>3 DEF FlagSpent, TypeOK
  <2>5. CASE ~ ReadsTempData(tab[t])
    <3>1. excused' = excused
      BY <1>4, <2>5 DEF IssueCode
    <3> QED
      BY <2>1, <2>2, <2>3, <3>1, SpentElsewhere
  <2> QED
    BY <2>4, <2>5
<1>5. ASSUME NEW t \in Tab, AuthorizeFails(t) \/ Abandon(t) \/ CallbackFails(t)
      PROVE  FlagSpent'
  <2>1. \A a : [IdleTab EXCEPT !.answer = a].pc # "sent"
    BY DEF IdleTab
  <2> QED
    BY <1>5, <2>1, SpentElsewhere DEF AuthorizeFails, Abandon, CallbackFails, Answer, cookies
<1>6. ASSUME NEW t \in Tab, Choose(t)
      PROVE  FlagSpent'
  <2>1. \A a : [IdleTab EXCEPT !.answer = a].pc # "sent"
    BY DEF IdleTab
  <2>2. [tab[t] EXCEPT !.pc = "away"].pc # "sent"
    BY <1>0 DEF TypeOK, TabState
  <2> QED
    BY <1>6, <2>1, <2>2, SpentElsewhere DEF Choose, Answer, cookies
<1>7. ASSUME NEW t \in Tab, Callback(t)
      PROVE  FlagSpent'
  <2>1. [tab[t] EXCEPT !.pc = "back", !.signedIn = "since"].pc # "sent"
    BY <1>0 DEF TypeOK, TabState
  <2> QED
    BY <1>7, <2>1, SpentElsewhere DEF Callback
<1>8. ASSUME NEW t \in Tab, Return(t)
      PROVE  FlagSpent'
  <2>1. Sent(tab[t]).temp = temp
    BY <1>0, SentType DEF TypeOK
  <2> QED
    BY <1>8, <2>1, SpentElsewhere DEF Return, cookies
<1>9. ASSUME Logout \/ UNCHANGED vars
      PROVE  FlagSpent'
  BY <1>0, <1>9 DEF Logout, vars, FlagSpent
<1>10. ASSUME TimePasses
       PROVE  FlagSpent'
  <2>1. \A t \in Tab : tab'[t].pc = tab[t].pc /\ tab'[t].temp = tab[t].temp
    BY <1>0, <1>10 DEF TimePasses, TypeOK, TabState
  <2>2. temp' = temp /\ excused' = excused
    BY <1>10 DEF TimePasses
  <2> QED
    BY <1>0, <2>1, <2>2 DEF FlagSpent, TypeOK
<1> QED
  BY <1>0, <1>1, <1>2, <1>3, <1>4, <1>5, <1>6, <1>7, <1>8, <1>9, <1>10
     DEF Next, Authorize, SpentInv

(* A request that is under way has no answer yet.                            *)
Unanswered == \A t \in Tab : tab[t].pc # "idle" => tab[t].answer = "none"

LEMMA UnansweredStep ==
    ASSUME TypeOK, Unanswered, [Next]_vars
    PROVE  Unanswered'
<1> USE DEF TypeOK, Unanswered
<1>1. ASSUME NEW t \in Tab, Begin(t)
      PROVE  Unanswered'
  <2>1. PICK p \in {"absent", "none", "login"}, m \in {"absent", "zero", "some"} :
          tab' = [tab EXCEPT ![t] = Sent([IdleTab EXCEPT !.prompt = p, !.maxAge = m])]
    BY <1>1 DEF Begin
  <2>2. Sent([IdleTab EXCEPT !.prompt = p, !.maxAge = m]).answer = "none"
    BY DEF Sent, IdleTab
  <2> QED
    BY <2>1, <2>2
<1>2. ASSUME NEW t \in Tab, NEW answer, Answer(t, answer)
      PROVE  Unanswered'
  <2>1. [IdleTab EXCEPT !.answer = answer].pc = "idle"
    BY DEF IdleTab
  <2> QED
    BY <1>2, <2>1 DEF Answer
<1>3. ASSUME NEW t \in Tab, ShowLogin(t) \/ Callback(t) \/ Return(t)
      PROVE  Unanswered'
  <2>1. tab[t].answer = "none"
    BY <1>3 DEF ShowLogin, Callback, Return
  <2>2. \A u \in Tab \ {t} : tab'[u] = tab[u]
    BY <1>3 DEF ShowLogin, Callback, Return
  <2>3. tab'[t].answer = tab[t].answer
    BY <1>3 DEF ShowLogin, Callback, Return, Sent, TabState
  <2> QED
    BY <2>1, <2>2, <2>3
<1>4. ASSUME NEW t \in Tab, Choose(t)
      PROVE  Unanswered'
  <2>1. CASE tab' = [tab EXCEPT ![t] = [tab[t] EXCEPT !.pc = "away"]]
    <3>1. tab[t].answer = "none" /\ [tab[t] EXCEPT !.pc = "away"].answer = tab[t].answer
      BY <1>4 DEF Choose, TabState
    <3> QED
      BY <2>1, <3>1
  <2> QED
    BY <1>2, <1>4, <2>1 DEF Choose
<1>5. ASSUME TimePasses
      PROVE  Unanswered'
  <2>1. \A t \in Tab : tab'[t].pc = tab[t].pc /\ tab'[t].answer = tab[t].answer
    BY <1>5 DEF TimePasses, TabState
  <2> QED
    BY <2>1
<1>6. ASSUME Logout \/ UNCHANGED vars
      PROVE  Unanswered'
  BY <1>6 DEF Logout, vars
<1> QED
  BY <1>1, <1>2, <1>3, <1>4, <1>5, <1>6
     DEF Next, Authorize, LoginRequired, IssueCode, AuthorizeFails, Abandon, CallbackFails

(* A request under way is answered with a code by IssueCode alone.           *)
LEMMA OnlyIssueCode ==
    ASSUME TypeOK, Unanswered, [Next]_vars, NEW t \in Tab,
           tab[t].pc = "sent", tab'[t].answer = "code"
    PROVE  ~ Challenged(tab[t])
<1> USE DEF TypeOK
<1>1. tab[t].answer = "none" /\ tab'[t] # tab[t]
  BY DEF Unanswered
<1>2. ASSUME NEW u \in Tab, NEW q, tab' = [tab EXCEPT ![u] = q]
      PROVE  u = t /\ q.answer = "code"
  BY <1>1, <1>2
<1>3. ASSUME NEW u \in Tab, NEW answer, Answer(u, answer)
      PROVE  u = t /\ answer = "code"
  <2>1. [IdleTab EXCEPT !.answer = answer].answer = answer
    BY DEF IdleTab
  <2> QED
    BY <1>2, <1>3, <2>1 DEF Answer
<1>4. ~ \E u \in Tab : Begin(u) \/ Choose(u) \/ Callback(u) \/ Return(u)
  BY <1>2, <1>3 DEF Begin, Choose, Callback, Return
<1>5. ~ \E u \in Tab : ShowLogin(u)
  <2>1. [tab[t] EXCEPT !.pc = "view", !.shownTo = ShownTo(tab[t])].answer = "none"
    BY <1>1 DEF TabState
  <2> QED
    BY <1>2, <2>1 DEF ShowLogin
<1>6. ~ \E u \in Tab : \/ LoginRequired(u) \/ AuthorizeFails(u)
                       \/ Abandon(u) \/ CallbackFails(u)
  BY <1>3 DEF LoginRequired, AuthorizeFails, Abandon, CallbackFails
<1>7. ~ (Logout \/ UNCHANGED vars)
  BY <1>1 DEF Logout, vars
<1>8. ~ TimePasses
  BY <1>1 DEF TimePasses, TabState
<1>9. \E u \in Tab : IssueCode(u)
  BY <1>4, <1>5, <1>6, <1>7, <1>8 DEF Next, Authorize
<1> QED
  BY <1>3, <1>9 DEF IssueCode

ExcuseInv == SpentInv /\ Unanswered

(* A login view excuses an over-age session at most once in each tab, for    *)
(* any number of tabs and requests, whatever copies of the cookies are       *)
(* under way.                                                               *)
THEOREM ExcusesAreSpent == Spec => ExcusedOnce
<1>1. Init => ExcuseInv
  BY IdleTabType
     DEF Init, ExcuseInv, SpentInv, TypeOK, TempData, FlagSpent, Unanswered, IdleTab
<1>2. ExcuseInv /\ [Next]_vars => ExcuseInv'
  BY SpentStep, UnansweredStep DEF ExcuseInv, SpentInv
<1>3. ASSUME ExcuseInv, [Next]_vars, NEW t \in Tab,
             tab[t].pc = "sent", tab'[t].answer = "code", ReadsTempData(tab[t])
      PROVE  t \notin excused
  <2>1. ~ Challenged(tab[t])
    BY <1>3, OnlyIssueCode DEF ExcuseInv, SpentInv
  <2>2. tab[t].temp # "empty"
    BY <1>3, <2>1, ExcuseNeedsFlag
  <2> QED
    BY <1>3, <2>2 DEF ExcuseInv, SpentInv, FlagSpent
<1>4. ExcuseInv /\ [Next]_vars =>
        [\A t \in Tab :
           tab[t].pc = "sent" /\ tab'[t].answer = "code" /\ ReadsTempData(tab[t]) =>
             t \notin excused]_vars
  BY <1>3
<1> QED
  BY <1>1, <1>2, <1>4, PTL DEF Spec, ExcusedOnce
=============================================================================
