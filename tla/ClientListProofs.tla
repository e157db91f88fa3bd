--------------------------- MODULE ClientListProofs ---------------------------
(* The delete dialog and the list, for any clients, names, filters and        *)
(* searches, and any number of requests and events.                          *)
EXTENDS ClientList, FiniteSetTheorems, TLAPS

\* What is typed of the store and of the answers on their way to it.
ListsTyped ==
    /\ registered \in List
    /\ list \in List \cup {Undefined}
    /\ fetch \in [Fetch -> [at : {"idle", "sent", "read", "refused", "failed"},
                            answer : List \cup {Undefined}]]

\* The dialog's part: each row has a name to ask for, and the question open in
\* the store is about the item whose deletion awaits.
Asking ==
    /\ DialogTypeOK
    /\ AsksForItsItem
    /\ setUp \in List
    /\ view \in Filter \X Query
    /\ confirmed \in [Client -> Nat]

IInv == ListsTyped /\ Asking

-----------------------------------------------------------------------------
(* Rows are set up with names.                                              *)

LEMMA RowNames ==
  ASSUME NEW before \in List, NEW p, NEW l, NEW v \in Filter \X Query
  PROVE  SetUp(before, p, l, v) \in List
  <1>1. v[2] \subseteq Name
    BY ViewAssumption
  <1>2. ASSUME NEW c \in Rows(p, l, v) PROVE l[c] \in Name
    BY <1>1, <1>2 DEF Rows, filteredClients
  <1> QED
    BY <1>2 DEF SetUp, List

LEMMA NoRowsTyped == NoRows \in List
  BY DEF NoRows, List

LEMMA FirstViewTyped == <<"all", Name>> \in Filter \X Query
  BY ViewAssumption

LEMMA InitIInv == Init => IInv
  <1> SUFFICES ASSUME Init PROVE IInv
    OBVIOUS
  <1>1. DialogTypeOK /\ AsksForItsItem
    BY DEF Init, DialogInit, DialogTypeOK, AsksForItsItem, Stage
  <1>2. setUp \in List /\ list \in List
    BY DEF Init, List
  <1>3. ListsTyped
    BY <1>2 DEF Init, ListsTyped, IdleFetch
  <1>4. view \in Filter \X Query /\ confirmed \in [Client -> Nat]
    BY FirstViewTyped DEF Init
  <1> QED
    BY <1>1, <1>2, <1>3, <1>4 DEF IInv, Asking

-----------------------------------------------------------------------------
(* The store's list is a list, or undefined.                                 *)

LEMMA ListsStay ==
  ASSUME ListsTyped, UNCHANGED <<registered, list, fetch>>
  PROVE  ListsTyped'
  BY DEF ListsTyped

LEMMA ListsStep == IInv /\ [Next]_vars => ListsTyped'
  <1> SUFFICES ASSUME ListsTyped, [Next]_vars PROVE ListsTyped'
    BY DEF IInv
  <1> DEFINE FetchTyped(g) == g \in [Fetch -> [at : {"idle", "sent", "read", "refused", "failed"},
                                               answer : List \cup {Undefined}]]
  <1>0. ASSUME registered' \in List, list' \in List \cup {Undefined}, FetchTyped(fetch')
        PROVE  ListsTyped'
    BY <1>0 DEF ListsTyped
  <1>1. CASE LeaveList \/ ChooseView \/ Resize \/ Tick \/ Answered \/ ConfirmDelete
    BY <1>1, ListsStay DEF LeaveList, ChooseView, Resize, Tick, Answered, ConfirmDelete, listVars
  <1>2. CASE EnterList
    <2>1. registered' = registered /\ list' = list
      BY <1>2 DEF EnterList
    <2>2. FetchTyped(fetch')
      BY <1>2 DEF EnterList, ListsTyped
    <2> QED
      BY <2>1, <2>2, <1>0 DEF ListsTyped
  <1>3. CASE Reload
    <2>1. registered' = registered /\ list' \in List
      BY <1>3 DEF Reload, List
    <2>2. FetchTyped(fetch')
      BY <1>3 DEF Reload, IdleFetch
    <2> QED
      BY <2>1, <2>2, <1>0 DEF ListsTyped
  <1>4. ASSUME NEW c \in Client, AskDelete(c) PROVE ListsTyped'
    BY <1>4, ListsStay DEF AskDelete
  <1>5. ASSUME NEW c \in Client, Elsewhere(c) PROVE ListsTyped'
    <2>1. registered' \in List /\ list' = list /\ fetch' = fetch
      BY <1>5 DEF Elsewhere, ListsTyped, List
    <2> QED
      BY <2>1, <1>0 DEF ListsTyped
  <1>6. ASSUME NEW f \in Fetch, ServeFetch(f) \/ RefuseFetch(f) \/ FetchFailed(f)
        PROVE  ListsTyped'
    <2>1. registered' = registered /\ list' = list
      BY <1>6 DEF ServeFetch, RefuseFetch, FetchFailed
    <2>2. FetchTyped(fetch')
      BY <1>6 DEF ServeFetch, RefuseFetch, FetchFailed, ListsTyped, IdleFetch
    <2> QED
      BY <2>1, <2>2, <1>0 DEF ListsTyped
  <1>7. ASSUME NEW f \in Fetch, FetchAnswered(f) \/ FetchRefused(f) PROVE ListsTyped'
    <2>1. registered' = registered /\ list' \in List \cup {Undefined}
      BY <1>7 DEF FetchAnswered, FetchRefused, ListsTyped
    <2>2. FetchTyped(fetch')
      BY <1>7 DEF FetchAnswered, FetchRefused, ListsTyped, IdleFetch
    <2> QED
      BY <2>1, <2>2, <1>0 DEF ListsTyped
  <1>8. ASSUME NEW o \in Op, ServeDelete(o) PROVE ListsTyped'
    <2>1. registered' \in List /\ list' = list /\ fetch' = fetch
      BY <1>8 DEF ServeDelete, ListsTyped, List
    <2> QED
      BY <2>1, <1>0 DEF ListsTyped
  <1>9. ASSUME NEW o \in Op, RefuseDelete(o) \/ DeleteFailed(o) \/ LoseDelete(o)
        PROVE  ListsTyped'
    BY <1>9, ListsStay DEF RefuseDelete, DeleteFailed, LoseDelete
  <1>10. ASSUME NEW o \in Op, DeleteAnswered(o) PROVE ListsTyped'
    <2>1. registered' = registered /\ fetch' = fetch
      BY <1>10 DEF DeleteAnswered
    <2>2. list' \in List \cup {Undefined}
      BY <1>10 DEF DeleteAnswered, ListsTyped, List
    <2> QED
      BY <2>1, <2>2, <1>0 DEF ListsTyped
  <1>11. ASSUME NEW id \in 0..MaxEvents, remove(id) PROVE ListsTyped'
    BY <1>11, ListsStay DEF remove
  <1>12. CASE UNCHANGED vars
    BY <1>12, ListsStay DEF vars, listVars
  <1> QED
    BY <1>1, <1>2, <1>3, <1>4, <1>5, <1>6, <1>7, <1>8, <1>9, <1>10, <1>11, <1>12
       DEF Next, Arrives, Finishes

-----------------------------------------------------------------------------
(* The dialog. Each step of it keeps its types and is a step of the promise:  *)
(* "asked" is the open question as the promise sees it.                       *)

asked == IF Visible THEN resolver ELSE None

DialogInv == DialogTypeOK /\ AsksForItsItem

\* What a step of the dialog may be that requests nothing.
Unrequested ==
    \/ asked' \in Item /\ typed' \in {typed, NoText}
    \/ asked' = None /\ typed' \in {typed, NoText}
    \/ asked' = asked /\ typed' \in Name \cup {NoText}

LEMMA Confirms ==
  ASSUME DialogInv, NEW item \in Item, confirm(item)
  PROVE  DialogInv' /\ Unrequested
  <1>1. DialogInv'
    BY DEF DialogInv, DialogTypeOK, AsksForItsItem, confirm, Item, Watched, show, hide, Stage
  <1>2. asked' \in {item, None}
    BY DEF confirm, asked, Visible
  <1>3. typed' \in {typed, NoText}
    BY DEF confirm
  <1> QED
    BY <1>1, <1>2, <1>3 DEF Unrequested

LEMMA DialogSteps ==
  ASSUME DialogInv,
         Type \/ handleCancel \/ Dismiss \/ TransitionEnd \/ Mounted \/ Unmounted
           \/ Reloaded \/ (handleConfirm /\ resolver = None)
  PROVE  DialogInv' /\ Unrequested
  <1>1. DialogInv'
    <2>1. CASE Type
      BY <2>1 DEF DialogInv, DialogTypeOK, AsksForItsItem, Type
    <2>2. CASE handleCancel \/ Dismiss \/ TransitionEnd
      BY <2>2 DEF DialogInv, DialogTypeOK, AsksForItsItem, handleCancel, Dismiss,
                  TransitionEnd, hide, Stage
    <2>3. CASE Mounted \/ Unmounted \/ Reloaded
      BY <2>3 DEF DialogInv, DialogTypeOK, AsksForItsItem, Mounted, Unmounted, Reloaded, Stage
    <2>4. CASE handleConfirm
      BY <2>4 DEF DialogInv, DialogTypeOK, AsksForItsItem, handleConfirm, Watched, show,
                  hide, Stage
    <2> QED
      BY <2>1, <2>2, <2>3, <2>4
  <1>2. Unrequested
    <2>1. CASE Type
      BY <2>1 DEF Type, Unrequested, asked, Visible
    <2>2. CASE handleCancel
      BY <2>2 DEF handleCancel, Unrequested, asked, Visible
    <2>3. CASE Dismiss
      BY <2>3 DEF Dismiss, Enabled, hide, DialogInv, DialogTypeOK, Unrequested, asked, Visible
    <2>4. CASE TransitionEnd
      BY <2>4 DEF TransitionEnd, DialogInv, DialogTypeOK, Unrequested, asked, Visible
    <2>5. CASE Mounted \/ Unmounted \/ Reloaded
      BY <2>5 DEF Mounted, Unmounted, Reloaded, Unrequested, asked, Visible
    <2>6. CASE handleConfirm /\ resolver = None
      BY <2>6 DEF handleConfirm, Unrequested, asked, Visible
    <2> QED
      BY <2>1, <2>2, <2>3, <2>4, <2>5, <2>6
  <1> QED
    BY <1>1, <1>2

\* A deletion is requested for the client of the question, answered by its name.
LEMMA Approves ==
  ASSUME DialogInv, handleConfirm, resolver # None
  PROVE  /\ DialogInv'
         /\ asked = resolver /\ typed = resolver.name
         /\ asked' = None /\ typed' = typed
  <1>1. DialogInv'
    BY DEF DialogInv, DialogTypeOK, AsksForItsItem, handleConfirm, Watched, show, hide, Stage
  <1>2. asked = resolver /\ asked' = None /\ typed' = typed
    BY DEF handleConfirm, Enabled, asked, Visible
  <1>3. typed = resolver.name
    BY DEF handleConfirm, isMatch, DialogInv, AsksForItsItem
  <1> QED
    BY <1>1, <1>2, <1>3

LEMMA DialogStays ==
  ASSUME DialogInv, UNCHANGED dialogVars
  PROVE  DialogInv' /\ Unrequested
  BY DEF DialogInv, DialogTypeOK, AsksForItsItem, dialogVars, Unrequested, asked, Visible

-----------------------------------------------------------------------------
(* Steps of the page: what each does to the dialog, the rows and the history. *)

LEMMA RowsStep == IInv /\ [Next]_vars => setUp' \in List /\ view' \in Filter \X Query
  <1> SUFFICES ASSUME setUp \in List, view \in Filter \X Query, [Next]_vars
               PROVE  setUp' \in List /\ view' \in Filter \X Query
    BY DEF IInv, Asking
  <1>1. ASSUME UNCHANGED <<setUp, view>>
        PROVE  setUp' \in List /\ view' \in Filter \X Query
    BY <1>1
  <1>2. ASSUME NEW before \in List, view' \in Filter \X Query, NEW p, NEW l,
               setUp' = SetUp(before, p, l, view')
        PROVE  setUp' \in List
    BY <1>2, RowNames
  <1>3. CASE Tick \/ Answered \/ ConfirmDelete
    BY <1>3, <1>1 DEF Tick, Answered, ConfirmDelete, listVars
  <1>4. CASE LeaveList
    BY <1>4, NoRowsTyped DEF LeaveList
  <1>5. CASE EnterList
    <2>1. view' = view
      BY <1>5 DEF EnterList
    <2>2. setUp' \in {setUp, SetUp(NoRows, "list", list, view)}
      BY <1>5 DEF EnterList
    <2>3. SetUp(NoRows, "list", list, view) \in List
      BY NoRowsTyped, RowNames
    <2> QED
      BY <2>1, <2>2, <2>3
  <1>6. CASE Reload
    BY <1>6, NoRowsTyped, FirstViewTyped DEF Reload
  <1>7. CASE ChooseView
    <2>1. view' \in Filter \X Query /\ setUp' = SetUp(setUp, page, list, view')
      BY <1>7 DEF ChooseView
    <2> QED
      BY <2>1, <1>2
  <1>8. CASE Resize
    <2>1. view' = view /\ setUp' \in {setUp, SetUp(NoRows, page, list, view)}
      BY <1>8 DEF Resize
    <2>2. SetUp(NoRows, page, list, view) \in List
      BY NoRowsTyped, RowNames
    <2> QED
      BY <2>1, <2>2
  <1>9. ASSUME NEW c \in Client, AskDelete(c) \/ Elsewhere(c)
        PROVE  UNCHANGED <<setUp, view>>
    BY <1>9 DEF AskDelete, Elsewhere
  <1>10. ASSUME NEW f \in Fetch, ServeFetch(f) \/ RefuseFetch(f) \/ FetchFailed(f)
         PROVE  UNCHANGED <<setUp, view>>
    BY <1>10 DEF ServeFetch, RefuseFetch, FetchFailed
  <1>11. ASSUME NEW f \in Fetch, FetchAnswered(f)
         PROVE  setUp' \in List /\ view' \in Filter \X Query
    <2>1. view' = view /\ setUp' = SetUp(setUp, page', list', view)
      BY <1>11 DEF FetchAnswered
    <2>2. ASSUME NEW p, NEW l PROVE SetUp(setUp, p, l, view) \in List
      BY RowNames
    <2> QED
      BY <2>1, <2>2
  <1>12. ASSUME NEW f \in Fetch, FetchRefused(f)
         PROVE  setUp' \in List /\ view' \in Filter \X Query
    BY <1>12, NoRowsTyped DEF FetchRefused
  <1>13. ASSUME NEW o \in Op, ServeDelete(o) \/ RefuseDelete(o) \/ DeleteFailed(o) \/ LoseDelete(o)
         PROVE  UNCHANGED <<setUp, view>>
    BY <1>13 DEF ServeDelete, RefuseDelete, DeleteFailed, LoseDelete
  <1>14. ASSUME NEW o \in Op, DeleteAnswered(o)
         PROVE  setUp' \in List /\ view' \in Filter \X Query
    <2>1. view' = view /\ setUp' \in {setUp, SetUp(setUp, page, list', view)}
      BY <1>14 DEF DeleteAnswered
    <2>2. ASSUME NEW l PROVE SetUp(setUp, page, l, view) \in List
      BY RowNames
    <2> QED
      BY <2>1, <2>2
  <1>15. ASSUME NEW id \in 0..MaxEvents, remove(id) PROVE UNCHANGED <<setUp, view>>
    BY <1>15 DEF remove
  <1>16. CASE UNCHANGED vars
    BY <1>16, <1>1 DEF vars, listVars
  <1> QED
    BY <1>1, <1>3, <1>4, <1>5, <1>6, <1>7, <1>8, <1>9, <1>10, <1>11, <1>12, <1>13, <1>14,
       <1>15, <1>16 DEF Next, Arrives, Finishes

\* A step requests nothing and keeps the dialog as it promises, or it approves.
LEMMA DialogStep ==
  ASSUME IInv, [Next]_vars
  PROVE  /\ DialogInv'
         /\ \/ Unrequested /\ confirmed' = confirmed
            \/ /\ asked \in Item /\ typed = asked.name
               /\ confirmed' = [confirmed EXCEPT ![asked.client] = @ + 1]
               /\ asked' = None /\ typed' = typed
  <1>0. DialogInv /\ setUp \in List
    BY DEF IInv, Asking, DialogInv
  <1>1. CASE Tick \/ ChooseView \/ Resize
    BY <1>0, <1>1, DialogStays DEF Tick, ChooseView, Resize
  <1>2. CASE EnterList
    BY <1>0, <1>2, DialogStays, DialogSteps DEF EnterList
  <1>3. CASE LeaveList \/ Reload
    BY <1>0, <1>3, DialogSteps DEF LeaveList, Reload
  <1>4. CASE Answered
    BY <1>0, <1>4, DialogSteps DEF Answered, listVars
  <1>5. CASE ConfirmDelete
    <2>1. resolver # None /\ handleConfirm
          /\ confirmed' = [confirmed EXCEPT ![resolver.client] = @ + 1]
      BY <1>5 DEF ConfirmDelete
    <2>2. resolver \in Item
      BY <1>0, <2>1 DEF DialogInv, DialogTypeOK
    <2> QED
      BY <1>0, <2>1, <2>2, Approves
  <1>6. ASSUME NEW c \in Client, AskDelete(c)
        PROVE  DialogInv' /\ Unrequested /\ confirmed' = confirmed
    <2>1. setUp[c] # None /\ confirm([client |-> c, name |-> setUp[c]]) /\ confirmed' = confirmed
      BY <1>6 DEF AskDelete, MayDelete
    <2>2. [client |-> c, name |-> setUp[c]] \in Item
      BY <1>0, <2>1 DEF List, Item
    <2> QED
      BY <1>0, <2>1, <2>2, Confirms
  <1>7. ASSUME NEW c \in Client, Elsewhere(c)
        PROVE  DialogInv' /\ Unrequested /\ confirmed' = confirmed
    BY <1>0, <1>7, DialogStays DEF Elsewhere
  <1>8. ASSUME NEW f \in Fetch, Arrives(f) \/ RefuseFetch(f)
        PROVE  DialogInv' /\ Unrequested /\ confirmed' = confirmed
    <2>1. CASE ServeFetch(f) \/ RefuseFetch(f) \/ FetchFailed(f)
      BY <1>0, <2>1, DialogStays DEF ServeFetch, RefuseFetch, FetchFailed
    <2>2. CASE FetchAnswered(f)
      BY <1>0, <2>2, DialogStays, DialogSteps DEF FetchAnswered
    <2>3. CASE FetchRefused(f)
      BY <1>0, <2>3, DialogSteps DEF FetchRefused
    <2> QED
      BY <1>8, <2>1, <2>2, <2>3 DEF Arrives
  <1>9. ASSUME NEW o \in Op, Finishes(o) \/ LoseDelete(o)
        PROVE  DialogInv' /\ Unrequested /\ confirmed' = confirmed
    BY <1>0, <1>9, DialogStays
       DEF Finishes, ServeDelete, RefuseDelete, DeleteAnswered, DeleteFailed, LoseDelete
  <1>10. ASSUME NEW id \in 0..MaxEvents, remove(id)
         PROVE  DialogInv' /\ Unrequested /\ confirmed' = confirmed
    BY <1>0, <1>10, DialogStays DEF remove
  <1>11. CASE UNCHANGED vars
    BY <1>0, <1>11, DialogStays DEF vars, listVars
  <1> QED
    BY <1>1, <1>2, <1>3, <1>4, <1>5, <1>6, <1>7, <1>8, <1>9, <1>10, <1>11 DEF Next

LEMMA NextIInv == IInv /\ [Next]_vars => IInv'
  <1> SUFFICES ASSUME IInv, [Next]_vars PROVE IInv'
    OBVIOUS
  <1>1. ListsTyped' /\ setUp' \in List /\ view' \in Filter \X Query
    BY ListsStep, RowsStep
  <1>2. DialogInv'
    BY DialogStep
  <1>3. confirmed' \in [Client -> Nat]
    BY DialogStep DEF IInv, Asking, Item
  <1> QED
    BY <1>1, <1>2, <1>3 DEF IInv, Asking, DialogInv

LEMMA Invariance == Spec => []IInv
  BY InitIInv, NextIInv, PTL DEF Spec

-----------------------------------------------------------------------------
(* The messages. The store keeps three at most, so what its filter is made of  *)
(* is built up here in at most three steps.                                  *)

LEMMA WithoutSteps ==
  ASSUME NEW ms \in Seq(Message), Len(ms) <= 3, NEW id
  PROVE  \E kept :
           /\ kept = [i \in 0..Len(ms) |->
                        IF i = 0 THEN <<>>
                        ELSE IF ms[i].id # id THEN Append(kept[i - 1], ms[i]) ELSE kept[i - 1]]
           /\ Without(ms, id) = kept[Len(ms)]
  <1> DEFINE Add(s, i) == IF ms[i].id # id THEN Append(s, ms[i]) ELSE s
             Body(f) == [i \in 0..Len(ms) |->
                           IF i = 0 THEN <<>>
                           ELSE IF ms[i].id # id THEN Append(f[i - 1], ms[i]) ELSE f[i - 1]]
             k1 == Add(<<>>, 1)
             k2 == Add(k1, 2)
             k3 == Add(k2, 3)
             built == [i \in 0..Len(ms) |-> IF i = 0 THEN <<>> ELSE IF i = 1 THEN k1
                                            ELSE IF i = 2 THEN k2 ELSE k3]
  <1>1. built = Body(built)
    <2>1. ASSUME NEW i \in 0..Len(ms), i # 0
          PROVE  built[i] = Add(built[i - 1], i)
      <3>1. i \in 1..3 /\ i - 1 \in 0..Len(ms)
        BY <2>1
      <3>2. CASE i = 1
        <4>1. built[i] = k1 /\ built[i - 1] = <<>>
          BY <3>1, <3>2
        <4> QED
          BY <4>1, <3>2
      <3>3. CASE i = 2
        <4>1. built[i] = k2 /\ built[i - 1] = k1
          BY <3>1, <3>3
        <4> QED
          BY <4>1, <3>3
      <3>4. CASE i = 3
        <4>1. built[i] = k3 /\ built[i - 1] = k2
          BY <3>1, <3>4
        <4> QED
          BY <4>1, <3>4
      <3> QED
        BY <3>1, <3>2, <3>3, <3>4
    <2> HIDE DEF k1, k2, k3
    <2>2. \A i \in 0..Len(ms) : built[i] = Body(built)[i]
      BY <2>1
    <2> QED
      BY <2>2
  <1> HIDE DEF built
  <1> DEFINE kept == CHOOSE f : f = Body(f)
  <1>2. kept = Body(kept)
    BY <1>1
  <1>3. Without(ms, id) = kept[Len(ms)]
    BY DEF Without
  <1> QED
    BY <1>2, <1>3

LEMMA WithoutTyped ==
  ASSUME NEW ms \in Seq(Message), Len(ms) <= 3, NEW id
  PROVE  Without(ms, id) \in Seq(Message) /\ Len(Without(ms, id)) <= 3
  <1>1. PICK kept :
           /\ kept = [i \in 0..Len(ms) |->
                        IF i = 0 THEN <<>>
                        ELSE IF ms[i].id # id THEN Append(kept[i - 1], ms[i]) ELSE kept[i - 1]]
           /\ Without(ms, id) = kept[Len(ms)]
    BY WithoutSteps
  <1>2. kept[0] = <<>>
    BY <1>1
  <1>3. ASSUME NEW i \in 1..Len(ms), NEW s \in Seq(Message), kept[i - 1] = s
        PROVE  /\ kept[i] \in Seq(Message)
               /\ Len(kept[i]) <= Len(s) + 1
    <2>1. i \in 0..Len(ms) /\ i # 0
      OBVIOUS
    <2>2. kept[i] = IF ms[i].id # id THEN Append(s, ms[i]) ELSE s
      BY <1>1, <1>3, <2>1
    <2>3. ms[i] \in Message
      OBVIOUS
    <2>4. Append(s, ms[i]) \in Seq(Message) /\ Len(Append(s, ms[i])) = Len(s) + 1
      BY <2>3
    <2> QED
      BY <2>2, <2>4
  <1>4. Len(ms) >= 1 => kept[1] \in Seq(Message) /\ Len(kept[1]) <= 1
    <2> SUFFICES ASSUME Len(ms) >= 1 PROVE kept[1] \in Seq(Message) /\ Len(kept[1]) <= 1
      OBVIOUS
    <2>1. kept[0] \in Seq(Message) /\ Len(kept[0]) = 0
      BY <1>2
    <2>2. 1 \in 1..Len(ms) /\ 1 - 1 = 0
      OBVIOUS
    <2> QED
      BY <1>3, <2>1, <2>2
  <1>5. Len(ms) >= 2 => kept[2] \in Seq(Message) /\ Len(kept[2]) <= 2
    <2>1. Len(ms) >= 2 => 2 \in 1..Len(ms) /\ 2 - 1 = 1
      OBVIOUS
    <2> QED
      BY <1>4, <1>3, <2>1
  <1>6. Len(ms) >= 3 => kept[3] \in Seq(Message) /\ Len(kept[3]) <= 3
    <2>1. Len(ms) >= 3 => 3 \in 1..Len(ms) /\ 3 - 1 = 2
      OBVIOUS
    <2> QED
      BY <1>5, <1>3, <2>1
  <1> QED
    BY <1>1, <1>2, <1>4, <1>5, <1>6

LEMMA NoMessages == <<>> \in Seq(Message) /\ Len(<<>>) <= 3
  OBVIOUS

\* A message told is the newest of those kept.
LEMMA NotifyTyped ==
  ASSUME notifications \in Seq(Message), Len(notifications) <= 3, now \in 0..MaxEvents,
         NEW type \in {"success", "error"}, notify(type)
  PROVE  /\ notifications' \in Seq(Message) /\ Len(notifications') <= 3
         /\ notifications'[Len(notifications')].type = type
  <1> DEFINE new == [id |-> now, type |-> type]
             pushed == Append(notifications, new)
             from == IF Len(pushed) > 3 THEN Len(pushed) - 2 ELSE 1
  <1>1. new \in Message /\ new.type = type
    BY DEF Message
  <1> HIDE DEF new
  <1>2. /\ pushed \in Seq(Message) /\ Len(pushed) \in 1..4
        /\ pushed[Len(pushed)] = new
    BY <1>1
  <1>3. notifications' = SubSeq(pushed, from, Len(pushed))
    BY DEF notify, new
  <1> HIDE DEF pushed
  <1>4. from \in 1..Len(pushed) /\ Len(pushed) - from + 1 \in 1..3
    <2>1. ASSUME NEW n \in 1..3, Len(pushed) = n
          PROVE  from \in 1..Len(pushed) /\ Len(pushed) - from + 1 \in 1..3
      <3>1. ~(Len(pushed) > 3)
        BY <2>1
      <3>2. from = 1
        BY <3>1
      <3>3. 1 \in 1..n /\ n - 1 + 1 \in 1..3
        OBVIOUS
      <3> QED
        BY <2>1, <3>2, <3>3
    <2>2. CASE Len(pushed) = 4
      BY <2>2
    <2>3. Len(pushed) \in 1..3 \/ Len(pushed) = 4
      BY <1>2
    <2> QED
      BY <2>1, <2>2, <2>3
  <1> HIDE DEF from
  <1>5. ASSUME NEW n \in 1..3, n = Len(pushed) - from + 1
        PROVE  /\ SubSeq(pushed, from, Len(pushed)) \in Seq(Message)
               /\ Len(SubSeq(pushed, from, Len(pushed))) = n
               /\ SubSeq(pushed, from, Len(pushed))[n] = pushed[Len(pushed)]
    BY <1>2, <1>4, <1>5
  <1> QED
    BY <1>1, <1>2, <1>3, <1>4, <1>5

\* Messages get their ids from a clock that no step turns back.
MessagesTyped ==
    /\ notifications \in Seq(Message) /\ Len(notifications) <= 3
    /\ now \in 0..MaxEvents /\ events \in 0..MaxEvents
    /\ now <= events

LEMMA MessagesStay ==
  ASSUME MessagesTyped, UNCHANGED <<notifications, now, events>>
  PROVE  MessagesTyped'
  BY DEF MessagesTyped

LEMMA MessagesStep == MessagesTyped /\ [Next]_vars => MessagesTyped'
  <1> SUFFICES ASSUME MessagesTyped, [Next]_vars PROVE MessagesTyped'
    OBVIOUS
  <1>1. ASSUME Event, UNCHANGED <<notifications, now>> PROVE MessagesTyped'
    BY <1>1, BoundAssumption DEF Event, MessagesTyped
  <1>2. CASE EnterList \/ ChooseView \/ Resize
    BY <1>1, <1>2 DEF EnterList, ChooseView, Resize
  <1>3. CASE LeaveList \/ Answered \/ ConfirmDelete
    BY <1>3, MessagesStay DEF LeaveList, Answered, ConfirmDelete, listVars
  <1>4. CASE Tick
    BY <1>4, BoundAssumption DEF Tick, Event, MessagesTyped
  <1>5. CASE Reload
    BY <1>5, BoundAssumption, NoMessages DEF Reload, Event, MessagesTyped
  <1>6. ASSUME NEW c \in Client, AskDelete(c) \/ Elsewhere(c) PROVE MessagesTyped'
    BY <1>1, <1>6 DEF AskDelete, Elsewhere
  <1>7. ASSUME NEW f \in Fetch, Arrives(f) \/ RefuseFetch(f) PROVE MessagesTyped'
    BY <1>7, MessagesStay
       DEF Arrives, ServeFetch, FetchAnswered, FetchRefused, FetchFailed, RefuseFetch
  <1>8. ASSUME NEW o \in Op, ServeDelete(o) \/ RefuseDelete(o) \/ LoseDelete(o)
        PROVE  MessagesTyped'
    BY <1>8, MessagesStay DEF ServeDelete, RefuseDelete, LoseDelete
  <1>9. ASSUME NEW o \in Op, DeleteAnswered(o) \/ DeleteFailed(o) PROVE MessagesTyped'
    <2>1. /\ notify("success") \/ notify("error")
          /\ UNCHANGED <<now, events>>
      BY <1>9 DEF DeleteAnswered, DeleteFailed
    <2> QED
      BY <2>1, NotifyTyped DEF MessagesTyped
  <1>10. ASSUME NEW id \in 0..MaxEvents, remove(id) PROVE MessagesTyped'
    <2>1. notifications' = Without(notifications, id) /\ UNCHANGED <<now, events>>
      BY <1>10 DEF remove
    <2> QED
      BY <2>1, WithoutTyped DEF MessagesTyped
  <1>11. CASE UNCHANGED vars
    BY <1>11, MessagesStay DEF vars, listVars
  <1> QED
    BY <1>2, <1>3, <1>4, <1>5, <1>6, <1>7, <1>8, <1>9, <1>10, <1>11 DEF Next, Finishes

-----------------------------------------------------------------------------
(* What belongs to the page goes with it.                                    *)

PageTyped ==
    /\ page \in {"list", "blank", "login", "other"}
    /\ wide \in BOOLEAN
    /\ page # "list" => setUp = NoRows /\ stage = "unmounted"

LEMMA NoRowsOffPage == ASSUME NEW before, NEW p, p # "list", NEW l, NEW v
                       PROVE  SetUp(before, p, l, v) = NoRows
  BY DEF SetUp, Rows, NoRows

LEMMA PageStays ==
  ASSUME PageTyped, UNCHANGED <<page, wide, setUp, stage>>
  PROVE  PageTyped'
  BY DEF PageTyped

LEMMA PageStep == PageTyped /\ [Next]_vars => PageTyped'
  <1> SUFFICES ASSUME PageTyped, [Next]_vars PROVE PageTyped'
    OBVIOUS
  <1>1. CASE EnterList
    BY <1>1 DEF EnterList, PageTyped, dialogVars
  <1>2. CASE LeaveList
    BY <1>2 DEF LeaveList, Unmounted, PageTyped
  <1>3. CASE ChooseView
    BY <1>3 DEF ChooseView, PageTyped, dialogVars
  <1>4. CASE Resize
    BY <1>4 DEF Resize, PageTyped, dialogVars
  <1>5. CASE Reload
    BY <1>5 DEF Reload, Reloaded, PageTyped
  <1>6. CASE Answered \/ ConfirmDelete
    <2>1. stage = "unmounted" => stage' = "unmounted"
      BY <1>6 DEF Answered, ConfirmDelete, Type, handleCancel, Dismiss, TransitionEnd,
                  handleConfirm, Enabled, Visible
    <2>2. UNCHANGED <<page, wide, setUp>>
      BY <1>6 DEF Answered, ConfirmDelete, listVars
    <2> QED
      BY <2>1, <2>2 DEF PageTyped
  <1>7. ASSUME NEW c \in Client, AskDelete(c) PROVE PageTyped'
    BY <1>7 DEF AskDelete, PageTyped
  <1>8. ASSUME NEW f \in Fetch, FetchAnswered(f) PROVE PageTyped'
    <2>1. setUp' = SetUp(setUp, page', list', view) /\ wide' = wide
      BY <1>8 DEF FetchAnswered
    <2>2. CASE page = "blank"
      BY <1>8, <2>1, <2>2 DEF FetchAnswered, PageTyped
    <2>3. CASE page # "blank"
      <3>1. page' = page /\ stage' = stage
        BY <1>8, <2>3 DEF FetchAnswered, dialogVars
      <3> QED
        BY <2>1, <3>1, NoRowsOffPage DEF PageTyped
    <2> QED
      BY <2>2, <2>3
  <1>9. ASSUME NEW f \in Fetch, FetchRefused(f) PROVE PageTyped'
    BY <1>9 DEF FetchRefused, Unmounted, PageTyped
  <1>10. ASSUME NEW o \in Op, DeleteAnswered(o) PROVE PageTyped'
    BY <1>10 DEF DeleteAnswered, PageTyped, dialogVars
  <1>11. CASE Tick \/ UNCHANGED vars
    BY <1>11, PageStays DEF Tick, vars, listVars, dialogVars
  <1>12. ASSUME NEW c \in Client, Elsewhere(c) PROVE PageTyped'
    BY <1>12, PageStays DEF Elsewhere, dialogVars
  <1>13. ASSUME NEW f \in Fetch, ServeFetch(f) \/ RefuseFetch(f) \/ FetchFailed(f)
         PROVE  PageTyped'
    BY <1>13, PageStays DEF ServeFetch, RefuseFetch, FetchFailed, dialogVars
  <1>14. ASSUME NEW o \in Op, ServeDelete(o) \/ RefuseDelete(o) \/ DeleteFailed(o) \/ LoseDelete(o)
         PROVE  PageTyped'
    BY <1>14, PageStays DEF ServeDelete, RefuseDelete, DeleteFailed, LoseDelete, dialogVars
  <1>15. ASSUME NEW id \in 0..MaxEvents, remove(id) PROVE PageTyped'
    BY <1>15, PageStays DEF remove, dialogVars
  <1> QED
    BY <1>1, <1>2, <1>3, <1>4, <1>5, <1>6, <1>7, <1>8, <1>9, <1>10, <1>11, <1>12, <1>13,
       <1>14, <1>15 DEF Next, Arrives, Finishes

-----------------------------------------------------------------------------
(* The deletions in flight, and the history of what was confirmed and told.   *)

AwaitedIn(g, c) == {o \in Op : g[o].at # "idle" /\ g[o].client = c}

DeletionsTyped ==
    /\ op \in [Op -> [at : {"idle", "sent", "done", "refused", "failed"},
                      client : Client \cup {None}]]
    /\ \A o \in Op : op[o].at # "idle" => op[o].client \in Client
    /\ confirmed \in [Client -> Nat] /\ reported \in [Client -> Nat]

DeletionsInv == DeletionsTyped /\ DeletionsAccounted

LEMMA AwaitedFinite ==
  ASSUME NEW g, NEW c
  PROVE  IsFiniteSet(AwaitedIn(g, c)) /\ Cardinality(AwaitedIn(g, c)) \in Nat
  <1>1. AwaitedIn(g, c) \in SUBSET Op
    BY DEF AwaitedIn
  <1> QED
    BY <1>1, BoundAssumption, FS_Subset, FS_CardinalityType

\* Deletions that stay in flight are as many.
LEMMA DeletionsStay ==
  ASSUME DeletionsInv, UNCHANGED <<confirmed, reported>>,
         op' \in [Op -> [at : {"idle", "sent", "done", "refused", "failed"},
                        client : Client \cup {None}]],
         \A o \in Op : op'[o].client = op[o].client /\ (op'[o].at = "idle" <=> op[o].at = "idle")
  PROVE  DeletionsInv'
  <1>1. DeletionsTyped'
    BY DEF DeletionsInv, DeletionsTyped
  <1>2. \A c \in Client : AwaitedIn(op', c) = AwaitedIn(op, c)
    BY DEF AwaitedIn
  <1> QED
    BY <1>1, <1>2 DEF DeletionsInv, DeletionsAccounted, Awaited, AwaitedIn

\* One more is sent.
LEMMA DeletionSent ==
  ASSUME DeletionsInv, NEW o \in Op, NEW d \in Client, op[o].at = "idle",
         op' = [op EXCEPT ![o] = [at |-> "sent", client |-> d]],
         confirmed' = [confirmed EXCEPT ![d] = @ + 1], reported' = reported
  PROVE  DeletionsInv'
  <1>1. DeletionsTyped'
    BY DEF DeletionsInv, DeletionsTyped
  <1>2. ASSUME NEW c \in Client
        PROVE  confirmed'[c] = reported'[c] + Cardinality(AwaitedIn(op', c))
    <2>1. /\ confirmed[c] = reported[c] + Cardinality(AwaitedIn(op, c))
          /\ reported[c] \in Nat /\ confirmed[c] \in Nat
      BY DEF DeletionsInv, DeletionsAccounted, DeletionsTyped, Awaited, AwaitedIn
    <2>2. CASE c = d
      <3>1. o \notin AwaitedIn(op, d) /\ AwaitedIn(op', d) = AwaitedIn(op, d) \cup {o}
        BY DEF DeletionsInv, DeletionsTyped, AwaitedIn
      <3>2. Cardinality(AwaitedIn(op', d)) = Cardinality(AwaitedIn(op, d)) + 1
        BY <3>1, AwaitedFinite, FS_AddElement
      <3>3. confirmed'[d] = confirmed[d] + 1
        BY DEF DeletionsInv, DeletionsTyped
      <3> QED
        BY <2>1, <2>2, <3>2, <3>3, AwaitedFinite
    <2>3. CASE c # d
      <3>1. AwaitedIn(op', c) = AwaitedIn(op, c)
        BY <2>3 DEF DeletionsInv, DeletionsTyped, AwaitedIn
      <3>2. confirmed'[c] = confirmed[c]
        BY <2>3 DEF DeletionsInv, DeletionsTyped
      <3> QED
        BY <2>1, <3>1, <3>2
    <2> QED
      BY <2>2, <2>3
  <1> QED
    BY <1>1, <1>2 DEF DeletionsInv, DeletionsAccounted, Awaited, AwaitedIn

\* One is over, and told.
LEMMA DeletionTold ==
  ASSUME DeletionsInv, NEW o \in Op, op[o].at # "idle",
         op' = [op EXCEPT ![o] = IdleOp],
         reported' = [reported EXCEPT ![op[o].client] = @ + 1], confirmed' = confirmed
  PROVE  DeletionsInv'
  <1>1. DeletionsTyped'
    BY DEF DeletionsInv, DeletionsTyped, IdleOp
  <1>2. PICK d \in Client : d = op[o].client
    BY DEF DeletionsInv, DeletionsTyped
  <1>3. ASSUME NEW c \in Client
        PROVE  confirmed'[c] = reported'[c] + Cardinality(AwaitedIn(op', c))
    <2>1. /\ confirmed[c] = reported[c] + Cardinality(AwaitedIn(op, c))
          /\ reported[c] \in Nat /\ confirmed[c] \in Nat
      BY DEF DeletionsInv, DeletionsAccounted, DeletionsTyped, Awaited, AwaitedIn
    <2>2. CASE c = d
      <3>1. o \in AwaitedIn(op, d) /\ AwaitedIn(op', d) = AwaitedIn(op, d) \ {o}
        BY <1>2 DEF DeletionsInv, DeletionsTyped, AwaitedIn, IdleOp
      <3>2. Cardinality(AwaitedIn(op', d)) = Cardinality(AwaitedIn(op, d)) - 1
        BY <3>1, AwaitedFinite, FS_RemoveElement
      <3>3. reported'[d] = reported[d] + 1
        BY <1>2 DEF DeletionsInv, DeletionsTyped
      <3> QED
        BY <2>1, <2>2, <3>2, <3>3, AwaitedFinite
    <2>3. CASE c # d
      <3>1. AwaitedIn(op', c) = AwaitedIn(op, c)
        BY <1>2, <2>3 DEF DeletionsInv, DeletionsTyped, AwaitedIn, IdleOp
      <3>2. reported'[c] = reported[c]
        BY <1>2, <2>3 DEF DeletionsInv, DeletionsTyped
      <3> QED
        BY <2>1, <3>1, <3>2
    <2> QED
      BY <2>2, <2>3
  <1> QED
    BY <1>1, <1>3 DEF DeletionsInv, DeletionsAccounted, Awaited, AwaitedIn

\* None is left.
LEMMA DeletionsForgotten ==
  ASSUME NEW g, g = [o \in Op |-> IdleOp], NEW c
  PROVE  Cardinality(AwaitedIn(g, c)) = 0
  <1>1. AwaitedIn(g, c) = {}
    BY DEF AwaitedIn, IdleOp
  <1> QED
    BY <1>1, FS_EmptySet

LEMMA DeletionsStep == IInv /\ DeletionsInv /\ [Next]_vars => DeletionsInv'
  <1> SUFFICES ASSUME IInv, DeletionsInv, [Next]_vars PROVE DeletionsInv'
    OBVIOUS
  <1>1. ASSUME UNCHANGED <<op, confirmed, reported>> PROVE DeletionsInv'
    BY <1>1, DeletionsStay DEF DeletionsInv, DeletionsTyped
  <1>2. CASE EnterList \/ LeaveList \/ ChooseView \/ Resize \/ Tick \/ Answered \/ UNCHANGED vars
    BY <1>1, <1>2 DEF EnterList, LeaveList, ChooseView, Resize, Tick, Answered, vars, listVars
  <1>3. CASE ConfirmDelete
    <2>1. PICK o \in Op : /\ op[o].at = "idle"
                          /\ op' = [op EXCEPT ![o] = [at |-> "sent", client |-> resolver.client]]
      BY <1>3 DEF ConfirmDelete
    <2>2. /\ resolver.client \in Client /\ reported' = reported
          /\ confirmed' = [confirmed EXCEPT ![resolver.client] = @ + 1]
      BY <1>3 DEF ConfirmDelete, IInv, Asking, DialogTypeOK, Item
    <2>3. PICK d \in Client : d = resolver.client
      BY <2>2
    <2> QED
      BY <2>1, <2>2, <2>3, DeletionSent
  <1>4. CASE Reload
    <2>1. op' = [o \in Op |-> IdleOp] /\ reported' = confirmed /\ confirmed' = confirmed
      BY <1>4 DEF Reload
    <2>2. DeletionsTyped'
      BY <2>1 DEF DeletionsInv, DeletionsTyped, IdleOp
    <2>3. \A c \in Client : confirmed[c] \in Nat /\ Cardinality(AwaitedIn(op', c)) = 0
      BY <2>1, DeletionsForgotten DEF DeletionsInv, DeletionsTyped
    <2> QED
      BY <2>1, <2>2, <2>3 DEF DeletionsInv, DeletionsAccounted, Awaited, AwaitedIn
  <1>5. ASSUME NEW c \in Client, AskDelete(c) \/ Elsewhere(c) PROVE DeletionsInv'
    BY <1>1, <1>5 DEF AskDelete, Elsewhere
  <1>6. ASSUME NEW f \in Fetch, Arrives(f) \/ RefuseFetch(f) PROVE DeletionsInv'
    BY <1>1, <1>6
       DEF Arrives, ServeFetch, FetchAnswered, FetchRefused, FetchFailed, RefuseFetch
  <1>7. ASSUME NEW o \in Op, ServeDelete(o) \/ RefuseDelete(o) \/ LoseDelete(o)
        PROVE  DeletionsInv'
    <2>1. PICK at \in {"done", "refused", "failed"} : op' = [op EXCEPT ![o].at = at]
      BY <1>7 DEF ServeDelete, RefuseDelete, LoseDelete
    <2>2. op[o].at # "idle" /\ UNCHANGED <<confirmed, reported>>
      BY <1>7 DEF ServeDelete, RefuseDelete, LoseDelete
    <2>3. op' \in [Op -> [at : {"idle", "sent", "done", "refused", "failed"},
                         client : Client \cup {None}]]
      BY <2>1 DEF DeletionsInv, DeletionsTyped
    <2>4. \A p \in Op : op'[p].client = op[p].client /\ (op'[p].at = "idle" <=> op[p].at = "idle")
      BY <2>1, <2>2 DEF DeletionsInv, DeletionsTyped
    <2> QED
      BY <2>2, <2>3, <2>4, DeletionsStay
  <1>8. ASSUME NEW o \in Op, DeleteAnswered(o) \/ DeleteFailed(o) PROVE DeletionsInv'
    BY <1>8, DeletionTold DEF DeleteAnswered, DeleteFailed
  <1>9. ASSUME NEW id \in 0..MaxEvents, remove(id) PROVE DeletionsInv'
    BY <1>1, <1>9 DEF remove
  <1> QED
    BY <1>2, <1>3, <1>4, <1>5, <1>6, <1>7, <1>8, <1>9 DEF Next, Finishes

-----------------------------------------------------------------------------
(* The theorems.                                                            *)

LEMMA NextConfirms ==
  ASSUME IInv, [Next]_vars
  PROVE  Confirmed!Ask \/ Confirmed!Answer \/ Confirmed!Drop \/ Confirmed!Approve
  <1>1. CASE asked' \in Item /\ typed' \in {typed, NoText} /\ confirmed' = confirmed
    BY <1>1 DEF Confirmed!Ask, Confirmed!Question, Item, asked
  <1>2. CASE asked' = None /\ typed' \in {typed, NoText} /\ confirmed' = confirmed
    BY <1>2 DEF Confirmed!Drop, asked
  <1>3. CASE asked' = asked /\ typed' \in Name \cup {NoText} /\ confirmed' = confirmed
    BY <1>3 DEF Confirmed!Answer, asked
  <1>4. CASE /\ asked \in Item /\ typed = asked.name
             /\ confirmed' = [confirmed EXCEPT ![asked.client] = @ + 1]
             /\ asked' = None /\ typed' = typed
    BY <1>4, ItemAssumption DEF Confirmed!Approve, asked
  <1> QED
    BY <1>1, <1>2, <1>3, <1>4, DialogStep DEF Unrequested

\* A deletion is requested only for the client of the newest question, with its
\* name typed, once, and never for a question that is gone, in any order of the
\* clicks, the dialog's transitions, the page's comings and goings and the
\* answers of the host (stores/deleteModal.js:13-31,
\* components/modals/DeleteConfirmationModal.vue:27-49).
THEOREM DialogIsImplemented == Spec => ImplementsConfirmation
  <1>1. Init => Confirmed!Init
    BY DEF Init, DialogInit, Confirmed!Init, Visible
  <1>2. IInv /\ [Next]_vars => [Confirmed!Next]_(Confirmed!vars)
    BY NextConfirms DEF Confirmed!Next
  <1> QED
    BY <1>1, <1>2, Invariance, PTL DEF Spec, ImplementsConfirmation, Confirmed!Spec

\* The numbers above the list are those of the rows behind each choice of the
\* filter (stores/clients.js:28-62, components/clients/ClientListSummary.vue:1-85).
THEOREM SummaryIsRight == Spec => []SummaryMatchesFilters
  <1>1. ASSUME NEW l \in List
        PROVE  /\ stats(l).total = Cardinality(filteredClients(l, <<"all", Name>>))
               /\ stats(l).local = Cardinality(filteredClients(l, <<"local", Name>>))
               /\ stats(l).confidential = Cardinality(filteredClients(l, <<"confidential", Name>>))
               /\ stats(l).public = Cardinality(filteredClients(l, <<"public", Name>>))
    <2>1. \A c \in Client : l[c] # None => l[c] \in Name
      BY DEF List
    <2>2. {c \in Client : l[c] # None /\ TRUE} = filteredClients(l, <<"all", Name>>)
      BY <2>1 DEF filteredClients, Passes
    <2>3. {c \in Client : l[c] # None /\ l[c] \in Local} = filteredClients(l, <<"local", Name>>)
      BY <2>1 DEF filteredClients, Passes
    <2>4. {c \in Client : l[c] # None /\ c \in Confidential}
             = filteredClients(l, <<"confidential", Name>>)
      BY <2>1 DEF filteredClients, Passes
    <2>5. {c \in Client : l[c] # None /\ c \notin Confidential}
             = filteredClients(l, <<"public", Name>>)
      BY <2>1 DEF filteredClients, Passes
    <2> QED
      BY <2>2, <2>3, <2>4, <2>5, Zenon DEF stats
  <1>2. ListsTyped => SummaryMatchesFilters
    <2> SUFFICES ASSUME list \in List PROVE SummaryMatchesFilters
      BY DEF ListsTyped, SummaryMatchesFilters
    <2>1. ASSUME NEW n \in DOMAIN Summary(list, wide)
          PROVE  Summary(list, wide)[n] = stats(list)[n]
      BY DEF Summary
    <2>2. /\ stats(list)["total"] = stats(list).total
          /\ stats(list)["local"] = stats(list).local
          /\ stats(list)["confidential"] = stats(list).confidential
          /\ stats(list)["public"] = stats(list).public
      OBVIOUS
    <2>3. ASSUME NEW counted \in {<<"all", "total">>, <<"local", "local">>,
                                  <<"confidential", "confidential">>, <<"public", "public">>}
          PROVE  stats(list)[counted[2]]
                   = Cardinality(filteredClients(list, <<counted[1], Name>>))
      BY <1>1, <2>2, <2>3
    <2> QED
      BY <2>1, <2>3 DEF SummaryMatchesFilters
  <1> QED
    BY <1>2, Invariance, PTL DEF IInv

\* The page's state is inductive with that of the lists and of the dialog.
PageInv == IInv /\ MessagesTyped /\ PageTyped /\ DeletionsInv

LEMMA PageInvariance == Spec => []PageInv
  <1>1. Init => PageInv
    <2> SUFFICES ASSUME Init PROVE PageInv
      OBVIOUS
    <2>1. MessagesTyped
      BY BoundAssumption, NoMessages DEF Init, MessagesTyped
    <2>2. PageTyped
      BY DEF Init, DialogInit, PageTyped, NoRows
    <2>3. DeletionsTyped
      BY DEF Init, DeletionsTyped, IdleOp
    <2>4. \A c \in Client : confirmed[c] = 0 /\ reported[c] = 0
      BY DEF Init
    <2>5. ASSUME NEW c \in Client
          PROVE  confirmed[c] = reported[c] + Cardinality(Awaited(c))
      <3>1. Awaited(c) = {}
        BY DEF Init, Awaited, IdleOp
      <3> QED
        BY <2>4, <3>1, FS_EmptySet
    <2>6. DeletionsAccounted
      BY <2>5 DEF DeletionsAccounted
    <2> QED
      BY <2>1, <2>2, <2>3, <2>6, InitIInv DEF PageInv, DeletionsInv
  <1>2. PageInv /\ [Next]_vars => PageInv'
    BY NextIInv, MessagesStep, PageStep, DeletionsStep DEF PageInv
  <1> QED
    BY <1>1, <1>2, PTL DEF Spec

\* The state of the list page keeps its types, three messages at most, and
\* leaves nothing of the page behind when it is left (stores/clients.js:6-12,
\* stores/notifications.js:3-34, layouts/DefaultLayout.vue:7-22).
THEOREM TypeCorrect == Spec => []TypeOK
  <1>1. PageInv => TypeOK
    BY DEF PageInv, IInv, ListsTyped, Asking, MessagesTyped, PageTyped, DeletionsInv,
           DeletionsTyped, TypeOK
  <1> QED
    BY <1>1, PageInvariance, PTL

\* Every deletion a user confirmed is in flight, or was told once: none is lost
\* between the dialog, the request and the message, in any order of the answers
\* and of the pages (composables/useDeleteClient.js:10-24).
THEOREM NoDeletionLost == Spec => []DeletionsAccounted
  <1>1. PageInv => DeletionsAccounted
    BY DEF PageInv, DeletionsInv
  <1> QED
    BY <1>1, PageInvariance, PTL

\* A row leaves at the end of a deletion only after the host's success, and the
\* newest message says so (stores/clients.js:131-137, useDeleteClient.js:17-24).
THEOREM SuccessIsTold == Spec => RowsLeaveOnSuccess
  <1>1. ASSUME PageInv, [Next]_vars, NEW o \in Op, op[o].at # "idle", op'[o].at = "idle",
               notifications' # <<>>, list' # list
        PROVE  op[o].at = "done" /\ notifications'[Len(notifications')].type = "success"
    <2>1. op' # op
      BY <1>1
    <2>2. PICK p \in Op : DeleteAnswered(p)
      BY <1>1, <2>1 DEF Next, Arrives, Finishes, EnterList, LeaveList, ChooseView, Resize, Tick,
         Reload, Answered, ConfirmDelete, AskDelete, Elsewhere, ServeFetch, FetchAnswered,
         FetchRefused, FetchFailed, RefuseFetch, ServeDelete, RefuseDelete, LoseDelete,
         DeleteFailed, remove, vars, listVars
    <2>3. p = o
      BY <1>1, <2>2 DEF DeleteAnswered, PageInv, DeletionsInv, DeletionsTyped
    <2>4. op[o].at = "done" /\ list # Undefined
      BY <1>1, <2>2, <2>3 DEF DeleteAnswered
    <2>5. notify("success")
      BY <2>2, <2>3, <2>4 DEF DeleteAnswered
    <2> QED
      BY <1>1, <2>4, <2>5, NotifyTyped DEF PageInv, MessagesTyped
  <1>2. PageInv /\ [Next]_vars =>
          [\A o \in Op :
             (op[o].at # "idle" /\ op'[o].at = "idle" /\ notifications' # <<>> /\ list' # list)
               => op[o].at = "done" /\ notifications'[Len(notifications')].type = "success"]_vars
    BY <1>1
  <1> QED
    BY <1>2, PageInvariance, PTL DEF Spec, RowsLeaveOnSuccess
=============================================================================
