------------------------------ MODULE ClientList ------------------------------
(***************************************************************************)
(* The list page of the manager app: the client store's list and the fetches *)
(* and deletions in flight, the rows and the delete dialog, the summary and   *)
(* the filters, and the notifications. Other pages appear as "other", and     *)
(* the host's API as the registry it answers from.                          *)
(*                                                                         *)
(* The browser runs one thing at a time: an action is what runs from one     *)
(* await to the next, with the rendering that follows it.                   *)
(***************************************************************************)
EXTENDS DeleteDialog, FiniteSets, Sequences

CONSTANTS
    Static,       \* clients the host's configuration owns: canEdit is false
    Confidential, \* clients of type confidential; the others are public
    Local,        \* names with "LOCAL" in them
    Filter,       \* choices of the filter offered to the user in this instance
    Query,        \* sets of names a search text matches
    Undefined,    \* the list after an answer without a body
    Fetch,        \* bound: fetches in flight
    Op,           \* bound: deletions in flight
    MaxEvents     \* bound: what the user, the clock and others do, together

ASSUME ItemAssumption == None \notin Item /\ NoText \notin Name /\ None \notin Name
ASSUME ListAssumption == Undefined \notin [Client -> Name \cup {None}]
ASSUME ViewAssumption == "all" \in Filter /\ Name \in Query /\ Query \subseteq SUBSET Name
ASSUME BoundAssumption == IsFiniteSet(Op) /\ MaxEvents \in Nat

VARIABLES
    registered,    \* the host's clients: name, or None
    list,          \* the store's list: name per client, or Undefined
    view,          \* activeFilter and searchQuery
    page,          \* "list", "blank" (its rendering failed), "login" (without
                   \* notifications), "other"
    wide,          \* breakpoints.lg: table rows, else cards
    setUp,         \* the name each row was set up with, None without a row
    fetch,         \* the fetches in flight
    op,            \* the deletions in flight
    notifications, \* messages, oldest first
    now,           \* getTime()
    confirmed,     \* history: deletions the user confirmed, per client
    reported,      \* history: those reported, or forgotten in a reload
    events         \* events so far (bounded by MaxEvents)

listVars == <<registered, list, view, page, wide, setUp, fetch, op,
              notifications, now, confirmed, reported, events>>
vars == <<dialogVars, listVars>>

List == [Client -> Name \cup {None}]
IdleFetch == [at |-> "idle", answer |-> Undefined]
IdleOp == [at |-> "idle", client |-> None]

NoRows == [c \in Client |-> None]

Message == [id : 0..MaxEvents, type : {"success", "error"}]

TypeOK ==
    /\ DialogTypeOK
    /\ registered \in List
    /\ list \in List \cup {Undefined}
    /\ view \in Filter \X Query
    /\ wide \in BOOLEAN
    /\ page \in {"list", "blank", "login", "other"}
    /\ page # "list" => setUp = NoRows /\ stage = "unmounted"
    /\ setUp \in List
    /\ fetch \in [Fetch -> [at : {"idle", "sent", "read", "refused", "failed"},
                            answer : List \cup {Undefined}]]
    /\ op \in [Op -> [at : {"idle", "sent", "done", "refused", "failed"},
                      client : Client \cup {None}]]
    /\ notifications \in Seq(Message) /\ Len(notifications) <= 3
    /\ now \in 0..MaxEvents
    /\ confirmed \in [Client -> Nat] /\ reported \in [Client -> Nat]
    /\ events \in 0..MaxEvents

Init ==
    /\ DialogInit
    /\ registered \in List /\ \A c \in Static : registered[c] # None
    /\ list = [c \in Client |-> None]
    /\ view = <<"all", Name>>
    /\ page = "other"
    /\ wide \in BOOLEAN
    /\ setUp = [c \in Client |-> None]
    /\ fetch = [f \in Fetch |-> IdleFetch]
    /\ op = [o \in Op |-> IdleOp]
    /\ notifications = <<>>
    /\ now = 0
    /\ confirmed = [c \in Client |-> 0] /\ reported = [c \in Client |-> 0]
    /\ events = 0

Event == events < MaxEvents /\ events' = events + 1

-----------------------------------------------------------------------------
(* What is shown of a list.                                                 *)

Passes_CaseKept(filter, c, name) ==   \* mutant: a choice compared without toLowerCase
    CASE filter = "confidential" -> c \in Confidential
      [] filter = "local" -> name \in Local
      [] OTHER -> TRUE

\* The predicate of one choice of the filter.
Passes(filter, c, name) ==
    CASE filter = "confidential" -> c \in Confidential
      [] filter = "public" -> c \notin Confidential
      [] filter = "local" -> name \in Local
      [] OTHER -> TRUE

filteredClients(l, v) ==
    {c \in Client : l[c] # None /\ l[c] \in v[2] /\ Passes(v[1], c, l[c])}

stats(l) ==
    LET Count(P(_)) == Cardinality({c \in Client : l[c] # None /\ P(c)})
        total == Count(LAMBDA c : TRUE)
        local == Count(LAMBDA c : l[c] \in Local)
    IN [total |-> total, local |-> local, remote |-> total - local,
        confidential |-> Count(LAMBDA c : c \in Confidential),
        public |-> Count(LAMBDA c : c \notin Confidential)]

\* The numbers shown above the list: chips in a narrow window, and cards, which
\* add local and remote, in a wide one.
Summary(l, w) ==
    [n \in {"total", "confidential", "public"} \cup (IF w THEN {"local", "remote"} ELSE {})
       |-> stats(l)[n]]

\* The rows there are; no rows before, as after a change of layout, are set up
\* with the item shown, and rows kept go on with the item they were set up with.
Rows(p, l, v) == IF p = "list" THEN filteredClients(l, v) ELSE {}

SetUp(before, p, l, v) ==
    [c \in Client |-> IF c \notin Rows(p, l, v) THEN None
                      ELSE IF before[c] # None THEN before[c] ELSE l[c]]

-----------------------------------------------------------------------------
(* Notifications. pushSuccess and pushError take the time for an id.         *)

notify(type) ==
    LET pushed == Append(notifications, [id |-> now, type |-> type])
    IN notifications' = SubSeq(pushed, IF Len(pushed) > 3 THEN Len(pushed) - 2 ELSE 1, Len(pushed))

\* The messages with a toast: all, in a layout that has a container for them.
Toasts == IF page = "login" THEN {} ELSE {notifications[i].id : i \in DOMAIN notifications}

\* The messages of another id, in their order.
Without(messages, id) ==
    LET kept[i \in 0..Len(messages)] ==
          IF i = 0 THEN <<>>
          ELSE IF messages[i].id # id THEN Append(kept[i - 1], messages[i]) ELSE kept[i - 1]
    IN kept[Len(messages)]

remove_Kept(id) ==   \* mutant: the comparison is the wrong way round
    /\ id \in Toasts
    /\ notifications' = SelectSeq(notifications, LAMBDA m : m.id = id)
    /\ UNCHANGED <<dialogVars, registered, list, view, page, wide, setUp, fetch,
                   op, now, confirmed, reported, events>>

\* A toast was closed, or its delay is over.
remove(id) ==
    /\ id \in Toasts
    /\ notifications' = Without(notifications, id)
    /\ UNCHANGED <<dialogVars, registered, list, view, page, wide, setUp, fetch,
                   op, now, confirmed, reported, events>>

Tick ==
    /\ Event
    /\ now' = now + 1
    /\ UNCHANGED <<dialogVars, registered, list, view, page, wide, setUp, fetch,
                   op, notifications, confirmed, reported>>

-----------------------------------------------------------------------------
(* The page, and the fetches it starts when it is mounted.                   *)

\* The router's guard lets in only with a token, and what forgets the token
\* leaves the page: no request of this page lacks one. The view's rendering fails on
\* an undefined list; else ClientList is mounted and fetches.
EnterList ==
    /\ Event
    /\ page \in {"other", "login"}
    /\ IF list = Undefined
       THEN /\ page' = "blank"
            /\ UNCHANGED <<dialogVars, fetch, setUp>>
       ELSE /\ page' = "list"
            /\ Mounted
            /\ \E f \in Fetch :
                  /\ fetch[f].at = "idle"
                  /\ fetch' = [fetch EXCEPT ![f].at = "sent"]
            /\ setUp' = SetUp(NoRows, "list", list, view)
    /\ UNCHANGED <<registered, list, view, wide, op, notifications, now, confirmed, reported>>

LeaveList_RowsKept ==   \* mutant: what belongs to the page outlives it
    /\ page \in {"list", "blank"}
    /\ page' \in {"other", "login"}
    /\ UNCHANGED <<dialogVars, registered, list, view, wide, setUp, fetch, op,
                   notifications, now, confirmed, reported, events>>

LeaveList ==
    /\ page \in {"list", "blank"}
    /\ page' \in {"other", "login"}
    /\ Unmounted
    /\ setUp' = NoRows
    /\ UNCHANGED <<registered, list, view, wide, fetch, op, notifications, now,
                   confirmed, reported, events>>

\* The host answers from its registry, refuses the token, or fails.
ServeFetch(f) ==
    /\ fetch[f].at = "sent"
    /\ fetch' = [fetch EXCEPT ![f] =
          [at |-> "read", answer |-> registered]]
    /\ UNCHANGED <<dialogVars, registered, list, view, page, wide, setUp, op,
                   notifications, now, confirmed, reported, events>>

RefuseFetch(f) ==
    /\ fetch[f].at = "sent"
    /\ \E at \in {"refused", "failed"} : fetch' = [fetch EXCEPT ![f].at = at]
    /\ UNCHANGED <<dialogVars, registered, list, view, page, wide, setUp, op,
                   notifications, now, confirmed, reported, events>>

\* fetchClients after its await: whatever list comes, older or newer than the
\* one shown, replaces it. A page left blank is rendered, and fetches, then.
FetchAnswered(f) ==
    /\ fetch[f].at = "read"
    /\ list' = fetch[f].answer
    /\ IF page = "blank"
       THEN /\ page' = "list"
            /\ Mounted
            /\ fetch' = [fetch EXCEPT ![f] = [IdleFetch EXCEPT !.at = "sent"]]
       ELSE /\ fetch' = [fetch EXCEPT ![f] = IdleFetch]
            /\ UNCHANGED <<page, dialogVars>>
    /\ setUp' = SetUp(setUp, page', list', view)
    /\ UNCHANGED <<registered, view, wide, op, notifications, now, confirmed,
                   reported, events>>

\* A refused token: unauthorized() forgets the user and leaves the page, and
\* the list becomes undefined.
FetchRefused(f) ==
    /\ fetch[f].at = "refused"
    /\ fetch' = [fetch EXCEPT ![f] = IdleFetch]
    /\ list' = Undefined
    /\ page' = "other"
    /\ Unmounted
    /\ setUp' = NoRows
    /\ UNCHANGED <<registered, view, wide, op, notifications, now, confirmed, reported, events>>

\* No answer, or one without JSON: the exception leaves the list as it was.
FetchFailed(f) ==
    /\ fetch[f].at = "failed"
    /\ fetch' = [fetch EXCEPT ![f] = IdleFetch]
    /\ UNCHANGED <<dialogVars, registered, list, view, page, wide, setUp, op,
                   notifications, now, confirmed, reported, events>>

\* The filter, the search box, and the debounced width of the window.
ChooseView ==
    /\ Event
    /\ page = "list"
    /\ view' \in Filter \X Query /\ view' # view
    /\ setUp' = SetUp(setUp, page, list, view')
    /\ UNCHANGED <<dialogVars, registered, list, page, wide, fetch, op,
                   notifications, now, confirmed, reported>>

Resize ==
    /\ Event
    /\ wide' = ~wide
    /\ setUp' = IF page = "list" THEN SetUp(NoRows, page, list, view) ELSE setUp
    /\ UNCHANGED <<dialogVars, registered, list, view, page, fetch, op,
                   notifications, now, confirmed, reported>>

-----------------------------------------------------------------------------
(* Deleting.                                                                *)

\* Only the rows of the table look at canEdit; the cards offer Delete to all.
MayDelete(c) == setUp[c] # None /\ (wide => c \notin Static)

AskDelete(c) ==
    /\ page = "list"
    /\ MayDelete(c)
    /\ confirm([client |-> c, name |-> setUp[c]])
    /\ Event
    /\ UNCHANGED <<registered, list, view, page, wide, setUp, fetch, op,
                   notifications, now, confirmed, reported>>

Answered ==
    /\ \/ Type \/ handleCancel \/ Dismiss \/ TransitionEnd
       \/ handleConfirm /\ resolver = None
    /\ UNCHANGED listVars

\* deleteClient goes on with "yes".
ConfirmDelete ==
    /\ resolver # None
    /\ handleConfirm
    /\ confirmed' = [confirmed EXCEPT ![resolver.client] = @ + 1]
    /\ \E o \in Op :
          /\ op[o].at = "idle"
          /\ op' = [op EXCEPT ![o] = [at |-> "sent", client |-> resolver.client]]
    /\ UNCHANGED <<registered, list, view, page, wide, setUp, fetch, notifications, now,
                   reported, events>>

\* The host deletes, unless the client is one of the configuration's. Deleting
\* a client that is not there succeeds.
ServeDelete(o) ==
    /\ op[o].at = "sent"
    /\ op[o].client \notin Static
    /\ registered' = [registered EXCEPT ![op[o].client] = None]
    /\ op' = [op EXCEPT ![o].at = "done"]
    /\ UNCHANGED <<dialogVars, list, view, page, wide, setUp, fetch,
                   notifications, now, confirmed, reported, events>>

RefuseDelete(o) ==
    /\ op[o].at = "sent"
    /\ op' = [op EXCEPT ![o].at = "refused"]
    /\ UNCHANGED <<dialogVars, registered, list, view, page, wide, setUp, fetch,
                   notifications, now, confirmed, reported, events>>

\* The request or its answer is lost.
LoseDelete(o) ==
    /\ op[o].at \in {"sent", "done", "refused"}
    /\ op' = [op EXCEPT ![o].at = "failed"]
    /\ UNCHANGED <<dialogVars, registered, list, view, page, wide, setUp, fetch,
                   notifications, now, confirmed, reported, events>>

DeleteAnswered_Anyway(o) ==   \* mutant: the row goes whatever the host answers
    /\ op[o].at \in {"done", "refused"}
    /\ op' = [op EXCEPT ![o] = IdleOp]
    /\ list' = IF list # Undefined THEN [list EXCEPT ![op[o].client] = None] ELSE list
    /\ IF list = Undefined THEN notify("error") ELSE notify("success")
    /\ reported' = [reported EXCEPT ![op[o].client] = @ + 1]
    /\ setUp' = IF page = "list" THEN SetUp(setUp, page, list', view) ELSE setUp
    /\ UNCHANGED <<dialogVars, registered, view, page, wide, fetch, now, confirmed, events>>

\* deleteClient of the store and of the composable after the await: an answer
\* that is no success leaves the list, and is reported like a success; an
\* exception, of fetch or of an undefined list, is reported as an error.
DeleteAnswered(o) ==
    /\ op[o].at \in {"done", "refused"}
    /\ op' = [op EXCEPT ![o] = IdleOp]
    /\ list' = IF op[o].at = "done" /\ list # Undefined
               THEN [list EXCEPT ![op[o].client] = None] ELSE list
    /\ IF op[o].at = "done" /\ list = Undefined
       THEN notify("error") ELSE notify("success")
    /\ reported' = [reported EXCEPT ![op[o].client] = @ + 1]
    /\ setUp' = IF page = "list" THEN SetUp(setUp, page, list', view) ELSE setUp
    /\ UNCHANGED <<dialogVars, registered, view, page, wide, fetch, now, confirmed, events>>

DeleteFailed_Silent(o) ==   \* mutant: no catch around the await
    /\ op[o].at = "failed"
    /\ op' = [op EXCEPT ![o] = IdleOp]
    /\ UNCHANGED <<dialogVars, registered, list, view, page, wide, setUp, fetch,
                   notifications, now, confirmed, reported, events>>

DeleteFailed(o) ==
    /\ op[o].at = "failed"
    /\ op' = [op EXCEPT ![o] = IdleOp]
    /\ notify("error")
    /\ reported' = [reported EXCEPT ![op[o].client] = @ + 1]
    /\ UNCHANGED <<dialogVars, registered, list, view, page, wide, setUp, fetch,
                   now, confirmed, events>>

-----------------------------------------------------------------------------
(* Around the app.                                                          *)

\* Another administrator, or another tab, adds, renames or deletes a client.
Elsewhere(c) ==
    /\ Event
    /\ c \notin Static
    /\ registered' \in {[registered EXCEPT ![c] = n] : n \in Name \cup {None}}
    /\ UNCHANGED <<dialogVars, list, view, page, wide, setUp, fetch, op,
                   notifications, now, confirmed, reported>>

\* The tab is reloaded: every store, promise and request is gone.
Reload ==
    /\ Event
    /\ Reloaded
    /\ list' = [c \in Client |-> None]
    /\ view' = <<"all", Name>>
    /\ page' = "other"
    /\ setUp' = NoRows
    /\ fetch' = [f \in Fetch |-> IdleFetch]
    /\ op' = [o \in Op |-> IdleOp]
    /\ notifications' = <<>>
    /\ reported' = confirmed
    /\ UNCHANGED <<registered, wide, now, confirmed>>

Arrives(f) == ServeFetch(f) \/ FetchAnswered(f) \/ FetchRefused(f) \/ FetchFailed(f)
Finishes(o) == ServeDelete(o) \/ RefuseDelete(o) \/ DeleteAnswered(o) \/ DeleteFailed(o)

Next ==
    \/ EnterList \/ LeaveList \/ ChooseView \/ Resize \/ Tick \/ Reload
    \/ Answered \/ ConfirmDelete
    \/ \E c \in Client : AskDelete(c) \/ Elsewhere(c)
    \/ \E f \in Fetch : Arrives(f) \/ RefuseFetch(f)
    \/ \E o \in Op : Finishes(o) \/ LoseDelete(o)
    \/ \E id \in 0..MaxEvents : remove(id)

Spec == Init /\ [][Next]_vars

\* A request is answered or fails in the end, and a toast's delay passes.
FairSpec ==
    /\ Spec
    /\ \A o \in Op : WF_vars(Finishes(o))
    /\ WF_vars(\E id \in 0..MaxEvents : remove(id))

-----------------------------------------------------------------------------
(* Properties.                                                              *)

\* The dialog and its store, with the list that asks through them, do what a
\* dialog promises: a deletion is requested only for the client of the newest
\* question, only while the text typed is the name that question was asked
\* with, once for a question, and never for one whose dialog is gone, however
\* it was closed, left in a transition, asked over or taken away with its page
\* (stores/deleteModal.js:13-31, DeleteConfirmationModal.vue:27-49).
Confirmed == INSTANCE Confirmation WITH
    question <- IF Visible THEN resolver ELSE None, answer <- typed, requested <- confirmed

ImplementsConfirmation == Confirmed!Spec

\* Every confirmed deletion is reported in the end, whatever became of its
\* request, of the page and of the list meanwhile (useDeleteClient.js:17-24).
DeletionsReported ==
    \A c \in Client : confirmed[c] > reported[c] ~> confirmed[c] = reported[c]

\* No confirmed deletion is lost on the way or told twice: those the user is
\* still to hear of are those in flight for it, as many as they are, whatever the
\* answers, their order and the pages meanwhile (useDeleteClient.js:10-24).
Awaited(c) == {o \in Op : op[o].at # "idle" /\ op[o].client = c}

DeletionsAccounted ==
    \A c \in Client : confirmed[c] = reported[c] + Cardinality(Awaited(c))

\* The list and the message agree at the end of a deletion: a row leaves only
\* if the host deleted the client, and then the message says so; no row leaves
\* with a message of failure (clients.js:131-137, useDeleteClient.js:17-24).
RowsLeaveOnSuccess ==
    [][\A o \in Op :
         (op[o].at # "idle" /\ op'[o].at = "idle" /\ notifications' # <<>> /\ list' # list)
           => op[o].at = "done" /\ notifications'[Len(notifications')].type = "success"]_vars

\* No message stays for ever where messages are shown, also when two were given
\* the same id (notifications.js:24-26).
NotificationsEnd == notifications # <<>> ~> notifications = <<>> \/ page = "login"

\* The numbers of the summary are those of the rows each choice of the filter
\* shows: two sets of predicates, written apart (clients.js:28-62).
SummaryMatchesFilters ==
    list # Undefined =>
        \A counted \in {<<"all", "total">>, <<"local", "local">>,
                         <<"confidential", "confidential">>, <<"public", "public">>} :
            counted[2] \in DOMAIN Summary(list, wide) =>
                Summary(list, wide)[counted[2]]
                    = Cardinality(filteredClients(list, <<counted[1], Name>>))
=============================================================================
