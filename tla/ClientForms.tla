------------------------------ MODULE ClientForms ------------------------------
(***************************************************************************)
(* The pages of the manager app that add and update clients, with the         *)
(* session and the router they run under, the client store and the host's     *)
(* API: the new page and its secret dialog, the edit page and the loading of  *)
(* its client. A request goes on when its page is left; what its caller does  *)
(* after the await goes to the store, the router and the notifications all    *)
(* the same, and to the fields of a page that is gone.                       *)
(*                                                                         *)
(* A form's fields are its client id and "content", which stands for all      *)
(* other fields. An action is what runs from one await to the next.          *)
(***************************************************************************)
EXTENDS ManagerSession, FiniteSets

CONSTANTS
    Client,        \* client ids
    Content,       \* what the other fields of a client may hold
    Confidential,  \* contents with a client type other than public
    None,          \* "nothing"
    Existing,      \* clients registered when the tab is opened
    Slot,          \* bound: requests in flight
    MaxInputs,     \* bound: fillings and submissions of forms, together
    MaxEvents      \* bound: what else the user and others do, together

ASSUME FormsAssumption == None \notin Client \cup Content /\ Confidential \subseteq Content
ASSUME BoundAssumption == IsFiniteSet(Slot) /\ MaxInputs \in Nat /\ MaxEvents \in Nat

VARIABLES
    registered,  \* the host's clients
    listLost,    \* is the store's list undefined?
    draft,       \* emptyClient: one object, cached, in every form not loaded
    form,        \* what the edit page edits: "draft", "loaded" or "lost"
    loaded,      \* the client loaded by the edit page
    dialog,      \* what the secret dialog shows, or None
    request,     \* requests in flight
    submitted,   \* history: updates sent or ended without a request
    reported,    \* history: updates reported by a message
    message,     \* the newest message
    inputs,      \* inputs so far (bounded by MaxInputs)
    events       \* events so far (bounded by MaxEvents)

formVars == <<registered, listLost, draft, form, loaded, dialog, request, submitted,
              reported, message, inputs, events>>
vars == <<sessionVars, formVars>>

Fields == [id : Client \cup {None}, content : Content \cup {None}]
Blank == [id |-> None, content |-> None]

\* What the secret dialog shows and offers for download.
Dialog == [id : Client, secret : Client, content : Content \cup {None}]

Request ==
    [kind : {"none", "list", "load", "update", "add"},
     at : {"sent", "ok", "refused", "invalid", "duplicate", "failed"},
     body : Fields,           \* what was sent, or what a load answers
     sender : {"mounted", "left"}]   \* the page that sent it

NoRequest == [kind |-> "none", at |-> "sent", body |-> Blank, sender |-> "left"]

TypeOK ==
    /\ SessionTypeOK
    /\ registered \in [Client -> Content \cup {None}]
    /\ listLost \in BOOLEAN
    /\ draft \in Fields
    /\ form \in {"draft", "loaded", "lost"}
    /\ loaded \in Fields
    /\ dialog \in Dialog \cup {None}
    /\ page # "new-client" => dialog = None
    /\ request \in [Slot -> Request]
    /\ submitted \in Nat /\ reported \in Nat
    /\ message \in {"none", "success", "error"}
    /\ inputs \in 0..MaxInputs /\ events \in 0..MaxEvents

Init ==
    /\ SessionInit
    /\ registered \in [Client -> Content \cup {None}]
    /\ \A c \in Client : registered[c] # None <=> c \in Existing
    /\ listLost = FALSE
    /\ draft = Blank
    /\ form = "draft" /\ loaded = Blank
    /\ dialog = None
    /\ request = [s \in Slot |-> NoRequest]
    /\ submitted = 0 /\ reported = 0
    /\ message = "none"
    /\ inputs = 0 /\ events = 0

Input == inputs < MaxInputs /\ inputs' = inputs + 1 /\ UNCHANGED events
Event == events < MaxEvents /\ events' = events + 1 /\ UNCHANGED inputs

-----------------------------------------------------------------------------
(* Requests. Each is sent with the token of the moment, or not at all.       *)

Free(s) == request[s].kind = "none"

Sent(kind, body) == [kind |-> kind, at |-> "sent", body |-> body, sender |-> "mounted"]

\* The requests when the page they were sent by is left.
Orphaned == [s \in Slot |-> [request[s] EXCEPT !.sender = "left"]]

\* The host serves a request. A load may find no client, and answers without
\* a body then; an update of an id that is gone succeeds and changes nothing; a
\* body that does not hold is refused with errors; the id of another client is
\* answered by a success without a client.
Serve(s) ==
    LET r == request[s]
        Answer(at) == request' = [request EXCEPT ![s].at = at]
        complete == r.body.id # None /\ r.body.content # None
        Apply == registered' = [registered EXCEPT ![r.body.id] = r.body.content]
    IN /\ r.kind # "none" /\ r.at = "sent"
       /\ \/ r.kind = "list" /\ Answer("ok") /\ UNCHANGED registered
          \/ /\ r.kind = "load"
             /\ IF registered[r.body.id] = None THEN Answer("failed")
                ELSE request' = [request EXCEPT ![s].at = "ok",
                                                ![s].body.content = registered[r.body.id]]
             /\ UNCHANGED registered
          \/ /\ r.kind \in {"update", "add"} /\ ~complete
             /\ Answer(IF r.body.id = None /\ r.kind = "update" THEN "failed" ELSE "invalid")
             /\ UNCHANGED registered
          \/ /\ r.kind = "update" /\ complete
             /\ Answer("ok")
             /\ IF registered[r.body.id] # None THEN Apply ELSE UNCHANGED registered
          \/ /\ r.kind = "add" /\ complete
             /\ IF registered[r.body.id] = None THEN Answer("ok") /\ Apply
                ELSE Answer("duplicate") /\ UNCHANGED registered
       /\ UNCHANGED <<sessionVars, listLost, draft, form, loaded, dialog, submitted, reported,
                      message, inputs, events>>

\* The host refuses the token of a read, or a request fails or is lost, or its
\* answer is: nothing of JSON comes back.
Fail(s) ==
    /\ request[s].kind # "none"
    /\ \/ /\ request[s].at \in {"sent", "ok"}
          /\ request' = [request EXCEPT ![s].at = "failed"]
       \/ /\ request[s].at = "sent" /\ request[s].kind \in {"list", "load"}
          /\ request' = [request EXCEPT ![s].at = "refused"]
    /\ UNCHANGED <<sessionVars, registered, listLost, draft, form, loaded, dialog, submitted,
                   reported, message, inputs, events>>

Ends(s) == request' = [request EXCEPT ![s] = NoRequest]

-----------------------------------------------------------------------------
(* Pages.                                                                   *)

Enter_PageKept ==   \* mutant: pages left are kept alive
    /\ Arrived
    /\ UNCHANGED formVars

\* A page is shown: the one before is unmounted; the list fetches, unless its
\* rendering fails already; the edit page loads its client, and edits the draft
\* until that is there.
Enter ==
    /\ Arrived
    /\ \/ /\ page' = "clients" /\ ~listLost
          /\ \E s \in Slot : Free(s) /\ request' = [Orphaned EXCEPT ![s] = Sent("list", Blank)]
       \/ /\ page' = "edit-client"
          /\ \E s \in Slot, c \in Client :
                /\ Free(s)
                /\ request' = [Orphaned EXCEPT ![s] = Sent("load", [id |-> c, content |-> None])]
       \/ /\ page' \notin {"clients", "edit-client"} \/ (page' = "clients" /\ listLost)
          /\ request' = Orphaned
    /\ form' = "draft" /\ loaded' = Blank
    /\ dialog' = None
    /\ UNCHANGED <<registered, listLost, draft, submitted, reported, message, inputs, events>>

\* A button, a link or the browser's history.
Browse ==
    /\ page # "start"
    /\ Event
    /\ \E to \in Route \ {"missing", "AuthCallback", page} : push(to)
    /\ UNCHANGED <<registered, listLost, draft, form, loaded, dialog, request, submitted,
                   reported, message>>

ListAnswered(s) ==
    /\ request[s].kind = "list" /\ request[s].at \in {"ok", "refused", "failed"}
    /\ Ends(s)
    /\ IF request[s].at = "refused" THEN unauthorized ELSE UNCHANGED sessionVars
    /\ listLost' = CASE request[s].at = "ok" -> FALSE
                     [] request[s].at = "refused" -> TRUE
                     [] OTHER -> listLost
    /\ UNCHANGED <<registered, draft, form, loaded, dialog, submitted, reported, message,
                   inputs, events>>

\* fetchClientById and load: a refused token leaves no model to render.
LoadAnswered(s) ==
    /\ request[s].kind = "load" /\ request[s].at \in {"ok", "refused", "failed"}
    /\ Ends(s)
    /\ IF request[s].at = "refused" THEN unauthorized ELSE UNCHANGED sessionVars
    /\ IF request[s].sender = "mounted" /\ request[s].at # "failed"
       THEN /\ form' = IF request[s].at = "ok" THEN "loaded" ELSE "lost"
            /\ loaded' = IF request[s].at = "ok" THEN request[s].body ELSE Blank
       ELSE UNCHANGED <<form, loaded>>
    /\ UNCHANGED <<registered, listLost, draft, dialog, submitted, reported, message, inputs,
                   events>>

-----------------------------------------------------------------------------
(* The forms.                                                               *)

\* The inputs of ClientEdit are bound to the model; an edit page's id is
\* read-only. Before its client is loaded, the model is the new page's draft.
Fill ==
    /\ Input
    /\ \/ page = "new-client" /\ draft' \in Fields /\ UNCHANGED loaded
       \/ /\ page = "edit-client" /\ form = "draft"
          /\ draft' \in {[draft EXCEPT !.content = x] : x \in Content \cup {None}}
          /\ UNCHANGED loaded
       \/ /\ page = "edit-client" /\ form = "loaded"
          /\ loaded' \in {[loaded EXCEPT !.content = x] : x \in Content \cup {None}}
          /\ UNCHANGED draft
    /\ UNCHANGED <<sessionVars, registered, listLost, form, dialog, request, submitted, reported,
                   message>>

\* ClientEditView's save. Without a token there is no request, and no error.
SaveUpdate ==
    /\ Input
    /\ page = "edit-client" /\ form # "lost"
    /\ submitted' = submitted + 1
    /\ \/ /\ user
          /\ \E s \in Slot :
                /\ Free(s)
                /\ request' = [request EXCEPT ![s] =
                      Sent("update", IF form = "loaded" THEN loaded ELSE draft)]
          /\ UNCHANGED <<sessionVars, reported, message>>
       \/ /\ ~user
          /\ message' = "success"
          /\ reported' = reported + 1
          /\ push("clients")
          /\ UNCHANGED request
    /\ UNCHANGED <<registered, listLost, draft, form, loaded, dialog>>

UpdateSucceeded(s) ==
    /\ request[s].kind = "update" /\ request[s].at = "ok"
    /\ Ends(s)
    /\ message' = "success"
    /\ reported' = reported + 1
    /\ push("clients")
    /\ UNCHANGED <<registered, listLost, draft, form, loaded, dialog, submitted, inputs, events>>

UpdateFailed_Unseen(s) ==   \* mutant: the result's errors are not looked at
    /\ request[s].kind = "update" /\ request[s].at \in {"invalid", "failed"}
    /\ Ends(s)
    /\ message' = "success"
    /\ reported' = reported + 1
    /\ UNCHANGED <<sessionVars, registered, listLost, draft, form, loaded, dialog, submitted,
                   inputs, events>>

UpdateFailed_Silent(s) ==   \* mutant: no catch around the update
    /\ request[s].kind = "update" /\ request[s].at \in {"invalid", "failed"}
    /\ Ends(s)
    /\ UNCHANGED <<sessionVars, registered, listLost, draft, form, loaded, dialog, submitted,
                   reported, message, inputs, events>>

UpdateFailed(s) ==
    /\ request[s].kind = "update" /\ request[s].at \in {"invalid", "failed"}
    /\ Ends(s)
    /\ message' = "error"
    /\ reported' = reported + 1
    /\ UNCHANGED <<sessionVars, registered, listLost, draft, form, loaded, dialog, submitted,
                   inputs, events>>

\* ClientNewView's save, with a token; without one it ends in an exception.
SaveNew ==
    /\ Input
    /\ page = "new-client" /\ user
    /\ \E s \in Slot : Free(s) /\ request' = [request EXCEPT ![s] = Sent("add", draft)]
    /\ UNCHANGED <<sessionVars, registered, listLost, draft, form, loaded, dialog, submitted,
                   reported, message>>

Added_IdTyped(s) ==   \* mutant: the dialog takes the id, like the name, from the form
    /\ request[s].kind = "add" /\ request[s].at = "ok"
    /\ Ends(s)
    /\ message' = "success"
    /\ dialog' = IF /\ request[s].sender = "mounted" /\ draft.id # None
                    /\ request[s].body.content \in Confidential
                 THEN [id |-> draft.id, secret |-> request[s].body.id, content |-> draft.content]
                 ELSE dialog
    /\ UNCHANGED <<sessionVars, registered, listLost, draft, form, loaded, submitted, reported,
                   inputs, events>>

\* add and save after the await. The store appends to its list first; the
\* dialog takes id and secret from the answer, and the name from the form.
Added(s) ==
    /\ request[s].kind = "add" /\ request[s].at = "ok"
    /\ Ends(s)
    /\ IF listLost THEN UNCHANGED <<dialog, message>>
       ELSE /\ message' = "success"
            /\ dialog' = IF request[s].sender = "mounted" /\ request[s].body.content \in Confidential
                         THEN [id |-> request[s].body.id, secret |-> request[s].body.id,
                               content |-> draft.content]
                         ELSE dialog
    /\ UNCHANGED <<sessionVars, registered, listLost, draft, form, loaded, submitted, reported,
                   inputs, events>>

\* Errors of validation are shown; a taken id, and an answer without JSON, end
\* in an exception.
NotAdded(s) ==
    /\ request[s].kind = "add" /\ request[s].at \in {"invalid", "duplicate", "failed"}
    /\ Ends(s)
    /\ message' = IF request[s].at = "invalid" THEN "error" ELSE message
    /\ UNCHANGED <<sessionVars, registered, listLost, draft, form, loaded, dialog, submitted,
                   reported, inputs, events>>

\* "I have saved my Client Secret".
onModalClose ==
    /\ dialog # None
    /\ dialog' = None
    /\ push("clients")
    /\ UNCHANGED <<registered, listLost, draft, form, loaded, request, submitted, reported,
                   message, inputs, events>>

-----------------------------------------------------------------------------
(* The session's steps, and what goes on around the tab.                     *)

Navigating ==
    \/ \E ok \in BOOLEAN : CheckAnswered(ok) \/ StaleAnswered(ok)
    \/ NavigationFailed \/ StaleFailed
    \/ LoginCallback

Session == Navigating /\ UNCHANGED formVars

Renewal == StorageChanges /\ UNCHANGED formVars

Elsewhere(c) ==
    /\ Event
    /\ registered' \in {[registered EXCEPT ![c] = x] : x \in Content \cup {None}}
    /\ UNCHANGED <<sessionVars, listLost, draft, form, loaded, dialog, request, submitted,
                   reported, message>>

Reload ==
    /\ Event
    /\ Loaded
    /\ listLost' = FALSE
    /\ draft' = Blank /\ form' = "draft" /\ loaded' = Blank
    /\ dialog' = None
    /\ request' = [s \in Slot |-> NoRequest]
    /\ reported' = submitted
    /\ message' = "none"
    /\ UNCHANGED <<registered, submitted>>

Answered(s) ==
    ListAnswered(s) \/ LoadAnswered(s) \/ UpdateSucceeded(s) \/ UpdateFailed(s)
      \/ Added(s) \/ NotAdded(s)

Next ==
    \/ Session \/ Enter \/ Browse \/ Renewal \/ Reload
    \/ Fill \/ SaveUpdate \/ SaveNew \/ onModalClose
    \/ \E s \in Slot : Serve(s) \/ Fail(s) \/ Answered(s)
    \/ \E c \in Client : Elsewhere(c)

Spec == Init /\ [][Next]_vars

\* Requests are answered or fail, and the code of a page arrives or does not.
FairSpec ==
    /\ Spec
    /\ \A s \in Slot : WF_vars(Serve(s) \/ Answered(s))
    /\ WF_vars((Navigating /\ nav' # nav /\ UNCHANGED formVars) \/ Enter)

-----------------------------------------------------------------------------
(* Properties.                                                              *)

\* The dialog that shows a secret, once and for all, shows it beside the id of
\* the client it belongs to, whatever was typed or submitted while the answer
\* was on its way (ClientNewView.vue:43-57, ClientSecretModal.vue:35-71).
SecretMatchesClient == dialog # None => dialog.secret = dialog.id

Updates == {s \in Slot : request[s].kind = "update"}

\* Every report that an update was saved ends an update the host has answered so,
\* or is that of a form submitted without a token: put returns undefined then, no
\* request is sent, and save finds no errors (apiClient.js:41-45,
\* clients.js:92-101, ClientEditView.vue:30-37).
SavedMeansAnsweredOrUnsent ==
    [][reported' > reported /\ message' = "success"
         => \/ \E s \in Updates : request[s].at = "ok" /\ Updates' = Updates \ {s}
            \/ ~user /\ submitted' > submitted /\ Updates' = Updates]_vars

\* No update sent is left without a report or reported twice: those the user has
\* not heard of are in flight, as many as they are, whatever the tokens, the
\* answers, their order and the pages meanwhile. One that is not sent, for want of a
\* token, is reported at once (ClientEditView.vue:27-42).

UpdatesAccounted == submitted = reported + Cardinality(Updates)

\* Every update submitted is reported in the end, as saved or as failed, also
\* when its page is gone (ClientEditView.vue:27-42).
UpdatesAreReported == submitted > reported ~> submitted = reported
=============================================================================
