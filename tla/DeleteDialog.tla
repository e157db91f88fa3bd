----------------------------- MODULE DeleteDialog -----------------------------
(***************************************************************************)
(* The delete dialog of the manager app: the store that asks                 *)
(* (stores/deleteModal.js), the component that shows the question             *)
(* (components/modals/DeleteConfirmationModal.vue), the watcher that joins    *)
(* them (components/clients/ClientList.vue) and Bootstrap's modal, whose      *)
(* show() and hide() do nothing while it is in transition. The store outlives *)
(* the component, which is unmounted with the list page.                     *)
(*                                                                         *)
(* ClientList.tla composes this module with the list that asks and with the  *)
(* request that follows.                                                    *)
(***************************************************************************)
EXTENDS Naturals

CONSTANTS
    Client,   \* client ids
    Name,     \* display names
    None,     \* "nothing"
    NoText    \* the empty input

VARIABLES
    displayName,   \* the name the dialog asks for
    isOpen,        \* the store's flag
    resolver,      \* the item of the list whose deletion awaits the promise, or None
    stage,         \* of Bootstrap's modal
    typed,         \* confirmationInput
    isDeleting     \* the spinner, which disables the whole dialog

dialogVars == <<displayName, isOpen, resolver, stage, typed, isDeleting>>

Item == [client : Client, name : Name]

Stage == {"unmounted", "hidden", "showing", "shown", "hiding"}

DialogTypeOK ==
    /\ displayName \in Name \cup {NoText}
    /\ isOpen \in BOOLEAN
    /\ resolver \in Item \cup {None}
    /\ stage \in Stage
    /\ typed \in Name \cup {NoText}
    /\ isDeleting \in BOOLEAN

DialogInit ==
    /\ displayName = NoText
    /\ isOpen = FALSE
    /\ resolver = None
    /\ stage = "unmounted"
    /\ typed = NoText
    /\ isDeleting = FALSE

\* Bootstrap's modal: show() and hide() are ignored in transition.
show == IF stage = "hidden" THEN "showing" ELSE stage
hide == IF stage = "shown" THEN "hiding" ELSE stage

Visible == stage \in {"showing", "shown", "hiding"}

\* The watcher of isOpen fires when the flag changes.
Watched(open) == IF open = isOpen THEN stage ELSE IF open THEN show ELSE hide

\* The dialog can be used: its buttons and its input are disabled by the spinner.
Enabled == Visible /\ ~isDeleting

isMatch == typed = displayName

-----------------------------------------------------------------------------
(* The user and the browser.                                                *)

\* Delete was chosen on a row, which was set up for this item. The links stay
\* within the keyboard's reach until the focus trap of the shown dialog holds.
confirm(item) ==
    /\ stage \notin {"unmounted", "shown"}
    /\ displayName' = item.name
    /\ resolver' = item
    /\ isOpen' = TRUE
    /\ stage' = Watched(TRUE)
    /\ IF isOpen THEN UNCHANGED <<typed, isDeleting>>
       ELSE typed' = NoText /\ isDeleting' = FALSE

Type ==
    /\ Enabled
    /\ typed' \in Name \cup {NoText}
    /\ UNCHANGED <<displayName, isOpen, resolver, stage, isDeleting>>

\* The Cancel button: the store's promise ends with "no", and Bootstrap
\* dismisses the dialog.
handleCancel ==
    /\ Enabled
    /\ isOpen' = FALSE
    /\ resolver' = None
    /\ stage' = hide
    /\ UNCHANGED <<displayName, typed, isDeleting>>

\* The cross in the corner dismisses the dialog; the store is not told.
Dismiss ==
    /\ Enabled
    /\ stage' = hide
    /\ UNCHANGED <<displayName, isOpen, resolver, typed, isDeleting>>

handleConfirm_Unmatched ==   \* mutant: the name is not compared
    /\ Enabled
    /\ isDeleting' = TRUE
    /\ isOpen' = FALSE
    /\ stage' = Watched(FALSE)
    /\ resolver' = None
    /\ UNCHANGED <<displayName, typed>>

\* The Delete button, or Enter in the input. The promise ends with "yes": what
\* was waiting on it is the caller's part of the step. One that has ended
\* already stays as it ended.
handleConfirm ==
    /\ Enabled
    /\ isMatch
    /\ isDeleting' = TRUE
    /\ isOpen' = FALSE
    /\ stage' = Watched(FALSE)
    /\ resolver' = None
    /\ UNCHANGED <<displayName, typed>>

\* The end of a fade.
TransitionEnd ==
    /\ \/ stage = "showing" /\ stage' = "shown"
       \/ stage = "hiding" /\ stage' = "hidden"
    /\ UNCHANGED <<displayName, isOpen, resolver, typed, isDeleting>>

-----------------------------------------------------------------------------
(* With the page. A component set up anew starts with an empty input.        *)

Mounted ==
    /\ stage' = "hidden" /\ typed' = NoText /\ isDeleting' = FALSE
    /\ UNCHANGED <<displayName, isOpen, resolver>>

Unmounted ==
    /\ stage' = "unmounted" /\ typed' = NoText /\ isDeleting' = FALSE
    /\ UNCHANGED <<displayName, isOpen, resolver>>

Reloaded ==
    /\ displayName' = NoText /\ isOpen' = FALSE /\ resolver' = None
    /\ stage' = "unmounted" /\ typed' = NoText /\ isDeleting' = FALSE

\* The name shown, and compared with, is that of the item whose deletion awaits.
AsksForItsItem == resolver # None => displayName = resolver.name
=============================================================================
