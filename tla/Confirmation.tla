----------------------------- MODULE Confirmation -----------------------------
(***************************************************************************)
(* What a delete dialog promises: one question at a time is open, naming one  *)
(* client; a deletion is requested only for the client of the open question,  *)
(* while the user's answer is the name asked for, and closes the question. A  *)
(* newer question, a refusal or a reload drops the open one for good.         *)
(***************************************************************************)
EXTENDS Naturals

CONSTANTS
    Client,   \* the clients a question may be about
    Name,     \* their display names
    None,     \* "no question"
    NoText    \* an answer not typed yet

VARIABLES
    question,   \* the open question, or None
    answer,     \* what the user has typed
    requested   \* how many deletions of each client were requested

vars == <<question, answer, requested>>

Question == [client : Client, name : Name]

TypeOK ==
    /\ question \in Question \cup {None}
    /\ answer \in Name \cup {NoText}
    /\ requested \in [Client -> Nat]

Init ==
    /\ question = None
    /\ answer = NoText
    /\ requested = [c \in Client |-> 0]

Ask ==
    /\ \E q \in Question : question' = q
    /\ answer' \in {answer, NoText}
    /\ UNCHANGED requested

Answer ==
    /\ answer' \in Name \cup {NoText}
    /\ UNCHANGED <<question, requested>>

Drop ==
    /\ question' = None
    /\ answer' \in {answer, NoText}
    /\ UNCHANGED requested

Approve ==
    /\ question # None
    /\ answer = question.name
    /\ requested' = [requested EXCEPT ![question.client] = @ + 1]
    /\ question' = None
    /\ UNCHANGED answer

Next == Ask \/ Answer \/ Drop \/ Approve

Spec == Init /\ [][Next]_vars
=============================================================================
