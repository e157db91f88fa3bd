---------------------------- MODULE UserDirectory ----------------------------
(***************************************************************************)
(* What the identity provider promises the readers of userinfo: the answer    *)
(* for a user changes only while a login of that user is under way, never      *)
(* back to "unknown"; and when a login comes to its end that no other of its   *)
(* user overlapped, the answer is what this login said, and stays so until     *)
(* the user's next login begins, whatever happens to others' logins, in         *)
(* failures and in restarts.                                                *)
(***************************************************************************)
CONSTANTS
    User,        \* users of the external identity providers
    Principal,   \* what logins may say, each of one user
    None,        \* "no login"
    Answer,      \* what a reader may be answered
    Unknown,     \* the answer for a user nobody has heard of
    Says         \* the answer that is what a principal says

VARIABLES
    answer,      \* per user, what a reader is answered
    settled,     \* per user, the login the answer can be relied on to repeat
    active       \* the users with logins under way

vars == <<answer, settled, active>>

TypeOK ==
    /\ answer \in [User -> Answer]
    /\ settled \in [User -> Principal \cup {None}]
    /\ active \subseteq User

Init ==
    /\ answer = [u \in User |-> Unknown]
    /\ settled = [u \in User |-> None]
    /\ active = {}

Begin ==
    \E u \in User :
        /\ active' = active \cup {u}
        /\ settled' = [settled EXCEPT ![u] = None]

\* A login writes; what readers see meanwhile may be anything.
Write ==
    \E u \in active :
        /\ settled[u] = None
        /\ answer' \in [User -> Answer]
        /\ answer'[u] # Unknown
        /\ \A w \in User \ {u} : answer'[w] = answer[w]
        /\ UNCHANGED <<settled, active>>

\* The end of a login that ran alone.
Settle ==
    \E p \in Principal :
        /\ p.user \in active
        /\ active' = active \ {p.user}
        /\ settled' = [settled EXCEPT ![p.user] = p]
        /\ answer[p.user] = Says[p]

\* Logins end without a word: they fail, others of their users overlapped them,
\* or the process ends.
End ==
    /\ active' \subseteq active
    /\ UNCHANGED settled

(* Only what a login writes changes an answer. *)
Next ==
    \/ UNCHANGED answer /\ (Begin \/ Settle \/ End)
    \/ Write

Spec == Init /\ [][Next]_vars
=============================================================================
