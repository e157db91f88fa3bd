----------------------------- MODULE MCClientList -----------------------------
(* Instances of ClientList for TLC: a client of the configuration and one of *)
(* the administrators, two names, and one or two requests of each kind.      *)
EXTENDS ClientList

CONSTANTS s, e, n1, n2

Names == {n1, n2}
Searches == {Names}

\* remove's filter keeps what JavaScript's would, of any three messages.
ASSUME WithoutSelects ==
    \A n \in 0..3 : \A messages \in [1..n -> Message], id \in 0..MaxEvents :
        Without(messages, id) = SelectSeq(messages, LAMBDA m : m.id # id)
=============================================================================
