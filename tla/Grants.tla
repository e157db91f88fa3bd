-------------------------------- MODULE Grants --------------------------------
(***************************************************************************)
(* What the token endpoint promises of scopes: a chain of grants begins with  *)
(* the scopes of its first, and everything issued in it later carries no      *)
(* more than something issued in it before.                                  *)
(***************************************************************************)
CONSTANTS Chain, Scope

VARIABLE issued   \* what was issued: chain and scopes

Issued == [chain : Chain, scopes : SUBSET Scope]

Init == issued = {}

\* The first grant of a chain.
Begin ==
    \E g \in Issued :
        /\ \A h \in issued : h.chain # g.chain
        /\ issued' = issued \cup {g}

\* A grant is exchanged; nothing new may come of it.
Derive ==
    \E g \in issued, scopes \in SUBSET Scope :
        /\ scopes \subseteq g.scopes
        /\ issued' = issued \cup {[chain |-> g.chain, scopes |-> scopes]}

Next == Begin \/ Derive

Spec == Init /\ [][Next]_issued
=============================================================================
