------------------------------ MODULE Catalogue ------------------------------
(***************************************************************************)
(* What the registry promises of its documents, whoever writes: a document   *)
(* is registered under a client id once, keeps that id as long as it stands,  *)
(* and never comes back once removed; ids stay unique from the day the unique *)
(* index is built; tokens are stored for standing documents only, and taken   *)
(* away only once their document is gone.                                   *)
(***************************************************************************)
CONSTANTS
    ObjectId,    \* the identities of documents
    ClientId     \* what documents are registered under

VARIABLES
    documents,   \* the documents that stand: an identity and a client id each
    issued,      \* the identities given so far
    tokens,      \* the documents with tokens
    unique       \* has the unique index been built?

vars == <<documents, issued, tokens, unique>>

Document == [oid : ObjectId, id : ClientId]

Standing == {d.oid : d \in documents}

Init ==
    /\ documents = {}
    /\ issued = {}
    /\ tokens = {}
    /\ unique = FALSE

Register ==
    \E d \in documents' \ documents :
        /\ d \in Document /\ d.oid \notin issued
        /\ unique => \A e \in documents : e.id # d.id
        /\ documents' = documents \cup {d}
        /\ issued' = issued \cup {d.oid}
        /\ UNCHANGED <<tokens, unique>>

Remove ==
    \E d \in documents :
        /\ documents' = documents \ {d}
        /\ UNCHANGED <<issued, tokens, unique>>

Issue ==
    \E oid \in Standing :
        /\ tokens' = tokens \cup {oid}
        /\ UNCHANGED <<documents, issued, unique>>

Purge ==
    \E oid \in tokens \ Standing :
        /\ tokens' = tokens \ {oid}
        /\ UNCHANGED <<documents, issued, unique>>

BuildIndex ==
    /\ \A d, e \in documents : d.id = e.id => d = e
    /\ unique' = TRUE
    /\ UNCHANGED <<documents, issued, tokens>>

Next == Register \/ Remove \/ Issue \/ Purge \/ BuildIndex

Spec == Init /\ [][Next]_vars
=============================================================================
