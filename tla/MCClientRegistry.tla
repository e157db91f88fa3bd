--------------------------- MODULE MCClientRegistry ---------------------------
(* Instances of ClientRegistry for TLC. *)
EXTENDS ClientRegistry, TLC

CONSTANTS c1, c2, n1, n2, r1, r2, p0, p1

(* c1 is configured as a public client, c2 as a confidential one. *)
EntryOf == (c1 :> [name |-> n1, type |-> "public"]) @@
           (c2 :> [name |-> n2, type |-> "confidential"])

(* Two forms under one name: a public client, and a confidential client of  *)
(* the client-credentials flow.                                             *)
FormsOf ==
    {[id |-> c1, name |-> n2, type |-> "public", flow |-> "code"],
     [id |-> c2, name |-> n2, type |-> "confidential", flow |-> "credentials"]}

(* The manager app hides the client type when it shows the credentials      *)
(* flow, and submits it unset.                                              *)
HiddenTypeForms ==
    {[id |-> c2, name |-> n2, type |-> "unset", flow |-> "credentials"]}

RequestSymmetry == Permutations(Request)
=============================================================================
