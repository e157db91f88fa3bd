----------------------------- MODULE MCUserClaims -----------------------------
(* An instance of UserClaims for TLC: one subject at two identity providers. *)
EXTENDS UserClaims, TLC

CONSTANTS s1, github, google, name, plan, bio, v1, v2, l1, l2

Said(type, value) == [type |-> type, value |-> value]

(* The first user's logins differ in the name and in the stored claims, and  *)
(* one of them says a claim type twice.                                      *)
PrincipalsOf ==
    {[user |-> <<s1, github>>,
      claims |-> <<Said(name, v1), Said(plan, v1), Said(plan, v2)>>],
     [user |-> <<s1, github>>,
      claims |-> <<Said(plan, v2), Said(name, v2), Said(bio, v1)>>],
     [user |-> <<s1, google>>,
      claims |-> <<Said(bio, v2), Said(name, v1), Said(name, v2)>>]}

LoginSymmetry == Permutations(Login)
=============================================================================
