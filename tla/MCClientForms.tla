---------------------------- MODULE MCClientForms ----------------------------
(* Instances of ClientForms for TLC: two clients, a confidential and a public *)
(* content, and two requests in flight.                                      *)
EXTENDS ClientForms

CONSTANTS a, b, x, y
=============================================================================
