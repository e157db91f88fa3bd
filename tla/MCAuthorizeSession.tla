-------------------------- MODULE MCAuthorizeSession --------------------------
(* Instances of AuthorizeSession for TLC: one browser with two tabs.        *)
EXTENDS AuthorizeSession

CONSTANTS t1, t2, u1, u2
=============================================================================
