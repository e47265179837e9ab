----------------------------- MODULE MCAccounts -----------------------------
(* Instances of Accounts for TLC. *)
EXTENDS Accounts

CONSTANTS ann, bob, secret, other, endless, s1, s2, n1, n2
=============================================================================
