----------------------------- MODULE MCAccounts -----------------------------
(* Requests are interchangeable, and so are the addresses.                 *)
EXTENDS Accounts, TLC

Symmetric == Permutations(Requests) \union Permutations(Emails)
=============================================================================
