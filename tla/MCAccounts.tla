----------------------------- MODULE MCAccounts -----------------------------
(* Accounts with interchangeable addresses, organizations and requests.    *)
EXTENDS Accounts, TLC

Symmetry == Permutations(Users) \cup Permutations(Orgs) \cup Permutations(Requests)
=============================================================================
