----------------------------- MODULE MCAccounts -----------------------------
(* Small instances of Accounts: two handlers at once, one film, browsers    *)
(* and users enough for lists to be merged and to be told apart.            *)
EXTENDS Accounts, TLC

Interchangeable ==
  Permutations(Browsers) \cup Permutations(Users) \cup Permutations(Ids)
  \cup Permutations(Tokens) \cup Permutations(Requests)
=============================================================================
