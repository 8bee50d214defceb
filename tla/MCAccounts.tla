----------------------------- MODULE MCAccounts -----------------------------
(* Accounts on small sets of ids, which are interchangeable. *)
EXTENDS Accounts, TLC

MCSymmetry ==
    Permutations(Account) \cup Permutations(Name) \cup Permutations(Key)
=============================================================================
