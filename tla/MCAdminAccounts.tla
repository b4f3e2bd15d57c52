-------------------------- MODULE MCAdminAccounts --------------------------
(* Small instances of AdminAccounts for TLC.                                *)
EXTENDS AdminAccounts, TLC

MCSymmetry == Permutations(Users) \cup Permutations(Tokens) \cup Permutations(Workers)
=============================================================================
