----------------------------- MODULE MCAccounts -----------------------------
(* Small instances of the accounts for TLC.                                *)
EXTENDS Accounts, TLC

CONSTANTS u1, u2, n1, n2, g1, g2

(* Ranks that a single win can change, unlike the code's 10 and more.      *)
OneWinARank == <<0, 1>>

AccountSymmetry == Permutations(Users) \cup Permutations(Names) \cup Permutations(Goroutines)
=============================================================================
