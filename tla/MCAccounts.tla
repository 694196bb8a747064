----------------------------- MODULE MCAccounts ------------------------------
(* Small instances of Accounts: one or two admins, one worker of the first, *)
(* one join code, and a company admin code good for one account, which two  *)
(* registrations with addresses of their own race for; where there are two  *)
(* such codes, the first is good for two.                                   *)
EXTENDS Accounts, TLC

CONSTANTS w1, k1, k2, a1

MCManager == w1 :> a1
MCUses == k1 :> 1
MCTwoUses == (k1 :> 2) @@ (k2 :> 1)

Symmetry == Permutations(Requests) \cup Permutations(Emails)
=============================================================================
