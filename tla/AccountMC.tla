----------------------------- MODULE AccountMC -----------------------------
(* Values for model checking TenantAccount.                                *)
EXTENDS TenantAccount, TLC
CONSTANTS p1, p2, p3, p4, t1, t2, t3, r1, r2, r3
Symmetry == Permutations(Tokens) \cup Permutations(Passwords \ {First})
=============================================================================
