----------------------------- MODULE MCAccounts -----------------------------
(***************************************************************************)
(* Accounts for TLC: small amounts, and the symmetry of the sets of model  *)
(* values that no definition tells apart.                                  *)
(***************************************************************************)
EXTENDS Accounts, TLC

MCManualAmounts == {-1}

\* The buttons of the payments page.
MCApproveReject == {"approved", "rejected"}

Symmetry == Permutations(Workers) \cup Permutations(Customers)
OrderSymmetry == Symmetry \cup Permutations(Orders)

=============================================================================
