-------------------------- MODULE MCProfileUpgrade --------------------------
(***************************************************************************)
(* The profile of the first desktop, with two accounts of a message each,  *)
(* opened twice by one process and interrupted once.                       *)
(***************************************************************************)
EXTENDS ProfileUpgrade, TLC

CONSTANTS p, a1, a2, m1, m2

OneProcess  == {p}
TwoAccounts == {a1, a2}
TwoMessages == {m1, m2}
Owners      == m1 :> a1 @@ m2 :> a2
FirstDesktop == {"electron"}
=============================================================================
