------------------------------ MODULE MCVaultKey ------------------------------
(* Small instances of VaultKey for TLC.                                     *)
EXTENDS VaultKey

CONSTANTS p, q   \* two processes

TwoProcesses == {p, q}
NoHardLinks  == {FALSE}
DeadHolders  == {"dead"}   \* nobody alive is ever taken for dead
=============================================================================
