----------------------------- MODULE MCAccounts -----------------------------
(* One account of an address after another, a command and a reader.         *)
EXTENDS Accounts

CONSTANTS a, b, t1, r1

TwoIds     == {a, b}
OneCommand == {t1}
OneReader  == {r1}
=============================================================================
