---------------------------- MODULE MCMailboxSync ----------------------------
(* Small instances of MailboxSync for TLC.                                  *)
EXTENDS MailboxSync, TLC

CONSTANTS w1, r1, g1, g2   \* a watcher, a rebuild and two generations

OnlyWatcher   == {w1}
OnlyRebuilder == {r1}
Nobody        == {}
OneId         == {g1}
TwoIds        == {g1, g2}
Synced        == {FALSE}   \* the store starts with a committed catalogue

Modern   == {[uidnext |-> TRUE, condstore |-> TRUE]}
Plain    == {[uidnext |-> TRUE, condstore |-> FALSE]}

(* Generation identifiers are fresh UUIDs: only their equality matters.     *)
GenSymmetry == Permutations(GenIds)
=============================================================================
