---------------------------- MODULE MCMailRebuild ----------------------------
(* Small instances of MailRebuild for TLC.                                  *)
EXTENDS MailRebuild

CONSTANTS t1, t2

TwoTasks   == {t1, t2}
NoFaults   == {}
Everything == {"storage", "provider", "crash"}
Current    == {"none", "reset"}       \* jobs this version of the program stores
=============================================================================
