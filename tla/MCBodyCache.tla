----------------------------- MODULE MCBodyCache -----------------------------
(* Small instances of BodyCache for TLC.                                    *)
EXTENDS BodyCache

CONSTANTS a, b, r1, w1   \* two ids, a window and a warmer

TwoIds    == {a, b}
JustA     == {a}
OneReader == {r1}
OneWarmer == {w1}

(* Two bodies do not fit together; a third one does not fit at all.         *)
SomeSizes == [n \in 0..MaxBody |-> IF n = 0 THEN 0 ELSE IF n < 3 THEN 1 ELSE 2]
=============================================================================
