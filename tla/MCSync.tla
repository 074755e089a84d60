------------------------------- MODULE MCSync -------------------------------
(***************************************************************************)
(* Three small instances of MailboxSync, checked side by side: a run       *)
(* begins in one of them and stays there.  The module's own constants are  *)
(* the widest of the three, so that its properties speak of all of them.   *)
(***************************************************************************)
EXTENDS MailboxSync

CONSTANTS w1, r1, g1, g2   \* a watcher, a rebuild and two generations

OneWatcher   == {w1}
OneRebuilder == {r1}
TwoIds       == {g1, g2}
Plain        == {[uidnext |-> TRUE, condstore |-> FALSE]}
Extremes     == {[uidnext |-> TRUE, condstore |-> TRUE],
                 [uidnext |-> FALSE, condstore |-> FALSE]}
AnyServer    == Plain \cup Extremes
Either       == BOOLEAN

VARIABLE instance

all == <<vars, instance>>

(* One UIDVALIDITY, faults, an empty or a synced store; workers exclude     *)
(* each other.  (A server with CONDSTORE may reject its use, and is then a  *)
(* plain one.)                                                              *)
Single == INSTANCE MailboxSync WITH
    MaxValidity <- 1, GenIds <- {g1}, Capabilities <- Extremes, Exclusive <- TRUE

(* The mailbox is recreated once.                                           *)
Replaced == INSTANCE MailboxSync WITH
    MaxFaults <- 0, GenIds <- {g1}, Capabilities <- Plain, Exclusive <- TRUE,
    StartFresh <- {FALSE}

(* The workers overlap, over at most one message.                           *)
Shared == INSTANCE MailboxSync WITH
    MaxValidity <- 1, MaxFaults <- 0, Capabilities <- Plain, Exclusive <- FALSE,
    StartFresh <- {FALSE}
OneMessage == srv.next <= 2

MCInit ==
    \/ instance = "single" /\ Single!Init
    \/ instance = "replaced" /\ Replaced!Init
    \/ instance = "shared" /\ Shared!Init /\ OneMessage

MCNext ==
    /\ UNCHANGED instance
    /\ \/ instance = "single" /\ Single!Next
       \/ instance = "replaced" /\ Replaced!Next
       \/ instance = "shared" /\ Shared!Next /\ OneMessage'

MCSpec == MCInit /\ [][MCNext]_all

(* A message moved away stays away, in a mailbox that is not recreated and  *)
(* with workers that exclude each other.                                    *)
MovedStaysAway == instance = "single" => MovedStaysGone

(* Workers that exclude each other lose no row of a live message, and no    *)
(* retry.                                                                   *)
LiveRowsKept    == [][instance # "shared" => LosesNoLiveRow]_vars
RetriesNotLost  == [][instance # "shared" => KeepsRetries]_vars
=============================================================================
