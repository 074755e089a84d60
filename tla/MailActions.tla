------------------------------ MODULE MailActions ------------------------------
(***************************************************************************)
(* Moving mail on the server: archive and its kin (apply_action), the      *)
(* permanent deletion, and the cleanup of everything a sender sent.  Each  *)
(* is a sequence of IMAP commands, any of which can be refused or lost,    *)
(* followed by a transaction on the catalogue.  The account's operation    *)
(* lock admits one at a time; another mail client, and the real-time       *)
(* watcher, which takes no such lock, run beside it.  The mail server and  *)
(* that client are external.                                               *)
(***************************************************************************)
EXTENDS Naturals, FiniteSets

CONSTANTS
    Msgs,         \* the messages, as whatever the server calls them
    Senders, Sender,
    Folders, Trash,
    Start,        \* which messages each folder holds at first
    MaxValidity,  \* bound: UIDVALIDITYs of a folder
    MaxOps,       \* bound: actions the user asks for
    MaxFaults,    \* bound: commands that are refused or lost
    MaxOthers     \* bound: what the other client does

MailActionsAssumption ==
    /\ IsFiniteSet(Msgs) /\ Trash \in Folders /\ Sender \in [Msgs -> Senders]
    /\ Start \in [Folders -> SUBSET Msgs]
    /\ \A m \in Msgs : \E f \in Folders : m \in Start[f]
    /\ {MaxValidity, MaxOps, MaxFaults, MaxOthers} \subseteq Nat

VARIABLES
    box,    \* server: folder -> its UIDVALIDITY, its UIDNEXT and what it holds
    cat,    \* catalogue: folder -> the UIDVALIDITY it was read under, its rows
    tombs,  \* mailbox_action_tombstones
    op,     \* the operation that has the account
    used,   \* how much of each bound is used
    doomed  \* history: what somebody meant to delete

vars == <<box, cat, tombs, op, used, doomed>>

Idle == [kind |-> "none", at |-> "idle", f |-> Trash, uid |-> 0, msg |-> {},
         want |-> 0, val |-> 0, dest |-> 0, uidplus |-> TRUE, move |-> TRUE, left |-> {},
         todo |-> {}, moved |-> {}, failed |-> {}, hit |-> {}]

(* The numbering a server gives the messages it holds. *)
Numberings(ms) == {n \in [ms -> 1..Cardinality(ms)] : \A x, y \in ms : n[x] = n[y] => x = y}
Holding(val, n) == [val |-> val, next |-> Cardinality(DOMAIN n) + 1,
                    held |-> {[uid |-> n[m], msg |-> m, del |-> "no"] : m \in DOMAIN n}]
Rows(held)      == {[uid |-> e.uid, msg |-> e.msg] : e \in held}

Init ==
    /\ box = [f \in Folders |-> Holding(1, CHOOSE n \in Numberings(Start[f]) : TRUE)]
    /\ cat = [f \in Folders |-> [val |-> 1, rows |-> Rows(box[f].held)]]
    /\ tombs = {} /\ op = Idle /\ doomed = {}
    /\ used = [ops |-> 0, faults |-> 0, others |-> 0]

Uses(what, max) == used[what] < max /\ used' = [used EXCEPT ![what] = @ + 1]
Asking(kinds, at) == op.kind \in kinds /\ op.at = at
Go(at)  == op' = [op EXCEPT !.at = at]
Here    == {e \in box[op.f].held : e.uid = op.uid}
Put(f, held) == box' = [box EXCEPT ![f].held = held]
Marked(d)    == (box[op.f].held \ Here) \cup {[e EXCEPT !.del = d] : e \in Here}

-----------------------------------------------------------------------------
(* How an operation ends, or goes on to the next message of a cleanup *)

(* apply_mailbox_action reports the error; a cleanup counts the message and *)
(* goes on, though not over a connection that is gone.                      *)
GivenUp(lost) ==
    IF op.kind # "cleanup"
    THEN [op EXCEPT !.at = "failed"]
    ELSE [op EXCEPT !.at = IF lost THEN "done" ELSE "pick",
            !.todo = IF lost THEN {} ELSE @,
            !.failed = @ \cup {[f |-> op.f, uid |-> op.uid, val |-> op.val]}
                         \cup (IF lost THEN op.todo ELSE {})]

(* A command: it succeeds and does what it says; the server refuses it; or  *)
(* the connection is lost, before the server acted or after.                *)
Command(did, then, refused) ==
    \/ did /\ op' = then /\ UNCHANGED used
    \/ Uses("faults", MaxFaults) /\ op' = refused /\ UNCHANGED <<box, doomed>>
    \/ Uses("faults", MaxFaults) /\ (did \/ UNCHANGED <<box, doomed>>)
         /\ op' = [GivenUp(TRUE) EXCEPT !.hit = then.hit]

-----------------------------------------------------------------------------
(* The user asks *)

(* apply_mailbox_action: the interface names a mailbox and a UID; the user  *)
(* may think about a permanent deletion, and the account may be busy.       *)
Ask(kind, f, r) ==
    /\ op.at = "idle" /\ Uses("ops", MaxOps)
    /\ kind = "move" => f # Trash
    /\ op' = [Idle EXCEPT !.kind = kind, !.at = "asked", !.f = f, !.uid = r.uid, !.msg = {r.msg}]
    /\ UNCHANGED <<box, cat, tombs, doomed>>

(* trash_messages_from_sender *)
AskCleanup(s) ==
    /\ op.at = "idle" /\ Uses("ops", MaxOps)
    /\ op' = [Idle EXCEPT !.kind = "cleanup", !.at = "asked",
                          !.msg = {m \in Msgs : Sender[m] = s}]
    /\ UNCHANGED <<box, cat, tombs, doomed>>

(* require_permanent_delete_locator *)
Located(f, uid) == \E r \in cat[f].rows : r.uid = uid

(* With the lock: a deletion needs its row, UIDPLUS and the catalogue's     *)
(* UIDVALIDITY; a move needs none of them.                                  *)
Begin ==
    /\ op.at = "asked"
    /\ \E plus, mv \in BOOLEAN :
          op' = [op EXCEPT !.uidplus = plus, !.move = mv,
                   !.left = IF op.kind = "cleanup" THEN Folders \ {Trash} ELSE {},
                   !.want = IF op.kind = "delete" THEN cat[op.f].val ELSE 0,
                   !.at = CASE op.kind = "cleanup" -> "discover"
                            [] op.kind = "move" -> "select"
                            [] OTHER -> IF Located(op.f, op.uid) /\ plus THEN "select" ELSE "failed"]
    /\ UNCHANGED <<box, cat, tombs, used, doomed>>

-----------------------------------------------------------------------------
(* trash_messages_from_sender_with_client: discovery *)

(* Each received mailbox is selected, must be the catalogued one, and is    *)
(* searched; Trash is not a received mailbox.                               *)
Discover(f) ==
    LET found == {[f |-> f, uid |-> e.uid, val |-> box[f].val] :
                     e \in {x \in box[f].held : x.msg \in op.msg}}
    IN /\ Asking({"cleanup"}, "discover") /\ f \in op.left
       /\ Command(UNCHANGED <<box, doomed>>,
             IF box[f].val # cat[f].val THEN [op EXCEPT !.at = "failed"]
             ELSE [op EXCEPT !.left = @ \ {f}, !.todo = @ \cup found,
                             !.at = IF op.left = {f} THEN "pick" ELSE "discover"],
             [op EXCEPT !.at = "failed"])
       /\ UNCHANGED <<cat, tombs>>

(* The candidates are moved one after the other. *)
Pick ==
    /\ Asking({"cleanup"}, "pick")
    /\ IF op.todo = {} THEN Go("done")
       ELSE \E c \in op.todo :
              op' = [op EXCEPT !.at = "select", !.f = c.f, !.uid = c.uid, !.want = c.val,
                               !.dest = 0, !.todo = @ \ {c}]
    /\ UNCHANGED <<box, cat, tombs, used, doomed>>

-----------------------------------------------------------------------------
(* The commands of one message *)

(* Mutant: the mailbox is taken for the one that was searched. *)
AnyIdentity == TRUE

(* verify_mailbox_uid_validity; a plain move has no expectation. *)
SameIdentity == op.want \in {0, box[op.f].val}

(* Also against the catalogue, for a message of a cleanup. *)
Catalogued == op.kind = "cleanup" => cat[op.f].val \in {0, op.want}

Select ==
    /\ Asking({"move", "delete", "cleanup"}, "select")
    /\ Command(UNCHANGED <<box, doomed>>,
          IF ~SameIdentity \/ ~Catalogued THEN GivenUp(FALSE)
          ELSE [op EXCEPT !.val = box[op.f].val,
                  !.at = IF op.kind = "delete" THEN "store"
                         ELSE IF op.move THEN "move" ELSE "nomove"],
          GivenUp(FALSE))
    /\ UNCHANGED <<cat, tombs>>

Hit == op.hit \cup {e.msg : e \in Here}

(* The message gets the destination's next UID, which COPYUID tells. *)
Arrived == [box[Trash] EXCEPT !.next = @ + Cardinality(Here),
              !.held = @ \cup {[uid |-> box[Trash].next, msg |-> e.msg, del |-> "no"] : e \in Here}]
CopyUid == IF op.uidplus /\ Here # {} THEN box[Trash].next ELSE 0

(* UID MOVE; of a UID that is gone it moves nothing, and succeeds. *)
Move ==
    /\ op.at = "move"
    /\ Command(/\ box' = [box EXCEPT ![Trash] = Arrived, ![op.f].held = @ \ Here]
               /\ UNCHANGED doomed,
          [op EXCEPT !.at = "commit", !.dest = CopyUid, !.hit = Hit],
          [op EXCEPT !.at = "nomove"])
    /\ UNCHANGED <<cat, tombs>>

(* Without MOVE: COPY, \Deleted and EXPUNGE; a cleanup insists on UIDPLUS.  *)
NoMove ==
    /\ op.at = "nomove"
    /\ op' = IF op.kind = "cleanup" /\ ~op.uidplus THEN GivenUp(FALSE) ELSE [op EXCEPT !.at = "copy"]
    /\ UNCHANGED <<box, cat, tombs, used, doomed>>

(* Mutant: a refused COPY is not noticed. *)
CopyAnyway == [op EXCEPT !.at = "store"]

CopyRefused == GivenUp(FALSE)

Copy ==
    /\ op.at = "copy"
    /\ Command(box' = [box EXCEPT ![Trash] = Arrived] /\ UNCHANGED doomed,
          [op EXCEPT !.at = "store", !.dest = CopyUid, !.hit = Hit], CopyRefused)
    /\ UNCHANGED <<cat, tombs>>

(* Mutant: the fallback stops at the mark. *)
MarkedIsGone == "commit"

AfterStore == "expunge"

(* UID STORE +FLAGS (\Deleted) *)
Store ==
    /\ op.at = "store"
    /\ Command(/\ Put(op.f, Marked("us"))
               /\ doomed' = IF op.kind = "delete" THEN doomed \cup {e.msg : e \in Here} ELSE doomed,
          [op EXCEPT !.at = AfterStore, !.hit = Hit], GivenUp(FALSE))
    /\ UNCHANGED <<cat, tombs>>

(* A plain move expunges the folder, whoever marked what; the others expunge *)
(* one UID, and on a refusal take the mark back.                            *)
Expunged ==
    {e \in box[op.f].held : e.del # "no" /\ (op.kind = "move" \/ e.uid = op.uid)}

ExpungeRefused == IF op.kind = "move" THEN GivenUp(FALSE) ELSE [op EXCEPT !.at = "unmark"]

Expunge ==
    /\ op.at = "expunge"
    /\ Command(Put(op.f, box[op.f].held \ Expunged) /\ UNCHANGED doomed,
          [op EXCEPT !.at = "commit"], ExpungeRefused)
    /\ UNCHANGED <<cat, tombs>>

Unmark ==
    /\ op.at = "unmark"
    /\ Command(Put(op.f, Marked("no")) /\ UNCHANGED doomed, GivenUp(FALSE), GivenUp(FALSE))
    /\ UNCHANGED <<cat, tombs>>

(* move_message and move_messages_to_destination: the tombstone, and the row *)
(* goes to its new locator, or away when that is not known.                 *)
Commit ==
    LET row  == {r \in cat[op.f].rows : r.uid = op.uid}
        here == [uid |-> op.uid, f |-> op.f, val |-> op.val]
        gone == [cat EXCEPT ![op.f].rows = @ \ row]
    IN /\ op.at = "commit"
       /\ tombs' = tombs \cup {<<op.f, op.uid>>}
       /\ cat' = IF op.dest = 0 \/ op.kind = "delete" THEN gone
                 ELSE [gone EXCEPT ![Trash].rows =
                          {r \in @ : r.uid # op.dest \/ (op.kind = "cleanup" /\ row = {})}
                            \cup {[uid |-> op.dest, msg |-> r.msg] : r \in row}]
       /\ op' = [op EXCEPT !.at = IF op.kind = "cleanup" THEN "pick" ELSE "done",
                           !.moved = @ \cup {here}]
       /\ UNCHANGED <<box, used, doomed>>

(* The result is shown; the account is free. *)
End ==
    /\ op.at \in {"done", "failed"} /\ op' = Idle
    /\ UNCHANGED <<box, cat, tombs, used, doomed>>

-----------------------------------------------------------------------------
(* The watcher, the other client and the server *)

(* A cycle of the real-time watcher, as a whole (MailboxSync has its steps): *)
(* another UIDVALIDITY replaces the rows and clears the tombstones.          *)
Sync(f) ==
    LET new == box[f].val # cat[f].val
        old == IF new THEN {} ELSE {t \in tombs : t[1] = f}
    IN /\ cat' = [cat EXCEPT ![f] = [val |-> box[f].val,
                    rows |-> {r \in Rows(box[f].held) : <<f, r.uid>> \notin old}]]
       /\ tombs' = IF new THEN {t \in tombs : t[1] # f} ELSE tombs
       /\ UNCHANGED <<box, op, used, doomed>>

(* The other client marks a message deleted. *)
Mark(f, e) ==
    /\ e.del = "no" /\ Uses("others", MaxOthers)
    /\ Put(f, (box[f].held \ {e}) \cup {[e EXCEPT !.del = "other"]})
    /\ doomed' = doomed \cup {e.msg}
    /\ UNCHANGED <<cat, tombs, op>>

(* It expunges a folder. *)
Compact(f) ==
    /\ \E e \in box[f].held : e.del # "no"
    /\ Uses("others", MaxOthers)
    /\ Put(f, {e \in box[f].held : e.del = "no"})
    /\ UNCHANGED <<cat, tombs, op, doomed>>

(* The folder is recreated: its messages are numbered anew.  The UIDVALIDITY *)
(* of a mailbox does not change while a session has it selected.            *)
Recreate(f) ==
    /\ box[f].val < MaxValidity
    /\ op.f # f \/ op.at \notin {"move", "nomove", "copy", "store", "expunge", "unmark"}
    /\ \E n \in Numberings({e.msg : e \in box[f].held}) :
          box' = [box EXCEPT ![f] = Holding(box[f].val + 1, n)]
    /\ UNCHANGED <<cat, tombs, op, used, doomed>>

Next ==
    \/ \E f \in Folders : \E r \in cat[f].rows : \E k \in {"move", "delete"} : Ask(k, f, r)
    \/ \E s \in Senders : AskCleanup(s)
    \/ Begin \/ (\E f \in Folders : Discover(f)) \/ Pick \/ Select \/ Move \/ NoMove \/ Copy
    \/ Store \/ Expunge \/ Unmark \/ Commit \/ End
    \/ \E f \in Folders : Sync(f) \/ Compact(f) \/ Recreate(f) \/ \E e \in box[f].held : Mark(f, e)

Spec == Init /\ [][Next]_vars

-----------------------------------------------------------------------------
(* Properties *)

(* Whatever is refused or lost, a message nobody meant to delete is in some *)
(* folder: the copy is made before the mark (apply_action_with_client,      *)
(* move_selected_message_to_trash).                                         *)
NothingLost ==
    \A m \in Msgs \ doomed : \E f \in Folders : \E e \in box[f].held : e.msg = m

(* A cleanup only ever touches mail of its sender, though mailboxes change  *)
(* between the discovery and the moves (trash_messages_from_sender).        *)
CleanupHitsSender == op.kind = "cleanup" => op.hit \subseteq op.msg

(* What an action reports as moved or deleted is out of its folder, on the  *)
(* server and in the catalogue, though a watcher reads the folder all along *)
(* (apply_mailbox_action).                                                  *)
DoneMeansGone ==
    op.at \in {"done", "pick"} => \A c \in op.moved :
       /\ box[c.f].val = c.val => \A e \in box[c.f].held : e.uid # c.uid
       /\ cat[c.f].val = c.val => \A r \in cat[c.f].rows : r.uid # c.uid
=============================================================================
