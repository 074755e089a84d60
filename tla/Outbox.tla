-------------------------------- MODULE Outbox --------------------------------
(***************************************************************************)
(* Sending mail, and acting on a message's unsubscribe header.  A          *)
(* submission is a sequence of SMTP commands under one deadline; until the *)
(* message itself is transmitted a failure means that nobody got it, after *)
(* that the relay may have taken it without telling.  Then a copy is saved *)
(* in the Sent folder, unless the provider does so.  The relay, the IMAP   *)
(* server, the unsubscribe service and the user are external.              *)
(***************************************************************************)
EXTENDS Naturals, FiniteSets

CONSTANTS
    Drafts,      \* messages the user composes
    Mails,       \* received messages to unsubscribe from
    Recipients,  \* of each draft (a mailto request has one)
    RowKind,     \* mail -> the kind of unsubscribe action the row has
    HeaderKind,  \* mail -> the kind its header has when it is fetched again
    Saves,       \* what is sent through smtp.gmail.com, which saves a copy
    MaxTries,    \* bound: attempts of the user
    MaxFaults    \* bound: failures

Items == Drafts \cup Mails
Kinds == {"one_click", "web", "mailto", "malformed", "none"}

OutboxAssumption ==
    /\ Drafts \cap Mails = {} /\ IsFiniteSet(Recipients) /\ Recipients # {}
    /\ RowKind \in [Mails -> Kinds] /\ HeaderKind \in [Mails -> Kinds] /\ Saves \subseteq Items
    /\ MaxTries \in Nat /\ MaxFaults \in Nat

VARIABLES
    relay,   \* item -> recipient -> how often the relay took it for delivery
    sentbox, \* item -> its copies in the Sent folder
    posted,  \* mail -> how often its one-click service was called
    task,    \* item -> where it is, what it was told
    tries,   \* item -> how often the user asked
    faults

vars == <<relay, sentbox, posted, task, tries, faults>>

(* Where an attempt ends, or has not begun. *)
Rests == {"idle", "sent", "unsaved", "uncertain", "failed", "opened", "done"}

Idle == [at |-> "idle", left |-> {}, to |-> {}, kind |-> "none", fresh |-> FALSE]

Init ==
    /\ relay = [i \in Items |-> [r \in Recipients |-> 0]]
    /\ sentbox = [i \in Items |-> 0]
    /\ posted = [m \in Mails |-> 0]
    /\ task = [i \in Items |-> Idle]
    /\ tries = [i \in Items |-> 0]
    /\ faults = 0

At(i, at)  == task[i].at = at
Go(i, at)  == task' = [task EXCEPT ![i].at = at]
Fault      == faults < MaxFaults /\ faults' = faults + 1
Outside    == <<relay, sentbox, posted>>

(* The account's operation lock admits one attempt at a time. *)
LockFree == \A i \in Items : task[i].at \in Rests

(* A step before the message is transmitted: it succeeds, or it is refused, *)
(* fails or meets the deadline, and the attempt has failed.                 *)
Before(i, then) ==
    /\ \/ task' = [task EXCEPT ![i] = then] /\ UNCHANGED faults
       \/ Fault /\ Go(i, "failed")
    /\ UNCHANGED <<Outside, tries>>

-----------------------------------------------------------------------------
(* send_message: the user asks once, and again only when told it failed. *)

Send(d) ==
    /\ task[d].at \in {"idle", "failed"} /\ tries[d] < MaxTries /\ LockFree
    /\ tries' = [tries EXCEPT ![d] = @ + 1]
    /\ task' = [task EXCEPT ![d] = [Idle EXCEPT !.at = "build", !.left = Recipients]]
    /\ UNCHANGED <<Outside, faults>>

(* The account is read under its lock; build_compose_message checks the     *)
(* addresses and the attachments.                                           *)
Build(i) == At(i, "build") /\ Before(i, [task[i] EXCEPT !.at = "open"])

(* send_smtp_raw: connection, STARTTLS, authentication, and what the        *)
(* addresses and the text require of the relay.                             *)
Open(i) == At(i, "open") /\ Before(i, [task[i] EXCEPT !.at = "mail"])

MailFrom(i) == At(i, "mail") /\ Before(i, [task[i] EXCEPT !.at = "rcpt"])

(* Mutant: a refused recipient is left out. *)
SkipsRefused(i, r) == [task[i] EXCEPT !.left = @ \ {r}]

RcptRefused(i, r) == [task[i] EXCEPT !.at = "failed"]

(* One RCPT per recipient; a refused one ends the attempt. *)
Rcpt(i, r) ==
    /\ At(i, "rcpt") /\ r \in task[i].left
    /\ \/ /\ task' = [task EXCEPT ![i].left = @ \ {r}, ![i].to = @ \cup {r}]
          /\ UNCHANGED faults
       \/ Fault /\ task' = [task EXCEPT ![i] = RcptRefused(i, r)]
    /\ UNCHANGED <<Outside, tries>>

Data(i) ==
    /\ At(i, "rcpt") /\ task[i].left = {}
    /\ Before(i, [task[i] EXCEPT !.at = "final"])

(* Mutant: a missing reply is a failure like another. *)
NoReplyIsFailure == "failed"

NoReply == "uncertain"

(* The relay delivers to everyone it accepted; a provider saves its copy.   *)
Takes(i) ==
    /\ relay' = [relay EXCEPT ![i] = [r \in Recipients |->
                                        IF r \in task[i].to THEN @[r] + 1 ELSE @[r]]]
    /\ sentbox' = [sentbox EXCEPT ![i] = IF i \in Saves THEN @ + 1 ELSE @]

(* ~smtp_saves_sent_copy *)
Appends(i) == i \notin Saves

(* The message is transmitted, and the final reply: accepted; refused; or   *)
(* none, by a lost connection or the deadline, and the relay may have it.   *)
Final(i) ==
    /\ At(i, "final")
    /\ \/ /\ Takes(i) /\ UNCHANGED faults
          /\ Go(i, IF Appends(i) THEN "append" ELSE "sent")
       \/ Fault /\ Go(i, "failed") /\ UNCHANGED <<relay, sentbox>>
       \/ Fault /\ Go(i, NoReply) /\ (Takes(i) \/ UNCHANGED <<relay, sentbox>>)
    /\ UNCHANGED <<posted, tries>>

(* append_sent_copy: any step fails, or the server saved it without telling. *)
Append(i) ==
    /\ At(i, "append")
    /\ \/ /\ sentbox' = [sentbox EXCEPT ![i] = @ + 1]
          /\ Go(i, "sent") /\ UNCHANGED faults
       \/ /\ Fault /\ Go(i, "unsaved")
          /\ sentbox' \in {sentbox, [sentbox EXCEPT ![i] = @ + 1]}
    /\ UNCHANGED <<relay, posted, tries>>

-----------------------------------------------------------------------------
(* unsubscribe_message *)

Unsubscribe(m) ==
    /\ task[m].at \in {"idle", "failed"} /\ tries[m] < MaxTries /\ LockFree
    /\ tries' = [tries EXCEPT ![m] = @ + 1]
    /\ task' = [task EXCEPT ![m] = [Idle EXCEPT !.at = "choose", !.kind = RowKind[m]]]
    /\ UNCHANGED <<Outside, faults>>

(* A one-click request is never repeated: its failure may be ambiguous.     *)
MayRefresh(m) == ~task[m].fresh /\ RowKind[m] # "one_click"

(* MailService::unsubscribe, on the stored metadata or the fresh one. *)
Choose(m) ==
    LET k == task[m].kind
        g == CASE k = "one_click" -> "post"
               [] k = "web" -> "opened"
               [] k = "mailto" -> "build"
               [] OTHER -> IF MayRefresh(m) THEN "refresh" ELSE "failed"
    IN /\ At(m, "choose")
       /\ task' = [task EXCEPT ![m].at = g,
                     ![m].left = IF k = "mailto" THEN {CHOOSE r \in Recipients : TRUE} ELSE {}]
       /\ UNCHANGED <<Outside, tries, faults>>

(* post_one_click_unsubscribe; a failure says nothing of what was done. *)
Post(m) ==
    /\ At(m, "post")
    /\ \/ posted' = [posted EXCEPT ![m] = @ + 1] /\ Go(m, "done") /\ UNCHANGED faults
       \/ /\ Fault /\ Go(m, IF MayRefresh(m) THEN "refresh" ELSE "failed")
          /\ posted' \in {posted, [posted EXCEPT ![m] = @ + 1]}
    /\ UNCHANGED <<relay, sentbox, tries>>

(* fetch_remote_message *)
Refresh(m) ==
    /\ At(m, "refresh")
    /\ Before(m, [task[m] EXCEPT !.at = "choose", !.kind = HeaderKind[m], !.fresh = TRUE])

Next ==
    \/ \E d \in Drafts : Send(d)
    \/ \E i \in Items : \/ Build(i) \/ Open(i) \/ MailFrom(i) \/ Data(i) \/ Final(i) \/ Append(i)
                        \/ \E r \in Recipients : Rcpt(i, r)
    \/ \E m \in Mails : Unsubscribe(m) \/ Choose(m) \/ Post(m) \/ Refresh(m)

Spec == Init /\ [][Next]_vars

-----------------------------------------------------------------------------
(* Properties *)

(* What the user is told is true: "failed" means that no recipient has it,   *)
(* "sent" that each has it and the Sent folder too, "unsaved" that each has *)
(* it (send_with_smtp_endpoint, send_smtp_raw).                             *)
ReportIsTrue ==
    \A d \in Drafts :
       /\ At(d, "failed") => \A r \in Recipients : relay[d][r] = 0
       /\ At(d, "sent") => sentbox[d] > 0
       /\ task[d].at \in {"sent", "unsaved"} => \A r \in Recipients : relay[d][r] > 0

(* Nobody gets a message twice, and the Sent folder has one copy, though    *)
(* the user sends again what is reported as failed (smtp_saves_sent_copy);  *)
(* and an unsubscribe service is called at most once for each time the user *)
(* asks (unsubscribe_message).                                              *)
OnceEach ==
    /\ \A d \in Drafts : sentbox[d] <= 1 /\ \A r \in Recipients : relay[d][r] <= 1
    /\ \A m \in Mails : posted[m] <= tries[m]
=============================================================================
