----------------------------- MODULE OutboxProofs -----------------------------
(* What TLAPS proves of Outbox, for any drafts, recipients and failures.    *)
EXTENDS Outbox, TLAPS

Places == {"idle", "build", "open", "mail", "rcpt", "final", "append", "sent", "unsaved",
           "uncertain", "failed", "choose", "post", "refresh", "opened", "done"}

Locals == [at : Places, left : SUBSET Recipients, to : SUBSET Recipients, kind : Kinds,
           fresh : BOOLEAN]

Shape ==
    /\ relay \in [Items -> [Recipients -> Nat]]
    /\ sentbox \in [Items -> Nat]
    /\ task \in [Items -> Locals]

Asking == {"build", "open", "mail", "rcpt", "final"}   \* nobody has the draft
Taken  == {"append", "sent", "unsaved"}                \* everybody has it

(* What a draft's step says of the relay and of the Sent folder.            *)
DraftIsSound(d) ==
    /\ task[d].at \in Asking \cup Taken \cup {"idle", "failed", "uncertain"}
    /\ sentbox[d] <= 1 /\ \A r \in Recipients : relay[d][r] <= 1
    /\ task[d].at \in Asking \cup {"idle", "failed"} =>
          sentbox[d] = 0 /\ \A r \in Recipients : relay[d][r] = 0
    /\ task[d].at \in Asking => task[d].left \cup task[d].to = Recipients
    /\ task[d].at = "final" => task[d].left = {}
    /\ task[d].at \in Taken => \A r \in Recipients : relay[d][r] > 0
    /\ task[d].at = "append" => sentbox[d] = 0
    /\ task[d].at = "sent" => sentbox[d] > 0

IInv == Shape /\ \A d \in Drafts : DraftIsSound(d)

-----------------------------------------------------------------------------
LEMMA InitHolds == ASSUME OutboxAssumption PROVE Init => IInv
  <1>. SUFFICES ASSUME Init PROVE IInv
       OBVIOUS
  <1>1. Idle \in Locals /\ Idle.at = "idle"
        BY DEF Idle, Locals, Places, Kinds
  <1>2. Shape
        BY <1>1 DEF Init, Shape
  <1>3. ASSUME NEW d \in Drafts PROVE DraftIsSound(d)
    <2>1. /\ task[d].at = "idle" /\ sentbox[d] = 0
          /\ \A r \in Recipients : relay[d][r] = 0
          BY <1>1 DEF Init, Items
    <2>. QED  BY <2>1 DEF DraftIsSound, Asking, Taken
  <1>. QED  BY <1>2, <1>3 DEF IInv

(* A step of one item concerns no other.                                    *)
LEMMA OneItem ==
    ASSUME IInv, Shape', NEW i \in Items, i \in Drafts => DraftIsSound(i)',
           \A j \in Items : j # i => /\ task'[j] = task[j] /\ relay'[j] = relay[j]
                                     /\ sentbox'[j] = sentbox[j]
    PROVE  IInv'
  <1>1. ASSUME NEW d \in Drafts, d # i PROVE DraftIsSound(d)'
    <2>1. DraftIsSound(d) /\ task'[d] = task[d] /\ relay'[d] = relay[d] /\ sentbox'[d] = sentbox[d]
          BY <1>1 DEF IInv, Items
    <2>. QED  BY <2>1 DEF DraftIsSound
  <1>. QED  BY <1>1 DEF IInv

(* A step of which the relay and the Sent folder see nothing.               *)
LEMMA TaskStep ==
    ASSUME IInv, NEW i \in Items, NEW r \in Locals, task' = [task EXCEPT ![i] = r],
           UNCHANGED <<relay, sentbox>>,
           i \in Drafts =>
              /\ task[i].at \in Asking \cup {"idle", "failed"}
              /\ r.at \in Asking \cup {"failed", "uncertain"}
              /\ r.at \in Asking => r.left \cup r.to = Recipients
              /\ r.at = "final" => r.left = {}
    PROVE  IInv'
  <1>1. task'[i] = r /\ \A j \in Items : j # i => task'[j] = task[j]
        BY DEF IInv, Shape
  <1>2. Shape'
        BY DEF IInv, Shape
  <1>3. i \in Drafts => DraftIsSound(i)'
        BY <1>1 DEF IInv, DraftIsSound, Asking, Taken
  <1>. QED  BY <1>1, <1>2, <1>3, OneItem

-----------------------------------------------------------------------------
(* One lemma per kind of step *)

LEMMA AskStep ==
    ASSUME OutboxAssumption, IInv,
           NEW d \in Drafts, Send(d)
    PROVE  IInv'
  <1>. DEFINE r == [Idle EXCEPT !.at = "build", !.left = Recipients]
  <1>1. r.at = "build" /\ r.left = Recipients /\ r.to = {}
        BY DEF Idle
  <1>2. r \in Locals
        BY DEF Idle, Locals, Places, Kinds
  <1>3. /\ task[d].at \in {"idle", "failed"} /\ task' = [task EXCEPT ![d] = r]
        /\ UNCHANGED <<relay, sentbox>>
        BY DEF Send, Outside
  <1>. HIDE DEF r
  <1>. QED  BY <1>1, <1>2, <1>3, TaskStep DEF Items, Asking

(* A step that succeeds, or fails and leaves nothing behind.                *)
LEMMA BeforeStep ==
    ASSUME IInv, NEW i \in Items, NEW r \in Locals, Before(i, r),
           i \in Drafts =>
              /\ task[i].at \in Asking /\ r.at \in Asking
              /\ r.left \cup r.to = Recipients
              /\ r.at = "final" => r.left = {}
    PROVE  IInv'
  <1>1. UNCHANGED <<relay, sentbox>>
        BY DEF Before, Outside
  <1>2. CASE task' = [task EXCEPT ![i] = r]
        BY <1>1, <1>2, TaskStep
  <1>3. CASE Go(i, "failed")
    <2>. DEFINE f == [task[i] EXCEPT !.at = "failed"]
    <2>1. task' = [task EXCEPT ![i] = f] /\ f.at = "failed"
          BY <1>3 DEF Go, IInv, Shape, Locals
    <2>2. f \in Locals
          BY DEF IInv, Shape, Locals, Places
    <2>. HIDE DEF f
    <2>. QED  BY <1>1, <2>1, <2>2, TaskStep DEF Asking
  <1>. QED  BY <1>2, <1>3 DEF Before

(* A task that moves on and keeps the rest.                                 *)
With(i, at) == [task[i] EXCEPT !.at = at]

LEMMA MoveOn ==
    ASSUME IInv, NEW i \in Items, NEW at \in Places
    PROVE  /\ With(i, at) \in Locals /\ With(i, at).at = at
           /\ With(i, at).left = task[i].left /\ With(i, at).to = task[i].to
           /\ Go(i, at) => task' = [task EXCEPT ![i] = With(i, at)]
    BY DEF IInv, Shape, Locals, With, Go

LEMMA MoveBefore ==
    ASSUME IInv, NEW i \in Items, NEW at \in Places, Before(i, With(i, at)),
           i \in Drafts => /\ task[i].at \in Asking /\ at \in Asking
                           /\ at = "final" => task[i].left = {}
    PROVE  IInv'
  <1>1. i \in Drafts => task[i].left \cup task[i].to = Recipients
        BY DEF IInv, DraftIsSound
  <1>. QED  BY <1>1, MoveOn, BeforeStep

LEMMA PrepareStep ==
    ASSUME IInv, NEW i \in Items, Build(i) \/ Open(i) \/ MailFrom(i) \/ Data(i)
    PROVE  IInv'
  <1>1. CASE Build(i)
        BY <1>1, MoveBefore DEF Build, At, Asking, Places, With
  <1>2. CASE Open(i)
        BY <1>2, MoveBefore DEF Open, At, Asking, Places, With
  <1>3. CASE MailFrom(i)
        BY <1>3, MoveBefore DEF MailFrom, At, Asking, Places, With
  <1>4. CASE Data(i)
        BY <1>4, MoveBefore DEF Data, At, Asking, Places, With
  <1>. QED  BY <1>1, <1>2, <1>3, <1>4

LEMMA RcptStep == ASSUME IInv, NEW i \in Items, NEW r \in Recipients, Rcpt(i, r) PROVE IInv'
  <1>1. UNCHANGED <<relay, sentbox>> /\ task[i].at = "rcpt"
        BY DEF Rcpt, Outside, At
  <1>2. CASE task' = [task EXCEPT ![i].left = @ \ {r}, ![i].to = @ \cup {r}]
    <2>. DEFINE n == [task[i] EXCEPT !.left = task[i].left \ {r}, !.to = task[i].to \cup {r}]
    <2>1. /\ task' = [task EXCEPT ![i] = n] /\ n.at = "rcpt"
          /\ n.left = task[i].left \ {r} /\ n.to = task[i].to \cup {r}
          BY <1>1, <1>2 DEF IInv, Shape, Locals
    <2>2. n \in Locals
          BY DEF IInv, Shape, Locals
    <2>3. i \in Drafts => task[i].left \cup task[i].to = Recipients
          BY <1>1 DEF IInv, DraftIsSound, Asking
    <2>. HIDE DEF n
    <2>4. i \in Drafts => n.left \cup n.to = Recipients
          BY <2>1, <2>3
    <2>. QED  BY <1>1, <2>1, <2>2, <2>4, TaskStep DEF Asking
  <1>3. CASE task' = [task EXCEPT ![i] = RcptRefused(i, r)]
    <2>1. task' = [task EXCEPT ![i] = With(i, "failed")]
          BY <1>3 DEF RcptRefused, With
    <2>. QED  BY <1>1, <2>1, MoveOn, TaskStep DEF Asking, Places
  <1>. QED  BY <1>2, <1>3 DEF Rcpt

(* Where a draft may be with f deliveries and n copies.                     *)
Fits(at, f, n) ==
    /\ at \in Taken \cup {"failed", "uncertain"}
    /\ n <= 1 /\ \A r \in Recipients : f[r] <= 1
    /\ at = "failed" => n = 0 /\ \A r \in Recipients : f[r] = 0
    /\ at \in Taken => \A r \in Recipients : f[r] > 0
    /\ at = "append" => n = 0
    /\ at = "sent" => n > 0

(* A step that has the relay take a message, or the Sent folder a copy.     *)
LEMMA OutsideStep ==
    ASSUME IInv, NEW i \in Items, NEW at \in Places, Go(i, at),
           NEW f \in [Recipients -> Nat], relay' = [relay EXCEPT ![i] = f],
           NEW n \in Nat, sentbox' = [sentbox EXCEPT ![i] = n],
           i \in Drafts => Fits(at, f, n)
    PROVE  IInv'
  <1>. DEFINE r == With(i, at)
  <1>1. task' = [task EXCEPT ![i] = r] /\ r.at = at /\ r \in Locals
        BY MoveOn
  <1>. HIDE DEF r
  <1>2. /\ task'[i] = r /\ relay'[i] = f /\ sentbox'[i] = n
        /\ \A j \in Items : j # i => /\ task'[j] = task[j] /\ relay'[j] = relay[j]
                                     /\ sentbox'[j] = sentbox[j]
        BY <1>1 DEF IInv, Shape
  <1>3. Shape'
        BY <1>1 DEF IInv, Shape
  <1>4. i \in Drafts => DraftIsSound(i)'
        BY <1>1, <1>2 DEF DraftIsSound, Fits, Asking, Taken
  <1>. QED  BY <1>2, <1>3, <1>4, OneItem

LEMMA FinalStep == ASSUME IInv, NEW i \in Items, Final(i) PROVE IInv'
  <1>1. /\ relay[i] \in [Recipients -> Nat] /\ sentbox[i] \in Nat
        /\ task[i].at = "final" /\ task[i].to \in SUBSET Recipients
        BY DEF Final, At, IInv, Shape, Locals
  <1>2. i \in Drafts => /\ task[i].to = Recipients /\ sentbox[i] = 0
                        /\ \A r \in Recipients : relay[i][r] = 0
        BY <1>1 DEF IInv, DraftIsSound, Asking
  <1>. DEFINE f == [r \in Recipients |-> IF r \in task[i].to THEN relay[i][r] + 1
                                                           ELSE relay[i][r]]
              n == IF i \in Saves THEN sentbox[i] + 1 ELSE sentbox[i]
  <1>3. f \in [Recipients -> Nat] /\ n \in Nat
        BY <1>1
  <1>4. i \in Drafts => \A r \in Recipients : f[r] = 1
        BY <1>2
  <1>5. i \in Drafts => n = IF i \in Saves THEN 1 ELSE 0
        BY <1>2
  <1>6. Takes(i) => relay' = [relay EXCEPT ![i] = f] /\ sentbox' = [sentbox EXCEPT ![i] = n]
        BY DEF Takes, IInv, Shape
  <1>7. UNCHANGED <<relay, sentbox>> =>
           relay' = [relay EXCEPT ![i] = relay[i]] /\ sentbox' = [sentbox EXCEPT ![i] = sentbox[i]]
        BY DEF IInv, Shape
  <1>. HIDE DEF f, n
  <1>8. CASE Takes(i) /\ i \notin Saves /\ Go(i, "append")
    <2>1. i \in Drafts => Fits("append", f, n)
          BY <1>4, <1>5, <1>8 DEF Fits, Taken
    <2>. QED  BY <1>3, <1>6, <1>8, <2>1, OutsideStep DEF Places
  <1>9. CASE Takes(i) /\ i \in Saves /\ Go(i, "sent")
    <2>1. i \in Drafts => Fits("sent", f, n)
          BY <1>4, <1>5, <1>9 DEF Fits, Taken
    <2>. QED  BY <1>3, <1>6, <1>9, <2>1, OutsideStep DEF Places
  <1>10. i \in Drafts => Fits("failed", relay[i], sentbox[i]) /\ Fits("uncertain", relay[i], sentbox[i])
        BY <1>2 DEF Fits, Taken
  <1>11. CASE Go(i, "failed") /\ UNCHANGED <<relay, sentbox>>
        BY <1>1, <1>7, <1>10, <1>11, OutsideStep DEF Places
  <1>12. CASE Go(i, "uncertain") /\ Takes(i)
    <2>1. i \in Drafts => Fits("uncertain", f, n)
          BY <1>4, <1>5 DEF Fits, Taken
    <2>. QED  BY <1>3, <1>6, <1>12, <2>1, OutsideStep DEF Places
  <1>13. CASE Go(i, "uncertain") /\ UNCHANGED <<relay, sentbox>>
        BY <1>1, <1>7, <1>10, <1>13, OutsideStep DEF Places
  <1>. QED  BY <1>8, <1>9, <1>11, <1>12, <1>13 DEF Final, Appends, NoReply

LEMMA AppendStep == ASSUME IInv, NEW i \in Items, Append(i) PROVE IInv'
  <1>. DEFINE f == relay[i]
              n == sentbox[i] + 1
  <1>1. /\ f \in [Recipients -> Nat] /\ sentbox[i] \in Nat /\ n \in Nat
        /\ task[i].at = "append" /\ relay' = [relay EXCEPT ![i] = f]
        BY DEF Append, At, IInv, Shape
  <1>2. i \in Drafts => /\ sentbox[i] = 0
                        /\ \A r \in Recipients : f[r] > 0 /\ f[r] <= 1
        BY <1>1 DEF IInv, DraftIsSound, Taken
  <1>3. i \in Drafts => /\ Fits("sent", f, n) /\ Fits("unsaved", f, n)
                        /\ Fits("unsaved", f, sentbox[i])
        BY <1>2 DEF Fits, Taken
  <1>4. sentbox' = sentbox => sentbox' = [sentbox EXCEPT ![i] = sentbox[i]]
        BY DEF IInv, Shape
  <1>5. \/ Go(i, "sent") /\ sentbox' = [sentbox EXCEPT ![i] = n]
        \/ Go(i, "unsaved") /\ (sentbox' = sentbox \/ sentbox' = [sentbox EXCEPT ![i] = n])
        BY DEF Append
  <1>. HIDE DEF f, n
  <1>6. CASE Go(i, "sent") /\ sentbox' = [sentbox EXCEPT ![i] = n]
        BY <1>1, <1>3, <1>6, OutsideStep DEF Places
  <1>7. CASE Go(i, "unsaved") /\ sentbox' = sentbox
        BY <1>1, <1>3, <1>4, <1>7, OutsideStep DEF Places
  <1>8. CASE Go(i, "unsaved") /\ sentbox' = [sentbox EXCEPT ![i] = n]
        BY <1>1, <1>3, <1>8, OutsideStep DEF Places
  <1>. QED  BY <1>5, <1>6, <1>7, <1>8

(* The steps of an unsubscription, which is no draft.                       *)
LEMMA UnsubscribeStep ==
    ASSUME OutboxAssumption, IInv, NEW m \in Mails,
           Unsubscribe(m) \/ Choose(m) \/ Post(m) \/ Refresh(m)
    PROVE  IInv'
  <1>1. m \in Items /\ m \notin Drafts
        BY DEF OutboxAssumption, Items
  <1>2. ASSUME NEW r \in Locals, task' = [task EXCEPT ![m] = r], UNCHANGED <<relay, sentbox>>
        PROVE  IInv'
        BY <1>1, <1>2, TaskStep
  <1>3. CASE Unsubscribe(m)
    <2>. DEFINE r == [Idle EXCEPT !.at = "choose", !.kind = RowKind[m]]
    <2>1. r \in Locals
          BY DEF Idle, Locals, Places, OutboxAssumption
    <2>2. task' = [task EXCEPT ![m] = r] /\ UNCHANGED <<relay, sentbox>>
          BY <1>3 DEF Unsubscribe, Outside
    <2>. HIDE DEF r
    <2>. QED  BY <1>2, <2>1, <2>2
  <1>4. CASE Choose(m)
    <2>. DEFINE g == CASE task[m].kind = "one_click" -> "post"
                       [] task[m].kind = "web" -> "opened"
                       [] task[m].kind = "mailto" -> "build"
                       [] OTHER -> IF MayRefresh(m) THEN "refresh" ELSE "failed"
                s == IF task[m].kind = "mailto" THEN {CHOOSE x \in Recipients : TRUE} ELSE {}
                r == [task[m] EXCEPT !.at = g, !.left = s]
    <2>1. g \in Places
          BY DEF Places
    <2>2. s \in SUBSET Recipients
          BY DEF OutboxAssumption
    <2>3. task' = [task EXCEPT ![m].at = g, ![m].left = s] /\ UNCHANGED <<relay, sentbox>>
          BY <1>4 DEF Choose, Outside
    <2>. HIDE DEF g, s
    <2>4. task' = [task EXCEPT ![m] = r]
          BY <1>1, <2>3 DEF IInv, Shape
    <2>5. r \in Locals
          BY <1>1, <2>1, <2>2 DEF IInv, Shape, Locals
    <2>. HIDE DEF r
    <2>. QED  BY <1>2, <2>3, <2>4, <2>5
  <1>5. CASE Post(m)
    <2>1. PICK at \in {"done", "refresh", "failed"} : Go(m, at)
          BY <1>5 DEF Post
    <2>2. task' = [task EXCEPT ![m] = With(m, at)] /\ With(m, at) \in Locals
          BY <1>1, <2>1, MoveOn DEF Places
    <2>3. UNCHANGED <<relay, sentbox>>
          BY <1>5 DEF Post
    <2>. QED  BY <1>2, <2>2, <2>3
  <1>6. CASE Refresh(m)
    <2>. DEFINE r == [task[m] EXCEPT !.at = "choose", !.kind = HeaderKind[m], !.fresh = TRUE]
    <2>1. r \in Locals
      <3>1. HeaderKind[m] \in Kinds /\ "choose" \in Places /\ task[m] \in Locals
            BY <1>1 DEF IInv, Shape, Places, OutboxAssumption
      <3>. QED  BY <3>1 DEF Locals
    <2>2. Before(m, r)
          BY <1>6 DEF Refresh
    <2>. HIDE DEF r
    <2>. QED  BY <1>1, <2>1, <2>2, BeforeStep
  <1>. QED  BY <1>3, <1>4, <1>5, <1>6

-----------------------------------------------------------------------------
(* Theorems *)

LEMMA Inductive == ASSUME OutboxAssumption PROVE Spec => []IInv
  <1>1. ASSUME IInv, [Next]_vars PROVE IInv'
    <2>1. ASSUME NEW d \in Drafts, Send(d) PROVE IInv'
          BY <1>1, <2>1, AskStep
    <2>2. ASSUME NEW i \in Items,
                 \/ Build(i) \/ Open(i) \/ MailFrom(i) \/ Data(i) \/ Final(i) \/ Append(i)
                 \/ \E r \in Recipients : Rcpt(i, r)
          PROVE  IInv'
          BY <1>1, <2>2, PrepareStep, FinalStep, AppendStep, RcptStep
    <2>3. ASSUME NEW m \in Mails, Unsubscribe(m) \/ Choose(m) \/ Post(m) \/ Refresh(m)
          PROVE  IInv'
          BY <1>1, <2>3, UnsubscribeStep
    <2>4. CASE UNCHANGED vars
          BY <1>1, <2>4 DEF vars, IInv, Shape, DraftIsSound
    <2>. QED  BY <1>1, <2>1, <2>2, <2>3, <2>4 DEF Next
  <1>. QED  BY <1>1, InitHolds, PTL DEF Spec

(* A call of the service may be due: the click has not been used up.        *)
Clicking == {"choose", "post", "refresh"}

Clicks(m) ==
    /\ posted[m] <= tries[m]
    /\ task[m].at \in Clicking => posted[m] < tries[m]
    /\ task[m].at \in {"choose", "post"} /\ ~task[m].fresh => task[m].kind = RowKind[m]
    /\ task[m].at = "post" => task[m].kind = "one_click"

CInv ==
    /\ posted \in [Mails -> Nat] /\ tries \in [Items -> Nat]
    /\ \A m \in Mails : Clicks(m)

(* A step of an item that leaves it where no call is due.                   *)
LEMMA NoCall ==
    ASSUME CInv, NEW i \in Items, UNCHANGED <<posted, tries>>,
           \A j \in Items : j # i => task'[j] = task[j],
           task'[i].at \notin Clicking
    PROVE  CInv'
  <1>1. ASSUME NEW m \in Mails PROVE Clicks(m)'
        BY <1>1 DEF CInv, Clicks, Clicking, Items
  <1>. QED  BY <1>1 DEF CInv

(* A step of a mail after which one may be due.                             *)
LEMMA CallDue ==
    ASSUME CInv, NEW m \in Mails, NEW r \in Locals, task \in [Items -> Locals],
           task' = [task EXCEPT ![m] = r],
           UNCHANGED posted, tries' \in [Items -> Nat],
           \A j \in Items : j # m => tries'[j] = tries[j],
           posted[m] < tries'[m],
           ~r.fresh => r.kind = RowKind[m],
           r.at = "post" => r.kind = "one_click"
    PROVE  CInv'
  <1>1. m \in Items /\ task'[m] = r /\ \A j \in Items : j # m => task'[j] = task[j]
        BY DEF Items
  <1>2. Clicks(m)'
    <2>1. posted'[m] < tries'[m] /\ posted'[m] \in Nat /\ tries'[m] \in Nat
          BY <1>1 DEF CInv
    <2>. QED  BY <1>1, <2>1 DEF Clicks
  <1>3. ASSUME NEW j \in Mails, j # m PROVE Clicks(j)'
        BY <1>1, <1>3 DEF CInv, Clicks, Items
  <1>. QED  BY <1>2, <1>3 DEF CInv

LEMMA ClicksStep == ASSUME OutboxAssumption, IInv, CInv, [Next]_vars PROVE CInv'
  <1>. task \in [Items -> Locals]
       BY DEF IInv, Shape
  <1>1. ASSUME NEW d \in Drafts, Send(d) PROVE CInv'
    <2>1. d \in Items /\ d \notin Mails
          BY DEF Items, OutboxAssumption
    <2>2. /\ posted' = posted /\ tries' \in [Items -> Nat]
          /\ \A j \in Items : j # d => task'[j] = task[j] /\ tries'[j] = tries[j]
          BY <1>1, <2>1 DEF Send, Outside, CInv
    <2>3. ASSUME NEW m \in Mails PROVE Clicks(m)'
          BY <2>1, <2>2, <2>3 DEF CInv, Clicks, Items
    <2>. QED  BY <2>2, <2>3 DEF CInv
  <1>2. ASSUME NEW i \in Items,
               Build(i) \/ Open(i) \/ MailFrom(i) \/ Data(i)
        PROVE  CInv'
    <2>1. /\ UNCHANGED <<posted, tries>>
          /\ \E at \in {"open", "mail", "rcpt", "final", "failed"} : Go(i, at)
          BY <1>2 DEF Build, Open, MailFrom, Data, Before, Go, Outside
    <2>2. /\ task'[i].at \notin Clicking
          /\ \A j \in Items : j # i => task'[j] = task[j]
          BY <2>1 DEF Go, Clicking, Locals
    <2>. QED  BY <2>1, <2>2, NoCall
  <1>3. ASSUME NEW i \in Items, Final(i) \/ Append(i) PROVE CInv'
    <2>1. /\ UNCHANGED <<posted, tries>>
          /\ \E at \in {"append", "sent", "failed", "uncertain", "unsaved"} : Go(i, at)
          BY <1>3 DEF Final, Append, NoReply
    <2>2. /\ task'[i].at \notin Clicking
          /\ \A j \in Items : j # i => task'[j] = task[j]
          BY <2>1 DEF Go, Clicking, Locals
    <2>. QED  BY <2>1, <2>2, NoCall
  <1>4. ASSUME NEW i \in Items, NEW r \in Recipients, Rcpt(i, r) PROVE CInv'
    <2>1. /\ UNCHANGED <<posted, tries>>
          /\ \A j \in Items : j # i => task'[j] = task[j]
          BY <1>4 DEF Rcpt, RcptRefused, Outside
    <2>2. task'[i].at \in {"rcpt", "failed"}
          BY <1>4 DEF Rcpt, RcptRefused, At, Locals
    <2>. QED  BY <2>1, <2>2, NoCall DEF Clicking
  <1>5. ASSUME NEW m \in Mails, Unsubscribe(m) PROVE CInv'
    <2>. DEFINE r == [Idle EXCEPT !.at = "choose", !.kind = RowKind[m]]
    <2>1. r \in Locals /\ r.at = "choose" /\ r.kind = RowKind[m]
          BY DEF Idle, Locals, Places, OutboxAssumption
    <2>2. /\ m \in Items /\ task' = [task EXCEPT ![m] = r] /\ posted' = posted
          /\ tries' = [tries EXCEPT ![m] = @ + 1]
          BY <1>5 DEF Unsubscribe, Outside, Items
    <2>. HIDE DEF r
    <2>3. /\ tries' \in [Items -> Nat] /\ posted[m] < tries'[m]
          /\ \A j \in Items : j # m => tries'[j] = tries[j]
          BY <2>2 DEF CInv, Clicks
    <2>. QED  BY <2>1, <2>2, <2>3, CallDue
  <1>6. ASSUME NEW m \in Mails, Choose(m) PROVE CInv'
    <2>. DEFINE g == CASE task[m].kind = "one_click" -> "post"
                       [] task[m].kind = "web" -> "opened"
                       [] task[m].kind = "mailto" -> "build"
                       [] OTHER -> IF MayRefresh(m) THEN "refresh" ELSE "failed"
                s == IF task[m].kind = "mailto" THEN {CHOOSE x \in Recipients : TRUE} ELSE {}
                r == [task[m] EXCEPT !.at = g, !.left = s]
    <2>1. g \in Places /\ (g = "post" => task[m].kind = "one_click")
          BY DEF Places
    <2>2. s \in SUBSET Recipients
          BY DEF OutboxAssumption
    <2>3. /\ m \in Items /\ task[m].at = "choose" /\ UNCHANGED <<posted, tries>>
          /\ task' = [task EXCEPT ![m].at = g, ![m].left = s]
          BY <1>6 DEF Choose, At, Outside, Items
    <2>. HIDE DEF g, s
    <2>4. task' = [task EXCEPT ![m] = r]
          BY <2>3
    <2>5. r \in Locals /\ r.at = g /\ r.kind = task[m].kind /\ r.fresh = task[m].fresh
          BY <2>1, <2>2, <2>3 DEF Locals
    <2>. HIDE DEF r
    <2>6. /\ posted[m] < tries[m] /\ tries \in [Items -> Nat]
          /\ ~task[m].fresh => task[m].kind = RowKind[m]
          BY <2>3 DEF CInv, Clicks, Clicking
    <2>7. /\ ~r.fresh => r.kind = RowKind[m]
          /\ r.at = "post" => r.kind = "one_click"
          BY <2>1, <2>5, <2>6
    <2>. QED  BY <2>3, <2>4, <2>5, <2>6, <2>7, CallDue
  <1>7. ASSUME NEW m \in Mails, Post(m) PROVE CInv'
    <2>1. /\ m \in Items /\ task[m].at = "post" /\ posted[m] < tries[m]
          /\ ~task[m].fresh => RowKind[m] = "one_click"
          BY <1>7 DEF Post, At, CInv, Clicks, Clicking, Items
    <2>2. ~MayRefresh(m)
          BY <2>1 DEF MayRefresh
    <2>3. /\ tries' = tries
          /\ Go(m, "done") \/ Go(m, "failed")
          /\ posted' = posted \/ posted' = [posted EXCEPT ![m] = @ + 1]
          BY <1>7, <2>2 DEF Post
    <2>4. /\ task'[m].at \notin Clicking
          /\ \A j \in Items : j # m => task'[j] = task[j]
          BY <2>1, <2>3 DEF Go, Clicking, Locals
    <2>5. /\ posted' \in [Mails -> Nat] /\ posted'[m] <= tries[m]
          /\ \A j \in Mails : j # m => posted'[j] = posted[j]
          BY <2>1, <2>3 DEF CInv
    <2>6. Clicks(m)'
          BY <2>3, <2>4, <2>5 DEF Clicks, Clicking
    <2>7. ASSUME NEW j \in Mails, j # m PROVE Clicks(j)'
          BY <2>3, <2>4, <2>5, <2>7 DEF CInv, Clicks, Items
    <2>. QED  BY <2>3, <2>5, <2>6, <2>7 DEF CInv
  <1>8. ASSUME NEW m \in Mails, Refresh(m) PROVE CInv'
    <2>. DEFINE r == [task[m] EXCEPT !.at = "choose", !.kind = HeaderKind[m], !.fresh = TRUE]
    <2>1. /\ m \in Items /\ task[m].at = "refresh" /\ UNCHANGED <<posted, tries>>
          /\ task' = [task EXCEPT ![m] = r] \/ Go(m, "failed")
          BY <1>8 DEF Refresh, Before, At, Outside, Items
    <2>2. HeaderKind[m] \in Kinds /\ task[m] \in Locals
          BY <2>1 DEF OutboxAssumption
    <2>3. r \in Locals /\ r.at = "choose" /\ r.fresh = TRUE
          BY <2>2 DEF Locals, Places
    <2>. HIDE DEF r
    <2>4. CASE task' = [task EXCEPT ![m] = r]
      <3>1. posted[m] < tries[m] /\ tries \in [Items -> Nat]
            BY <2>1 DEF CInv, Clicks, Clicking
      <3>. QED  BY <2>1, <2>3, <2>4, <3>1, CallDue
    <2>5. CASE Go(m, "failed")
      <3>1. /\ task'[m].at \notin Clicking
            /\ \A j \in Items : j # m => task'[j] = task[j]
            BY <2>1, <2>5 DEF Go, Clicking, Locals
      <3>. QED  BY <2>1, <3>1, NoCall
    <2>. QED  BY <2>1, <2>4, <2>5
  <1>9. CASE UNCHANGED vars
        BY <1>9 DEF vars, CInv, Clicks
  <1>. QED  BY <1>1, <1>2, <1>3, <1>4, <1>5, <1>6, <1>7, <1>8, <1>9 DEF Next

(* No recipient and no Sent folder gets a message twice, however often the  *)
(* user sends again what is reported as failed (smtp_saves_sent_copy), and  *)
(* no service is called more often than the user asks (unsubscribe_message).*)
THEOREM SentOnce == ASSUME OutboxAssumption PROVE Spec => []OnceEach
  <1>1. Init => CInv
        BY DEF Init, CInv, Clicks, Clicking, Idle, Items
  <1>2. Spec => []CInv
        BY <1>1, ClicksStep, Inductive, PTL DEF Spec
  <1>3. IInv /\ CInv => OnceEach
        BY DEF IInv, CInv, Clicks, DraftIsSound, OnceEach
  <1>. QED  BY <1>2, <1>3, Inductive, PTL

(* What the user is told of a submission is true (send_with_smtp_endpoint). *)
THEOREM ToldTrue == ASSUME OutboxAssumption PROVE Spec => []ReportIsTrue
  <1>1. IInv => ReportIsTrue
        BY DEF IInv, DraftIsSound, ReportIsTrue, At, Asking, Taken
  <1>. QED  BY <1>1, Inductive, PTL
=============================================================================
