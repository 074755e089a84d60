------------------------------ MODULE MailView ------------------------------
(***************************************************************************)
(* The list of conversations of the main window (App.tsx): what it asks    *)
(* the backend for, what the user does to the rows before the backend has  *)
(* answered, and what the answers, in whatever order they come, do to the  *)
(* rows.                                                                   *)
(*                                                                         *)
(* A view is a mailbox with its accounts and search text.  The             *)
(* conversations are numbered by age, the newest first, and have one       *)
(* message each.  A request is superseded when a newer one is numbered     *)
(* (loadRequestIdRef); a superseded load does nothing more, so only the    *)
(* newest is kept here.  A click on a notification asks for an inbox       *)
(* besides, without a number.                                              *)
(***************************************************************************)
EXTENDS Naturals, FiniteSets

CONSTANTS Threads,     \* numbers of conversations
          Views,
          Searches,      \* the views with a search text, asked of the servers too
          Unread,        \* the views of what is unread, in whatever mailbox
          Inboxes,       \* the views a notification leads to
          Start,         \* the mailbox of each conversation at first, a view as well
          Sender,
          Accounts, Owner,
          Moves, Marks,  \* the user's moves and changes of the read flag in flight
          Jumps,         \* the notifications clicked, in flight
          PageSize,
          Faults,        \* the calls that may fail
          MaxSwitches, MaxActions, MaxChanges

Away == "away"           \* in no view of the catalogue

MailViewAssumption ==
    /\ Threads \subseteq Nat \ {0} /\ IsFiniteSet(Threads)
    /\ Searches \cup Unread \cup Inboxes \subseteq Views /\ Away \notin Views
    /\ Inboxes \cap (Searches \cup Unread) = {}
    /\ Start \in [Threads -> (Views \ Unread) \cup {Away}]
    /\ DOMAIN Sender = Threads /\ Owner \in [Threads -> Accounts]
    /\ PageSize \in Nat \ {0}
    /\ Faults \subseteq {"search", "remote", "move", "mark", "delete", "sweep"}
    /\ {MaxSwitches, MaxActions, MaxChanges} \subseteq Nat

VARIABLES
    store,    \* the catalogue: the mailbox and the read flag of each conversation
    view,     \* the view on screen
    rows,     \* what it shows: a copy of the catalogue's record for each row
    cursor,   \* nextCursorRef, 0 if there is no further page
    loading,  \* whether the list shows that it loads
    load,     \* the newest load
    more,     \* the request for a further page
    jumps,    \* the inboxes that notifications asked for; "fresh" while no request
              \* has been numbered since
    moves, moving,   \* the moves, each with the conversations that another one
                     \* took too (history); mailboxActionThreadIdsRef
    marks, latest,   \* the flag changes; readMutationByMessageRef
    erase,    \* the permanent deletion
    sweep,    \* the clean-up of a sender
    notice,   \* whether the backend has announced a change not yet heard of
    accounts, \* is each account there, being rebuilt, removed or gone?
    back,     \* history: the rows that failures put back since the list was loaded
    marked,   \* history: the conversations whose flag was set since the list was asked
              \* for, or changed from the reader when the list did not show them
    astray,   \* history: does the list show an inbox that loadMessages would have
              \* dropped, or with a conversation that is being acted on?
    used      \* what the user and others did, for the bounds

asides == <<jumps, marked, astray>>
lists == <<rows, cursor, loading, load, more, back, asides>>
vars == <<store, view, lists, moves, moving, marks, latest, erase, sweep, notice, accounts,
          used>>

-----------------------------------------------------------------------------
(* The catalogue's answers. *)

Listed(v) ==
    IF v \in Unread THEN {t \in Threads : store[t].view # Away /\ ~store[t].read}
    ELSE {t \in Threads : store[t].view = v}
Beyond(v, c) == {t \in Listed(v) : t > c}
Page(v, c) == {t \in Beyond(v, c) : Cardinality({s \in Beyond(v, c) : s < t}) < PageSize}
NextCursor(v, c) ==
    IF Page(v, c) = Beyond(v, c) THEN 0
    ELSE CHOOSE t \in Page(v, c) : \A s \in Page(v, c) : s <= t
AsStored(S) == [t \in S |-> store[t]]

(* Rows without the conversations S, and with some restored.                *)
Without(r, S) == [t \in DOMAIN r \ S |-> r[t]]
Only(r, S) == [t \in DOMAIN r \cap S |-> r[t]]

(* The rows r, and those of q that r does not have.                         *)
Merged(r, q) ==
    [t \in DOMAIN r \cup DOMAIN q |-> IF t \in DOMAIN r THEN r[t] ELSE q[t]]

-----------------------------------------------------------------------------
NoRows == [t \in {} |-> Away]
NoLoad == [at |-> "none", view |-> Away, page |-> NoRows, next |-> 0, hits |-> NoRows]
NoMore == [at |-> "idle", view |-> Away, fresh |-> FALSE, from |-> 0, page |-> NoRows,
           next |-> 0]
NoMove == [at |-> "idle", all |-> {}, left |-> {}, bad |-> {}, orig |-> NoRows,
           twice |-> {}]
Gone   == [view |-> Away, read |-> FALSE]
NoJump == [at |-> "idle", view |-> Away, fresh |-> FALSE, page |-> NoRows, next |-> 0]
NoMark == [at |-> "idle", thread |-> 0, was |-> Gone, ok |-> FALSE, orig |-> NoRows]
NoErase == [at |-> "idle", thread |-> 0, from |-> Away, ok |-> FALSE]
NoSweep == [at |-> "idle", of |-> {}, view |-> Away, ok |-> FALSE, orig |-> NoRows]
Nobody == "nobody"

Init ==
    /\ store = [t \in Threads |-> [view |-> Start[t], read |-> FALSE]]
    /\ view \in Views
    /\ rows = NoRows /\ cursor = 0
    /\ loading = TRUE
    /\ load = [NoLoad EXCEPT !.at = "asked", !.view = view]
    /\ more = NoMore /\ jumps = [j \in Jumps |-> NoJump]
    /\ moves = [m \in Moves |-> NoMove] /\ moving = {}
    /\ marks = [r \in Marks |-> NoMark] /\ latest = [t \in Threads |-> Nobody]
    /\ erase = NoErase /\ sweep = NoSweep
    /\ notice = FALSE /\ accounts = [a \in Accounts |-> "here"]
    /\ back = {} /\ marked = {} /\ astray = FALSE
    /\ used = [switches |-> 0, actions |-> 0, changes |-> 0]

-----------------------------------------------------------------------------
(* Loading. *)

Superseded(r) == [r EXCEPT !.fresh = FALSE]

Outdated == [j \in Jumps |-> Superseded(jumps[j])]

(* loadMessages up to its first await: a new number, for the view v.        *)
AskFor(v) ==
    /\ load' = [NoLoad EXCEPT !.at = "asked", !.view = v]
    /\ more' = Superseded(more)
    /\ loading' = TRUE /\ marked' = {}
LoadMessages(v) == AskFor(v) /\ jumps' = Outdated

(* Another number without a load: what is in flight is stale now.           *)
Invalidate ==
    /\ load' = NoLoad
    /\ more' = Superseded(more) /\ jumps' = Outdated

(* The conversations an action hides while it is in flight.                 *)
Hidden == moving \cup sweep.of
Visible(r) == Without(r, Hidden)

SearchAnswers ==
    /\ load.at = "asked"
    /\ load' = [load EXCEPT !.at = "answered", !.page = AsStored(Page(load.view, 0)),
                            !.next = NextCursor(load.view, 0)]
    /\ UNCHANGED <<store, view, rows, cursor, loading, more, moves, moving, marks, latest,
                   erase, sweep, notice, accounts, used, back, asides>>

SearchFails ==
    /\ load.at = "asked" /\ "search" \in Faults
    /\ load' = [NoLoad EXCEPT !.at = "failed"] /\ loading' = FALSE
    /\ UNCHANGED <<store, view, rows, cursor, more, moves, moving, marks, latest, erase,
                   sweep, notice, accounts, used, back, asides>>

(* The first page is shown.  A search goes on at the servers and is still   *)
(* loading.                                                                 *)
ShowPage ==
    /\ load.at = "answered"
    /\ rows' = Visible(load.page) /\ back' = {} /\ astray' = FALSE
    /\ cursor' = load.next
    /\ IF load.view \in Searches
       THEN load' = [load EXCEPT !.at = "searching"] /\ UNCHANGED loading
       ELSE load' = NoLoad /\ loading' = FALSE
    /\ UNCHANGED <<store, view, more, moves, moving, marks, latest, erase, sweep, notice,
                   accounts, used, jumps, marked>>

(* The servers answer with some of the view's conversations, or not at all. *)
ServersAnswer ==
    /\ load.at = "searching"
    /\ \E S \in SUBSET Listed(load.view) :
          load' = [load EXCEPT !.at = "found", !.hits = AsStored(S)]
    /\ UNCHANGED <<store, view, rows, cursor, loading, more, moves, moving, marks, latest,
                   erase, sweep, notice, accounts, used, back, asides>>

ServersFail ==
    /\ load.at = "searching" /\ "remote" \in Faults
    /\ load' = NoLoad /\ loading' = FALSE
    /\ UNCHANGED <<store, view, rows, cursor, more, moves, moving, marks, latest, erase,
                   sweep, notice, accounts, used, back, asides>>

(* They are merged with the page that the first answer brought.             *)
ShowFound ==
    /\ load.at = "found"
    /\ rows' = Visible(Merged(load.page, load.hits)) /\ back' = {} /\ astray' = FALSE
    /\ load' = NoLoad /\ loading' = FALSE
    /\ UNCHANGED <<store, view, cursor, more, moves, moving, marks, latest, erase, sweep,
                   notice, accounts, used, jumps, marked>>

-----------------------------------------------------------------------------
(* Further pages (loadMoreMessages): under the number of the newest load,   *)
(* from the cursor that is there.                                           *)

LoadMore ==
    /\ more.at = "idle" /\ cursor # 0
    /\ more' = [NoMore EXCEPT !.at = "asked", !.view = view, !.fresh = TRUE,
                              !.from = cursor]
    /\ UNCHANGED <<store, view, rows, cursor, loading, load, moves, moving, marks, latest,
                   erase, sweep, notice, accounts, used, back, asides>>

MoreAnswers ==
    /\ more.at = "asked"
    /\ more' = [more EXCEPT !.at = "answered",
                            !.page = AsStored(Page(more.view, more.from)),
                            !.next = NextCursor(more.view, more.from)]
    /\ UNCHANGED <<store, view, rows, cursor, loading, load, moves, moving, marks, latest,
                   erase, sweep, notice, accounts, used, back, asides>>

(* Mutant: a further page is shown if only its view is still on screen. *)
SameView == more.view = view

Welcome == more.fresh /\ more.view = view

ShowMore ==
    /\ more.at = "answered"
    /\ IF Welcome
       THEN rows' = Merged(more.page, rows) /\ cursor' = more.next
       ELSE UNCHANGED <<rows, cursor>>
    /\ more' = NoMore
    /\ UNCHANGED <<store, view, loading, load, moves, moving, marks, latest, erase, sweep,
                   notice, accounts, used, back, asides>>

-----------------------------------------------------------------------------
(* A click on a notification (openNotification), or a window that could not *)
(* open its message (onReaderWindowFailed): an inbox is selected, which     *)
(* loads it if another view was on screen, and asked for as well.           *)

Jump(j, v) ==
    /\ v \in Inboxes /\ jumps[j].at = "idle" /\ used.switches < MaxSwitches
    /\ view' = v
    /\ LET asked == [NoJump EXCEPT !.at = "asked", !.view = v, !.fresh = TRUE] IN
       IF v # view
       THEN AskFor(v) /\ jumps' = [Outdated EXCEPT ![j] = asked]
       ELSE jumps' = [jumps EXCEPT ![j] = asked] /\ UNCHANGED <<load, more, loading, marked>>
    /\ used' = [used EXCEPT !.switches = @ + 1]
    /\ UNCHANGED <<store, rows, cursor, moves, moving, marks, latest, erase, sweep, notice,
                   accounts, back, astray>>

JumpAnswers(j) ==
    /\ jumps[j].at = "asked"
    /\ LET v == jumps[j].view IN
       \/ jumps' = [jumps EXCEPT ![j] = [@ EXCEPT !.at = "answered", !.page = AsStored(Page(v, 0)),
                                                  !.next = NextCursor(v, 0)]]
       \/ "search" \in Faults /\ jumps' = [jumps EXCEPT ![j] = NoJump]
    /\ UNCHANGED <<store, view, rows, cursor, loading, load, more, moves, moving, marks, latest,
                   erase, sweep, notice, accounts, used, back, marked, astray>>

(* The answer is shown whatever has happened since, and as it is.           *)
Late(j) == ~jumps[j].fresh \/ DOMAIN jumps[j].page \cap Hidden # {}

ShowJump(j) ==
    /\ jumps[j].at = "answered"
    /\ rows' = jumps[j].page /\ cursor' = jumps[j].next
    /\ back' = {} /\ astray' = Late(j)
    /\ jumps' = [jumps EXCEPT ![j] = NoJump]
    /\ UNCHANGED <<store, view, loading, load, more, moves, moving, marks, latest, erase, sweep,
                   notice, accounts, used, marked>>

-----------------------------------------------------------------------------
(* The user selects another view: its rows replace the others only when     *)
(* they have been loaded.                                                   *)
Switch(v) ==
    /\ v # view /\ used.switches < MaxSwitches
    /\ view' = v
    /\ LoadMessages(v)
    /\ used' = [used EXCEPT !.switches = @ + 1]
    /\ UNCHANGED <<store, rows, cursor, moves, moving, marks, latest, erase, sweep, notice,
                   accounts, back, astray>>

(* Another client, or the synchronization, changes the catalogue, which the *)
(* backend announces (mail-changed, mail-arrived); the list loads again.    *)
Change ==
    /\ used.changes < MaxChanges
    /\ \E t \in Threads :
          /\ accounts[Owner[t]] \notin {"leaving", "gone"}
          /\ \/ \E v \in (Views \ Unread) \cup {Away} :
                   v # store[t].view /\ store' = [store EXCEPT ![t].view = v]
             \/ Unread # {} /\ store' = [store EXCEPT ![t].read = ~@]
    /\ notice' = TRUE
    /\ used' = [used EXCEPT !.changes = @ + 1]
    /\ UNCHANGED <<view, lists, moves, moving, marks, latest, erase, sweep, accounts>>

MailChanged ==
    /\ notice
    /\ notice' = FALSE
    /\ LoadMessages(view)
    /\ UNCHANGED <<store, view, rows, cursor, moves, moving, marks, latest, erase, sweep,
                   used, back, astray, accounts>>

(* The index of an account is rebuilt: its rows go while it looks for mail, *)
(* and the list loads again when it saves and when it ends.                 *)
Of(a) == {t \in Threads : Owner[t] = a}
Becomes(a, is) == accounts' = [accounts EXCEPT ![a] = is]

Finding(a) ==
    /\ accounts[a] \in {"here", "rebuilding"} /\ used.changes < MaxChanges
    /\ Becomes(a, "rebuilding")
    /\ rows' = Without(rows, Of(a))
    /\ used' = [used EXCEPT !.changes = @ + 1]
    /\ UNCHANGED <<store, view, cursor, loading, load, more, moves, moving, marks, latest, erase,
                   sweep, notice, back, asides>>

Rebuilt(a) ==
    /\ accounts[a] = "rebuilding"
    /\ \E is \in {"rebuilding", "here"} : Becomes(a, is)
    /\ LoadMessages(view)
    /\ UNCHANGED <<store, view, rows, cursor, moves, moving, marks, latest, erase, sweep, notice,
                   used, back, astray>>

(* An account is removed; the window hears of it when the catalogue has     *)
(* forgotten it (removeAccountFromMain).                                    *)
RemoveAccount(a) ==
    /\ accounts[a] = "here" /\ used.changes < MaxChanges
    /\ Becomes(a, "leaving")
    /\ store' = [t \in Threads |->
                    IF t \in Of(a) THEN [store[t] EXCEPT !.view = Away] ELSE store[t]]
    /\ used' = [used EXCEPT !.changes = @ + 1]
    /\ UNCHANGED <<view, lists, moves, moving, marks, latest, erase, sweep, notice>>

AccountRemoved(a) ==
    /\ accounts[a] = "leaving"
    /\ Becomes(a, "gone")
    /\ rows' = Without(rows, Of(a))
    /\ LoadMessages(view)
    /\ UNCHANGED <<store, view, cursor, moves, moving, marks, latest, erase, sweep, notice, used,
                   back, astray>>

-----------------------------------------------------------------------------
(* Moving conversations (applyAction): the rows go at once, loads in flight *)
(* are void, the failed ones come back.                                     *)

MayAct == used.actions < MaxActions
Acted == used' = [used EXCEPT !.actions = @ + 1]

InFlight == UNION {moves[m].all : m \in Moves}

Move(m, S) ==
    /\ moves[m].at = "idle" /\ MayAct
    /\ S # {} /\ S \subseteq DOMAIN rows
    /\ moves' = [o \in Moves |->
                    IF o = m THEN [NoMove EXCEPT !.at = "sent", !.all = S, !.left = S,
                                      !.orig = rows, !.twice = S \cap InFlight]
                    ELSE [moves[o] EXCEPT !.twice = @ \cup (S \cap moves[o].all)]]
    /\ moving' = moving \cup S
    /\ rows' = Without(rows, S)
    /\ Invalidate
    /\ Acted
    /\ UNCHANGED <<store, view, cursor, loading, marks, latest, erase, sweep, notice,
                   accounts, back, marked, astray>>

(* The backend moves one of them; if it is no longer where the row says,    *)
(* that moves nothing and is no error.                                      *)
StillThere(row, t) == store[t].view = row.view

MoveAnswers(m, t) ==
    /\ moves[m].at = "sent" /\ t \in moves[m].left
    /\ \/ /\ store' = IF StillThere(moves[m].orig[t], t)
                       THEN [store EXCEPT ![t].view = Away] ELSE store
          /\ moves' = [moves EXCEPT ![m].left = @ \ {t}]
       \/ /\ "move" \in Faults
          /\ moves' = [moves EXCEPT ![m].left = @ \ {t}, ![m].bad = @ \cup {t}]
          /\ UNCHANGED store
    /\ UNCHANGED <<view, lists, moving, marks, latest, erase, sweep, notice, accounts,
                   used>>

(* Mutant: nothing loads the list again after a move. *)
NoReload(m) == FALSE

(* The last move to end loads the list again.                               *)
LastMove(m) == \A o \in Moves \ {m} : moves[o].at = "idle"
EndMove(m) ==
    /\ moves' = [moves EXCEPT ![m] = NoMove]
    /\ moving' = moving \ moves[m].all
    /\ IF LastMove(m) THEN LoadMessages(view)
       ELSE UNCHANGED <<load, more, loading, jumps, marked>>

Moved(m) ==
    /\ moves[m].at = "sent" /\ moves[m].left = {} /\ moves[m].bad = {}
    /\ EndMove(m)
    /\ UNCHANGED <<store, view, rows, cursor, marks, latest, erase, sweep, notice, accounts,
                   used, back, astray>>

(* What failed is shown as it was, and stays "moving" for the animation.    *)
Restore(m) ==
    /\ moves[m].at = "sent" /\ moves[m].left = {} /\ moves[m].bad # {}
    /\ rows' = Merged(Only(moves[m].orig, moves[m].bad), rows)
    /\ back' = back \cup moves[m].bad
    /\ moves' = [moves EXCEPT ![m].at = "restoring"]
    /\ UNCHANGED <<store, view, cursor, loading, load, more, moving, marks, latest, erase,
                   sweep, notice, accounts, used, asides>>

Restored(m) ==
    /\ moves[m].at = "restoring"
    /\ EndMove(m)
    /\ UNCHANGED <<store, view, rows, cursor, marks, latest, erase, sweep, notice, accounts,
                   used, back, astray>>

-----------------------------------------------------------------------------
(* Marking as read or unread (setThreadReadState), opening a conversation   *)
(* included: the row changes at once, and goes from a view of what is       *)
(* unread; no load becomes void.  A conversation that is open may have lost *)
(* its row before: it is taken here as the catalogue has it.                *)

Record(t) == IF t \in DOMAIN rows THEN rows[t] ELSE store[t]

Mark(r, t) ==
    /\ marks[r].at = "idle" /\ MayAct
    /\ Record(t).view # Away
    /\ marks' = [marks EXCEPT ![r] = [NoMark EXCEPT !.at = "sent", !.thread = t,
                                           !.was = Record(t), !.orig = rows]]
    /\ latest' = [latest EXCEPT ![t] = r]
    /\ rows' = IF ~Record(t).read /\ view \in Unread THEN Without(rows, {t})
               ELSE [s \in DOMAIN rows |->
                        IF s = t THEN [rows[s] EXCEPT !.read = ~@] ELSE rows[s]]
    /\ marked' = IF t \in DOMAIN rows THEN marked ELSE marked \cup {t}
    /\ Acted
    /\ UNCHANGED <<store, view, cursor, loading, load, more, moves, moving, erase, sweep,
                   notice, accounts, back, jumps, astray>>

(* The backend looks the message up before it waits for the account, and    *)
(* sets the flag of what there is then.                                     *)
MarkFinds(r) ==
    /\ marks[r].at = "sent"
    /\ marks' = [marks EXCEPT ![r].at =
                    IF StillThere(marks[r].was, marks[r].thread) THEN "found" ELSE "answered"]
    /\ UNCHANGED <<store, view, lists, moves, moving, latest, erase, sweep, notice, accounts, used>>

MarkAnswers(r) ==
    /\ marks[r].at = "found"
    /\ LET t == marks[r].thread
           was == marks[r].was
       IN
       \/ /\ IF StillThere(was, t)
             THEN store' = [store EXCEPT ![t].read = ~was.read] /\ marked' = marked \cup {t}
             ELSE UNCHANGED <<store, marked>>
          /\ marks' = [marks EXCEPT ![r].at = "answered", ![r].ok = TRUE]
       \/ /\ "mark" \in Faults
          /\ marks' = [marks EXCEPT ![r].at = "answered"]
          /\ UNCHANGED <<store, marked>>
    /\ UNCHANGED <<view, rows, cursor, loading, load, more, back, jumps, astray, moves, moving,
                   latest, erase, sweep, notice, accounts, used>>

(* A failure that no later change of the same message supersedes restores   *)
(* the row, in whatever view is on screen, unless it is being moved.        *)
Undone(r, t) ==
    LET again == IF t \in moving THEN NoRows ELSE Only(marks[r].orig, {t})
        all   == Merged(again, rows)
    IN  [s \in DOMAIN all |->
            IF s = t THEN [all[s] EXCEPT !.read = marks[r].was.read] ELSE all[s]]

Marked(r) ==
    /\ marks[r].at = "answered"
    /\ LET t == marks[r].thread IN
       /\ IF ~marks[r].ok /\ latest[t] = r
          THEN rows' = Undone(r, t) /\ back' = back \cup {t}
          ELSE UNCHANGED <<rows, back>>
       /\ latest' = [latest EXCEPT ![t] = IF @ = r THEN Nobody ELSE @]
    /\ marks' = [marks EXCEPT ![r] = NoMark]
    /\ UNCHANGED <<store, view, cursor, loading, load, more, moves, moving, erase, sweep,
                   notice, accounts, used, asides>>

-----------------------------------------------------------------------------
(* Deleting for good (permanentlyDeleteMessage): the row goes, and loads    *)
(* become void, only when the backend has done it.  (The next one waits for *)
(* the reload too, which makes no difference here.)                         *)

Delete(t) ==
    /\ erase.at = "idle" /\ MayAct
    /\ t \in DOMAIN rows
    /\ erase' = [at |-> "sent", thread |-> t, from |-> rows[t].view, ok |-> FALSE]
    /\ Acted
    /\ UNCHANGED <<store, view, lists, moves, moving, marks, latest, sweep, notice,
                   accounts>>

DeleteAnswers ==
    /\ erase.at = "sent"
    /\ \/ /\ store[erase.thread].view = erase.from
          /\ store' = [store EXCEPT ![erase.thread].view = Away]
          /\ erase' = [erase EXCEPT !.at = "answered", !.ok = TRUE]
       \/ /\ store[erase.thread].view # erase.from \/ "delete" \in Faults
          /\ erase' = [erase EXCEPT !.at = "answered"]
          /\ UNCHANGED store
    /\ UNCHANGED <<view, lists, moves, moving, marks, latest, sweep, notice, accounts,
                   used>>

Deleted ==
    /\ erase.at = "answered"
    /\ IF erase.ok
       THEN /\ rows' = Without(rows, {t \in DOMAIN rows : t = erase.thread
                                           /\ rows[t].view = erase.from})
            /\ LoadMessages(view)
       ELSE UNCHANGED <<rows, loading, load, more, jumps, marked>>
    /\ erase' = NoErase
    /\ UNCHANGED <<store, view, cursor, moves, moving, marks, latest, sweep, notice,
                   accounts, used, back, astray>>

-----------------------------------------------------------------------------
(* Cleaning up a sender (trashMessagesFromSender): its rows go at once, and *)
(* a load leaves them out; they come back, in the same view, unless all     *)
(* were moved.                                                              *)

Sweep(s) ==
    /\ sweep.at = "idle" /\ MayAct
    /\ \E t \in DOMAIN rows : Sender[t] = s
    /\ LET S == {t \in Threads : Sender[t] = s} IN
       /\ sweep' = [NoSweep EXCEPT !.at = "sent", !.of = S, !.view = view, !.orig = rows]
       /\ rows' = Without(rows, S)
    /\ Invalidate
    /\ Acted
    /\ UNCHANGED <<store, view, cursor, loading, moves, moving, marks, latest, erase,
                   notice, accounts, back, marked, astray>>

SweepAnswers ==
    /\ sweep.at = "sent"
    /\ LET matched == {t \in sweep.of : store[t].view # Away} IN
       \E S \in SUBSET matched :
          /\ S = matched \/ "sweep" \in Faults
          /\ store' = [t \in Threads |->
                          IF t \in S THEN [store[t] EXCEPT !.view = Away] ELSE store[t]]
          /\ sweep' = [sweep EXCEPT !.at = "answered", !.ok = S # {} /\ S = matched]
    /\ UNCHANGED <<view, lists, moves, moving, marks, latest, erase, notice, accounts,
                   used>>

Swept ==
    /\ sweep.at = "answered"
    /\ IF ~sweep.ok /\ view = sweep.view
       THEN rows' = Merged(rows, Only(sweep.orig, sweep.of)) /\ back' = back \cup sweep.of
       ELSE UNCHANGED <<rows, back>>
    /\ sweep' = NoSweep
    /\ LoadMessages(view)
    /\ UNCHANGED <<store, view, cursor, moves, moving, marks, latest, erase, notice,
                   accounts, used, astray>>

-----------------------------------------------------------------------------
(* What the window waits for comes in the end: the answers and what they do.*)
Answers == SearchAnswers \/ SearchFails \/ ShowPage \/ ServersAnswer \/ ServersFail \/ ShowFound
MovesOn(m) ==
    \/ \E t \in Threads : MoveAnswers(m, t)
    \/ Moved(m) \/ Restore(m) \/ Restored(m)
MarksOn(r) == MarkFinds(r) \/ MarkAnswers(r) \/ Marked(r)
DeletesOn == DeleteAnswers \/ Deleted
SweepsOn == SweepAnswers \/ Swept

Next ==
    \/ Answers
    \/ LoadMore \/ MoreAnswers \/ ShowMore
    \/ \E v \in Views : Switch(v)
    \/ \E j \in Jumps : (\E v \in Views : Jump(j, v)) \/ JumpAnswers(j) \/ ShowJump(j)
    \/ Change \/ MailChanged
    \/ \E a \in Accounts : Finding(a) \/ Rebuilt(a) \/ RemoveAccount(a) \/ AccountRemoved(a)
    \/ \E m \in Moves : (\E S \in SUBSET Threads : Move(m, S)) \/ MovesOn(m)
    \/ \E r \in Marks : (\E t \in Threads : Mark(r, t)) \/ MarksOn(r)
    \/ (\E t \in Threads : Delete(t)) \/ DeletesOn
    \/ (\E t \in Threads : Sweep(Sender[t])) \/ SweepsOn

Spec == Init /\ [][Next]_vars
FairSpec ==
    /\ Spec
    /\ WF_vars(Answers) /\ WF_vars(DeletesOn) /\ WF_vars(SweepsOn)
    /\ \A m \in Moves : WF_vars(MovesOn(m))

-----------------------------------------------------------------------------
(* Nothing is in flight, nothing is unheard of, and the list was loaded. *)
AtRest ==
    /\ load.at = "none" /\ more.at = "idle" /\ ~notice
    /\ \A m \in Moves : moves[m].at = "idle"
    /\ \A r \in Marks : marks[r].at = "idle"
    /\ erase.at = "idle" /\ sweep.at = "idle"
    /\ \A a \in Accounts : accounts[a] \in {"here", "gone"}

(* Once everything has been answered, in any order, each row is of the view *)
(* on screen, but for those that a failure put back after the list was      *)
(* loaded; and where there is one page none is missing.  (A failed change   *)
(* of the read flag puts its row into whichever view has been loaded since, *)
(* so that "back" cannot be left out.)  In a view of what is unread nothing *)
(* loads the list again after a change of the flag: a page that was asked   *)
(* for before brings the row back, so those are excepted there.  And so is  *)
(* an inbox that a notification asked for and that came too late.           *)
OnePage == Cardinality(Threads) <= PageSize
Excused == IF view \in Unread THEN marked ELSE {}
ViewIsRight ==
    AtRest /\ ~astray =>
       /\ DOMAIN rows \subseteq Listed(view) \cup back \cup Excused
       /\ OnePage => Listed(view) \subseteq DOMAIN rows \cup Excused

(* What is being moved or cleaned up is not on screen, so that it cannot be *)
(* acted on twice, unless a failure or a late inbox put it back, or such a  *)
(* row was moved again before the failed move had ended: they share one     *)
(* entry in mailboxActionThreadIdsRef.  (In a list of one page; a further   *)
(* page is merged as it comes.)                                             *)
ActedOnIsHidden ==
    OnePage /\ ~astray =>
    /\ \A m \in Moves : moves[m].at = "sent" =>
          DOMAIN rows \cap moves[m].all \subseteq back \cup moves[m].twice
    /\ sweep.at = "sent" => DOMAIN rows \cap sweep.of \subseteq back

(* The list does not show for ever that it loads, though actions void the   *)
(* loads in flight.                                                         *)
LoadingEnds == loading ~> ~loading
=============================================================================
