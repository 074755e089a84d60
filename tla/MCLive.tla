------------------------------- MODULE MCLive -------------------------------
(***************************************************************************)
(* Liveness, in instances small enough for it: a watcher (MailboxSync),    *)
(* its hydration worker (HydrationQueue), the callers of a classification  *)
(* (Classification), the window that opens a message (BodyCache) and the   *)
(* list that loads (MailView).  A run begins in one of them and stays      *)
(* there, under the fairness that its module states.                       *)
(***************************************************************************)
EXTENDS MailboxSync, TLC

CONSTANTS wa, g1                                   \* MailboxSync
CONSTANTS a, b, m1, m2, n1                         \* HydrationQueue
CONSTANTS d1, d2, k1, cli, Desktop, NoOwner        \* Classification
CONSTANTS i1, win, slot, NoOne, Orphan, NoId       \* BodyCache
CONSTANTS v1, v2, x1, x2, s1, a1                   \* MailView

OnlyWatcher == {wa}
Nobody      == {}
OneId       == {g1}
Synced      == {FALSE}
Plain       == {[uidnext |-> TRUE, condstore |-> FALSE]}

VARIABLE part   \* the component that runs

-----------------------------------------------------------------------------
(* Two recent messages, which may arrive while the watcher runs, and a slot *)
(* each; or two accounts with one slot between them.                        *)
VARIABLES known, cached, queue, watcher, worker, line, told, used
hydrationVars == <<known, cached, queue, watcher, worker, line, told, used>>

One == INSTANCE HydrationQueue WITH
    Accounts <- {a}, Recent <- (a :> <<m1, m2>>), Starred <- (a :> <<>>),
    New <- {m1, m2}, Slots <- 2, InFlight <- 2,
    Limit <- 1, Pages <- 1, StarLimit <- 1, MaxFails <- 1, MaxStops <- 1
Two == INSTANCE HydrationQueue WITH
    Accounts <- {a, b}, Recent <- (a :> <<m1>> @@ b :> <<n1>>),
    Starred <- (a :> <<>> @@ b :> <<n1>>), New <- {}, Slots <- 1, InFlight <- 2,
    Limit <- 1, Pages <- 1, StarLimit <- 1, MaxFails <- 1, MaxStops <- 0

HydrationAtRest == /\ known = 0 /\ cached = 0 /\ queue = 0 /\ watcher = 0
                   /\ worker = 0 /\ line = 0 /\ told = 0 /\ used = 0

-----------------------------------------------------------------------------
(* One message, two drains of the desktop and a command line.               *)
VARIABLES mail, meta, sched, runner, client, events
classVars == <<mail, meta, sched, runner, client, events>>

Class == INSTANCE Classification WITH
    Msgs <- {m1}, Drains <- {d1, d2}, Clis <- {cli}, Clients <- {k1},
    Revision <- (Desktop :> 1 @@ cli :> 2),
    BatchSize <- 1, MaxRetries <- 1, MaxKicks <- 1, MaxEvents <- 1

ClassAtRest == /\ mail = 0 /\ meta = 0 /\ sched = 0
               /\ runner = 0 /\ client = 0 /\ events = 0

-----------------------------------------------------------------------------
(* One id, a window and a slot; the mailbox is recreated once.              *)
VARIABLES box, boxState, row, flagged, tomb, cache, starred, claim, old, task, act,
          lapses, actions
bodyVars == <<box, boxState, row, flagged, tomb, cache, starred, claim, old, task, act,
              lapses, actions>>

Body == INSTANCE BodyCache WITH
    Ids <- {i1}, Recent <- {i1}, Readers <- {win}, Warmers <- {slot},
    MaxBody <- 2, MaxValidity <- 2, MaxFaults <- 1, MaxEvents <- 0, MaxWaits <- 1,
    Budget <- 1, Size <- [n \in 0..2 |-> n],
    server <- box, catalog <- boxState, user <- act, faults <- lapses, events <- actions

BodyAtRest == /\ box = 0 /\ boxState = 0 /\ row = 0 /\ flagged = 0 /\ tomb = 0
              /\ cache = 0 /\ starred = 0 /\ claim = 0 /\ old = 0 /\ task = 0
              /\ act = 0 /\ lapses = 0 /\ actions = 0

-----------------------------------------------------------------------------
(* Two views, two moves or a clean-up in flight, one change of view.        *)
VARIABLES inStore, view, listed, cursor, loading, load, more, jumps, moves, moving, marks,
          latest, erase, sweep, notice, phases, back, marked, astray, clicks
listVars == <<inStore, view, listed, cursor, loading, load, more, jumps, moves, moving, marks,
              latest, erase, sweep, notice, phases, back, marked, astray, clicks>>

List == INSTANCE MailView WITH
    Threads <- 1..2, Views <- {v1, v2}, Searches <- {}, Unread <- {}, Inboxes <- {v1},
    Start <- <<v1, v1>>, Sender <- <<s1, s1>>, Accounts <- {a1}, Owner <- <<a1, a1>>,
    Moves <- {x1, x2}, Marks <- {}, Jumps <- {}, PageSize <- 3,
    Faults <- {"move"},
    MaxSwitches <- 1, MaxActions <- 2, MaxChanges <- 0,
    store <- inStore, rows <- listed, accounts <- phases, used <- clicks

ListAtRest == /\ inStore = 0 /\ view = 0 /\ listed = 0 /\ cursor = 0 /\ loading = 0
              /\ load = 0 /\ more = 0 /\ jumps = 0 /\ moves = 0 /\ moving = 0
              /\ marks = 0 /\ latest = 0 /\ erase = 0 /\ sweep = 0 /\ notice = 0
              /\ phases = 0 /\ back = 0 /\ marked = 0 /\ astray = 0 /\ clicks = 0

-----------------------------------------------------------------------------
(* The watcher's mailbox at rest: an empty one. *)
SyncAtRest ==
    /\ srv = [validity |-> 1, uids |-> {}, next |-> 1, caps |-> CHOOSE c \in Capabilities : TRUE]
    /\ rows = [u \in Uids |-> 0]
    /\ catalog = NoCatalog /\ sync = NoSync /\ failures = {} /\ tombs = {} /\ gen = NoStage
    /\ pc = [w \in Workers |-> "idle"] /\ job = [w \in Workers |-> NoJob]
    /\ user = [uid |-> 0, validity |-> 0] /\ faults = 0 /\ gone = {} /\ notified = {}

ASSUME LiveAssumption ==
    /\ One!HydrationAssumption /\ Two!HydrationAssumption
    /\ Class!ClassificationAssumption /\ Body!BodyAssumption
    /\ List!MailViewAssumption

MCInit ==
    /\ part \in {"sync", "one", "two", "class", "body", "list"}
    /\ IF part = "sync" THEN Init ELSE SyncAtRest
    /\ CASE part = "one" -> One!Init [] part = "two" -> Two!Init [] OTHER -> HydrationAtRest
    /\ IF part = "class" THEN Class!Init ELSE ClassAtRest
    /\ IF part = "body" THEN Body!Init ELSE BodyAtRest
    /\ IF part = "list" THEN List!Init ELSE ListAtRest

Sync(A)       == /\ part = "sync" /\ A
                 /\ UNCHANGED <<part, hydrationVars, classVars, bodyVars, listVars>>
Hydrate(i, A) == /\ part = i /\ A
                 /\ UNCHANGED <<part, vars, classVars, bodyVars, listVars>>
Classify(A)   == /\ part = "class" /\ A
                 /\ UNCHANGED <<part, vars, hydrationVars, bodyVars, listVars>>
Display(A)    == /\ part = "body" /\ A
                 /\ UNCHANGED <<part, vars, hydrationVars, classVars, listVars>>
Browse(A)     == /\ part = "list" /\ A
                 /\ UNCHANGED <<part, vars, hydrationVars, classVars, bodyVars>>

MCNext == \/ Sync(Next)
          \/ Hydrate("one", One!Next) \/ Hydrate("two", Two!Next)
          \/ Classify(Class!Next) \/ Display(Body!Next)
          \/ Browse(List!Next)

all == <<part, vars, hydrationVars, classVars, bodyVars, listVars>>

(* The fairness of each module's specification.  Only the part that runs    *)
(* takes steps, so the k-th action that each part is fair to share one WF.  *)
Fair(k) ==
    CASE k = 1 -> \/ Sync(\E w \in Watchers : StartWatcher(w) \/ Progress(w))
                  \/ Hydrate("one", One!Steps(a)) \/ Hydrate("two", Two!Steps(a))
                  \/ Classify(Class!Step(d1)) \/ Display(Body!FetchStep(win))
                  \/ Browse(List!Answers)
      [] k = 2 -> \/ Hydrate("one", One!Cycle(a)) \/ Hydrate("two", Two!Cycle(a))
                  \/ Classify(Class!Step(d2)) \/ Display(Body!FetchStep(slot))
                  \/ Browse(List!DeletesOn)
      [] k = 3 -> \/ Hydrate("one", One!Start(a)) \/ Hydrate("two", Two!Start(a))
                  \/ Classify(Class!Step(cli)) \/ Browse(List!SweepsOn)
      [] k = 4 -> \/ Hydrate("two", Two!Steps(b)) \/ Classify(Class!Waiting(k1))
                  \/ Browse(List!MovesOn(x1))
      [] k = 5 -> Hydrate("two", Two!Cycle(b)) \/ Browse(List!MovesOn(x2))
      [] k = 6 -> Hydrate("two", Two!Start(b))

MCSpec == MCInit /\ [][MCNext]_all /\ \A k \in 1..6 : WF_all(Fair(k))

-----------------------------------------------------------------------------
(* The hydration worker tells of arrivals in their order, and nothing of a  *)
(* stopped watcher keeps running.                                           *)
ToldInOrder      == (part = "one" => One!ToldInOrder) /\ (part = "two" => Two!ToldInOrder)
NothingAfterStop ==
    (part = "one" => One!NothingAfterStop) /\ (part = "two" => Two!NothingAfterStop)

(* Every recent message is attempted in the end. *)
Known(m) == part \in {"one", "two"} /\ m \in known
Tried(m) == (part = "one" /\ One!Attempted(m)) \/ (part = "two" /\ Two!Attempted(m))
EveryRecentTried == \A m \in {m1, m2, n1} : Known(m) ~> Tried(m)

(* Every caller of a classification is answered. *)
WaitEnds ==
    (part = "class" /\ client[k1].at # "idle")
        ~> (part = "class" /\ client[k1].at \in {"ok", "failed"})

(* The list of the main window does not show for ever that it loads.        *)
LoadingEnds == (part = "list" /\ loading) ~> (part = "list" /\ ~loading)

(* Every window that opens a message gets an answer. *)
OpenEnds ==
    (part = "body" /\ task[win].at # "idle") ~> (part = "body" /\ task[win].at = "idle")
=============================================================================
