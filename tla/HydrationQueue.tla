---------------------------- MODULE HydrationQueue ----------------------------
(***************************************************************************)
(* The background worker of each account's watcher: what it hydrates and   *)
(* in which order.  A cycle of the watcher queues its arrivals and, when it *)
(* is due, one maintenance pass; the worker takes arrivals first, plans a  *)
(* batch, and fetches it in a few tasks that share one set of slots with   *)
(* every other account.  BodyCache has the steps of one fetch, MailboxSync *)
(* those of a cycle, MailRebuild the supervisor that starts and stops      *)
(* watchers; here they are single steps.                                   *)
(***************************************************************************)
EXTENDS Naturals, SequencesExt

CONSTANTS
    Accounts,
    Recent,     \* account -> its recent messages of the primary folders, newest first
    Starred,    \* account -> its starred messages, newest first
    New,        \* messages that arrive while the watcher runs
    Slots,      \* HYDRATION_CONCURRENCY, of the whole process
    InFlight,   \* HYDRATION_CONCURRENCY, of a batch
    Limit,      \* BODY_CACHE_WARM_BATCH_LIMIT
    Pages,      \* BODY_CACHE_WARM_CANDIDATE_PAGES_PER_CYCLE
    StarLimit,  \* the limit of uncached_starred_messages
    MaxFails,   \* bound: fetches that fail, or find a reader's claim
    MaxStops    \* bound: watchers stopped and started again

Msgs == UNION {Range(Recent[a]) \cup Range(Starred[a]) : a \in Accounts}

HydrationAssumption ==
    /\ \A a \in Accounts : Recent[a] \in Seq(Msgs) /\ Starred[a] \in Seq(Msgs)
    /\ New \subseteq Msgs
    /\ {Slots, InFlight, Limit, Pages, StarLimit} \subseteq Nat \ {0}
    /\ MaxFails \in Nat /\ MaxStops \in Nat

VARIABLES
    known,   \* messages whose header is stored
    cached,  \* messages whose body is
    queue,   \* account -> arrivals, and whether a maintenance pass is queued
    watcher, \* account -> "run", "stopping" (hydration_cancel is set) or "off"
    worker,  \* account -> its state and locals
    line,    \* the semaphore: tasks waiting for a slot, in order
    told,    \* account -> "mail-hydrated" events of the batch, in order
    used     \* how much of each bound is used

vars == <<known, cached, queue, watcher, worker, line, told, used>>

NoBatch == [pending |-> <<>>, warm |-> FALSE]
Fresh   == [at |-> "select", batch |-> NoBatch, sel |-> <<>>, pages |-> 0, plan |-> <<>>,
            next |-> 1, task |-> <<>>, ended |-> <<>>, cool |-> {}, offset |-> 0]

Init ==
    /\ known = Msgs \ New /\ cached = {}
    /\ queue = [a \in Accounts |-> [arrivals |-> <<>>, maintenance |-> FALSE]]
    /\ watcher = [a \in Accounts |-> "run"]
    /\ worker = [a \in Accounts |-> Fresh]
    /\ line = <<>>
    /\ told = [a \in Accounts |-> <<>>]
    /\ used = [fails |-> 0, stops |-> 0]

At(a, at)    == worker[a].at = at
Now(a, w)    == worker' = [worker EXCEPT ![a] = w]
Cancelled(a) == watcher[a] # "run"

(* The k-th of a set of numbers, and what a sequence has at a set of places. *)
Nth(S, k)      == CHOOSE i \in S : Cardinality({j \in S : j < i}) = k - 1
Select(s, S)   == [k \in 1..Cardinality(S) |-> s[Nth(S, k)]]
Keep(ms, S)    == Select(ms, {i \in DOMAIN ms : ms[i] \in S})

-----------------------------------------------------------------------------
(* run_watcher *)

(* A cycle stored the headers of new mail. *)
Arrive(a, ms) ==
    /\ watcher[a] = "run" /\ ms # {} /\ ms \subseteq Range(Recent[a]) \ known
    /\ known' = known \cup ms
    /\ queue' = [queue EXCEPT ![a].arrivals = Append(@, Keep(Recent[a], ms))]
    /\ UNCHANGED <<cached, watcher, worker, line, told, used>>

(* body_cache_warm_due: try_send on a channel of capacity 1. *)
Warm(a) ==
    /\ watcher[a] = "run"
    /\ queue' = [queue EXCEPT ![a].maintenance = TRUE]
    /\ UNCHANGED <<known, cached, watcher, worker, line, told, used>>

(* The supervisor cancels the watcher, which cancels its worker. *)
Stop(a) ==
    /\ watcher[a] = "run" /\ used.stops < MaxStops
    /\ used' = [used EXCEPT !.stops = @ + 1]
    /\ watcher' = [watcher EXCEPT ![a] = "stopping"]
    /\ UNCHANGED <<known, cached, queue, worker, line, told>>

(* Mutant: the watcher does not wait for its worker. *)
StopsAlone(a) == TRUE

(* hydration_handle.await *)
WorkerDone(a) == At(a, "ended")

Stopped(a) ==
    /\ watcher[a] = "stopping" /\ WorkerDone(a)
    /\ watcher' = [watcher EXCEPT ![a] = "off"]
    /\ UNCHANGED <<known, cached, queue, worker, line, told, used>>

(* run_watcher again, with new queues. *)
Start(a) ==
    /\ watcher[a] = "off"
    /\ watcher' = [watcher EXCEPT ![a] = "run"]
    /\ queue' = [queue EXCEPT ![a] = [arrivals |-> <<>>, maintenance |-> FALSE]]
    /\ Now(a, Fresh)
    /\ told' = [told EXCEPT ![a] = <<>>]
    /\ UNCHANGED <<known, cached, line, used>>

-----------------------------------------------------------------------------
(* run_prioritized_hydration_batches and hydrate_after_sync *)

(* The select is biased: cancellation, then arrivals, then maintenance. *)
Take(a) ==
    LET q == queue[a]
    IN /\ At(a, "select")
       /\ \/ /\ Cancelled(a)
             /\ Now(a, [worker[a] EXCEPT !.at = "ended"]) /\ UNCHANGED queue
          \/ /\ ~Cancelled(a) /\ q.arrivals # <<>>
             /\ Now(a, [worker[a] EXCEPT !.at = "plan", !.sel = <<>>,
                          !.batch = [pending |-> Head(q.arrivals), warm |-> FALSE]])
             /\ queue' = [queue EXCEPT ![a].arrivals = Tail(@)]
          \/ /\ ~Cancelled(a) /\ q.arrivals = <<>> /\ q.maintenance
             /\ Now(a, [worker[a] EXCEPT !.at = "load", !.sel = <<>>, !.pages = 0,
                          !.batch = [pending |-> <<>>, warm |-> TRUE]])
             /\ queue' = [queue EXCEPT ![a].maintenance = FALSE]
       /\ told' = [told EXCEPT ![a] = <<>>]
       /\ UNCHANGED <<known, cached, watcher, line, used>>

(* recent_body_cache_candidates_page, at the time of the query. *)
Page(a, offset) ==
    LET all == Keep(Recent[a], known \ cached)
    IN SubSeq(all, offset + 1, IF Len(all) < offset + Limit THEN Len(all) ELSE offset + Limit)

(* Mutant: every pass looks at the newest pages. *)
AlwaysFromStart(w, pages, empty, full) == 0

(* next_recent_candidate_offset *)
NextOffset(w, pages, empty, full) ==
    IF empty \/ full THEN 0 ELSE w.offset + pages * Limit

(* load_recent_warm_candidates: pages are read until the batch is full, one  *)
(* is empty, or the pass has read enough; select_recent_candidate_page      *)
(* leaves out what failed lately, once the cooldowns that lapsed are gone.  *)
Load(a) == \E warm \in IF worker[a].pages = 0 THEN SUBSET worker[a].cool ELSE {worker[a].cool} :
    LET w    == [worker[a] EXCEPT !.cool = warm]
        page == Page(a, w.offset + w.pages * Limit)
        pick == Keep(page, Range(page) \ w.cool)
        room == Limit - Len(w.sel)
        sel  == w.sel \o SubSeq(pick, 1, IF Len(pick) < room THEN Len(pick) ELSE room)
        full == Len(sel) = Limit
        over == page = <<>> \/ full \/ w.pages + 1 = Pages
    IN /\ At(a, "load")
       /\ Now(a, IF Cancelled(a) THEN [w EXCEPT !.at = "plan", !.sel = <<>>]
                 ELSE [w EXCEPT !.sel = sel, !.pages = @ + 1,
                         !.at = IF over THEN "plan" ELSE "load",
                         !.offset = IF over THEN NextOffset(w, w.pages + 1, page = <<>>, full)
                                    ELSE @])
       /\ UNCHANGED <<known, cached, queue, watcher, line, told, used>>

(* hydration_plan: arrivals, recent, starred, each message once. *)
PlanOf(pending, recent, starred) ==
    LET of(ms, kind) == [i \in 1..Len(ms) |-> [kind |-> kind, msg |-> ms[i]]]
        all == of(pending, "pending") \o of(recent, "recent") \o of(starred, "starred")
        first(i) == \A j \in 1..(i - 1) : all[j].msg # all[i].msg
    IN Select(all, {i \in DOMAIN all : first(i)})

Plan(a) ==
    LET stars == Keep(Starred[a], known \ cached)
    IN /\ At(a, "plan")
       /\ Now(a, [worker[a] EXCEPT !.at = "run", !.sel = <<>>, !.next = 1, !.task = <<>>,
                    !.ended = <<>>, !.plan = PlanOf(worker[a].batch.pending, worker[a].sel,
                        SubSeq(stars, 1, IF Len(stars) < StarLimit THEN Len(stars) ELSE StarLimit))])
       /\ UNCHANGED <<known, cached, queue, watcher, line, told, used>>

-----------------------------------------------------------------------------
(* run_bounded_cancellable_ordered *)

Active(a)   == {i \in DOMAIN worker[a].task : worker[a].task[i] # "ended"}
Fetching(a) == {i \in DOMAIN worker[a].task : worker[a].task[i] = "fetch"}
Holders     == UNION {{<<a, i>> : i \in Fetching(a)} : a \in Accounts}

(* A task of the batch ends, with a result unless it was never started. *)
End(a, i, result) ==
    [worker[a] EXCEPT !.task[i] = "ended",
       !.ended = IF result = "dropped" THEN @ ELSE Append(@, [i |-> i, res |-> result])]

(* No task is started once the worker is cancelled. *)
Fill(a) ==
    LET w == worker[a]
    IN /\ At(a, "run") /\ ~Cancelled(a)
       /\ Cardinality(Active(a)) < InFlight /\ w.next <= Len(w.plan)
       /\ Now(a, [w EXCEPT !.next = @ + 1, !.task = Append(@, "wait")])
       /\ line' = Append(line, <<a, w.next>>)
       /\ UNCHANGED <<known, cached, queue, watcher, told, used>>

(* The semaphore serves in order; hydrate_target looks at the cancellation. *)
Acquire(a, i) ==
    /\ line # <<>> /\ Head(line) = <<a, i>> /\ Cardinality(Holders) < Slots
    /\ line' = Tail(line)
    /\ Now(a, IF Cancelled(a) THEN End(a, i, "cancelled")
              ELSE [worker[a] EXCEPT !.task[i] = "fetch"])
    /\ UNCHANGED <<known, cached, queue, watcher, told, used>>

(* A waiting task is told first. *)
Drop(a, i) ==
    /\ Cancelled(a) /\ i \in Active(a) \ Fetching(a)
    /\ \E k \in DOMAIN line : line[k] = <<a, i>> /\ line' = RemoveAt(line, k)
    /\ Now(a, End(a, i, "dropped"))
    /\ UNCHANGED <<known, cached, queue, watcher, told, used>>

(* hydrate_target: the body is cached; a reader has the claim; the fetch    *)
(* fails; or it is given up, by a cancellation.                             *)
Fetch(a, i) ==
    LET m == worker[a].plan[i].msg
    IN /\ i \in Fetching(a)
       /\ \/ /\ cached' = cached \cup {m}
             /\ Now(a, End(a, i, "ok")) /\ UNCHANGED used
          \/ /\ used.fails < MaxFails /\ used' = [used EXCEPT !.fails = @ + 1]
             /\ \E res \in {"none", "error"} : Now(a, End(a, i, res))
             /\ UNCHANGED cached
          \/ /\ Cancelled(a)
             /\ Now(a, End(a, i, "cancelled")) /\ UNCHANGED <<cached, used>>
       /\ UNCHANGED <<known, queue, watcher, line, told>>

(* Mutant: results are published as they came. *)
AsTheyCame(ended) == ended

(* completed.sort_by_key: a task has one result. *)
InPlanOrder(ended) ==
    LET tasks == {r.i : r \in Range(ended)}
    IN [k \in 1..Cardinality(tasks) |-> CHOOSE r \in Range(ended) : r.i = Nth(tasks, k)]

(* Every task has ended: events for what arrived, in the order of the plan; *)
(* a recent message that failed cools down, another is forgiven.            *)
Publish(a) ==
    LET w  == worker[a]
        rs == InPlanOrder(w.ended)
        hit(res, kinds) == {w.plan[r.i].msg : r \in {x \in Range(rs) :
                               x.res \in res /\ w.plan[x.i].kind \in kinds}}
        event(r) == r.res = "ok" /\ w.plan[r.i].kind = "pending"
        events   == Select(rs, {k \in DOMAIN rs : event(rs[k])})
    IN /\ At(a, "run") /\ Active(a) = {} /\ (Cancelled(a) \/ w.next > Len(w.plan))
       /\ told' = [told EXCEPT ![a] = [k \in DOMAIN events |-> w.plan[events[k].i].msg]]
       /\ Now(a, [w EXCEPT !.at = "select", !.plan = <<>>, !.task = <<>>,
                     !.ended = <<>>, !.next = 1, !.pages = 0,
                     !.cool = (@ \cup hit({"error"}, {"recent"}))
                                \ (hit({"none"}, {"pending", "recent", "starred"})
                                     \cup hit({"ok"}, {"recent", "starred"}))])
       /\ UNCHANGED <<known, cached, queue, watcher, line, used>>

Task(a) == \/ Take(a) \/ Load(a) \/ Plan(a) \/ Fill(a) \/ Publish(a)
           \/ \E i \in DOMAIN worker[a].task : Acquire(a, i) \/ Drop(a, i) \/ Fetch(a, i)

Next ==
    \E a \in Accounts :
       \/ \E ms \in SUBSET New : Arrive(a, ms)
       \/ Warm(a) \/ Stop(a) \/ Stopped(a) \/ Start(a)
       \/ Take(a) \/ Load(a) \/ Plan(a) \/ Fill(a) \/ Publish(a)
       \/ \E i \in DOMAIN worker[a].task : Acquire(a, i) \/ Drop(a, i) \/ Fetch(a, i)

(* The runtime polls every task that can run, a watcher's cycles go on, and *)
(* a fetch ends: its commands have a timeout.                               *)
Steps(a)  == Task(a) \/ Stopped(a)
Cycle(a)  == Warm(a)
Spec == /\ Init /\ [][Next]_vars
        /\ \A a \in Accounts : WF_vars(Steps(a)) /\ WF_vars(Cycle(a)) /\ WF_vars(Start(a))

-----------------------------------------------------------------------------
(* Properties *)

(* The events of a batch come in the order of its arrivals, though fetches  *)
(* finish in any order (run_bounded_cancellable_ordered).                   *)
ToldInOrder ==
    \A a \in Accounts : LET pending == worker[a].batch.pending IN
       \E from \in [DOMAIN told[a] -> DOMAIN pending] :
          /\ \A k \in DOMAIN told[a] : told[a][k] = pending[from[k]]
          /\ \A j, k \in DOMAIN told[a] : j < k => from[j] < from[k]

(* When a watcher has stopped, none of its tasks is left, and no slot is    *)
(* held or awaited for it (run_watcher).                                    *)
NothingAfterStop ==
    \A a \in Accounts : watcher[a] = "off" =>
       Active(a) = {} /\ \A k \in DOMAIN line : line[k][1] # a

Attempted(m) ==
    m \in cached \/ \E a \in Accounts : m \in worker[a].cool
                    \/ \E i \in Fetching(a) : worker[a].plan[i].msg = m

(* Every recent message is attempted in the end, however many newer ones    *)
(* fail and cool down, and whatever other accounts do with the slots        *)
(* (load_recent_warm_candidates).                                           *)
EveryRecentTried ==
    \A a \in Accounts : \A m \in Range(Recent[a]) : m \in known ~> Attempted(m)
=============================================================================
