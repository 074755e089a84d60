----------------------------- MODULE MailRebuild -----------------------------
(***************************************************************************)
(* The operations of one account in the desktop process: full re-indexing, *)
(* settings updates, removal, real-time reconciliation and startup.        *)
(*                                                                         *)
(* They share the durable rebuild job, its copy in memory, a reservation   *)
(* that keeps rebuilds from running twice, a cancellation channel, the     *)
(* account's operation lock, and the INBOX watcher.  Each action is the    *)
(* code of a task between two awaits, or between two locks of a shared     *)
(* table.  An account is the number of its mail namespace (servers and     *)
(* folders): every change of namespace takes the next number, and 0 is a   *)
(* removed account.                                                        *)
(***************************************************************************)
EXTENDS Naturals, Sequences

CONSTANTS
    Tasks,       \* tasks of the asynchronous runtime
    NoTask,      \* nobody
    MaxNs,       \* bound: namespaces the account ever has
    MaxFaults,   \* bound: failures and restarts
    Faults,      \* what may fail: subset of {"storage", "provider", "crash"}
    StoredJobs   \* the jobs an earlier run may have left in the store

ASSUME RebuildAssumption ==
    /\ NoTask \notin Tasks /\ Tasks # {}
    /\ MaxNs \in Nat \ {0} /\ MaxFaults \in Nat
    /\ Faults \subseteq {"storage", "provider", "crash"}
    /\ StoredJobs \subseteq {"none", "resume", "reset"}

VARIABLES
    account,    \* the accounts row: its namespace, 0 once removed
    job,        \* mail_rebuild_jobs: "none", "resume" or "reset" (reset_before_sync)
    index,      \* the namespace the catalogue was built from, 0 = none
    mem,        \* mail_rebuilds, the jobs in memory
    running,    \* mail_rebuild_running, the reservation
    channel,    \* mail_rebuild_cancellations
    lock,       \* the account's operation lock: its holder, then who waits
    lifecycle,  \* who holds watcher_lifecycle for writing
    watcher,    \* the namespace the INBOX watcher runs on, 0 = no watcher
    task,       \* task -> what it does, and its locals
    faults,     \* the failures so far, in order
    leaving     \* history: the user has asked to remove the account

durable == <<account, job, index>>
shared  == <<mem, running, channel>>
vars    == <<account, job, index, mem, running, channel, lock, lifecycle,
             watcher, task, faults, leaving>>

Kind(reset) == IF reset THEN "reset" ELSE "resume"

Idle == [op |-> "none", at |-> "idle", reset |-> FALSE, change |-> "none",
         snap |-> 0, then |-> "idle", stopped |-> FALSE, end |-> "none",
         keep |-> FALSE]
NoChannel == [open |-> FALSE, disposition |-> "None", registrations |-> 0,
              reserved |-> FALSE]

(* The process has just started: the account was set up earlier, with or    *)
(* without a complete index, and the startup task is about to run.          *)
Init ==
    /\ account = 1
    /\ job \in StoredJobs
    /\ index = IF job = "reset" THEN 0 ELSE 1
    /\ mem = job /\ running = FALSE /\ channel = NoChannel
    /\ lock = <<>> /\ lifecycle = NoTask /\ watcher = 0
    /\ \E s \in Tasks :
          task = [t \in Tasks |-> IF t = s THEN [Idle EXCEPT !.op = "startup",
                                                            !.at = "startup"]
                                  ELSE Idle]
    /\ faults = <<>> /\ leaving = FALSE

-----------------------------------------------------------------------------
(* Control, the operation lock and the cancellation channel *)

At(t, at)     == task[t].at = at
Now(t, l)     == task' = [task EXCEPT ![t] = l]
Go(t, at)     == Now(t, [task[t] EXCEPT !.at = at])
Become(t, op, at) == Now(t, [Idle EXCEPT !.op = op, !.at = at])
Done(t)       == Now(t, Idle)
Holds(t)      == lock # <<>> /\ Head(lock) = t
Unlock(t)     == lock' = IF Holds(t) THEN Tail(lock) ELSE lock
Fault(kind)   == /\ kind \in Faults /\ Len(faults) < MaxFaults
                 /\ faults' = Append(faults, kind)
NoWriter      == lifecycle = NoTask

(* MailRebuildCancellations::request keeps the strongest disposition, and   *)
(* only an open channel hears it.                                           *)
Rank == [None |-> 0, Retain |-> 1, Remove |-> 2]
Requested(d) ==
    IF channel.open /\ Rank[channel.disposition] < Rank[d]
    THEN [channel EXCEPT !.disposition = d] ELSE channel

(* Mutant: the channel outlives its last user. *)
Kept(c) == c

(* MailRebuildCancellations::register *)
Registered(c) == [c EXCEPT !.open = TRUE, !.registrations = @ + 1]

(* A channel without registration or reservation is dropped. *)
Pruned(c) == IF c.registrations = 0 /\ ~c.reserved THEN NoChannel ELSE c

-----------------------------------------------------------------------------
(* Reserving a rebuild *)

(* sync_account(full) refuses when a rebuild is reserved. *)
SyncAccount(t) ==
    /\ task[t] = Idle /\ ~running
    /\ running' = TRUE
    /\ Become(t, "sync", "entry")
    /\ UNCHANGED <<durable, mem, channel, lock, lifecycle, watcher, faults, leaving>>

(* resume_scheduled_mail_rebuild, the last call of update_account: reserve  *)
(* the job that is still scheduled, unless a rebuild is already reserved.   *)
Resume(t) ==
    LET pending == IF mem # "none" THEN mem ELSE job
    IN /\ At(t, "resume")
       /\ \/ /\ pending = "none" \/ running
             /\ Go(t, "leave") /\ UNCHANGED <<running, faults>>
          \/ /\ pending # "none" /\ ~running
             /\ running' = TRUE
             /\ Now(t, [task[t] EXCEPT !.reset = pending = "reset", !.at = "entry"])
             /\ UNCHANGED faults
          \/ /\ mem = "none" /\ Fault("storage")
             /\ Go(t, "leave") /\ UNCHANGED running
       /\ UNCHANGED <<durable, mem, channel, lock, lifecycle, watcher, leaving>>

(* The second half of reserve_mail_rebuild.  The caller then carries on, or *)
(* has spawned the worker and returns, which drops its operation lock.      *)
ReserveChannel(t) ==
    /\ At(t, "entry")
    /\ channel' = [channel EXCEPT !.open = TRUE, !.reserved = TRUE]
    /\ IF task[t].op = "sync" THEN Go(t, "lookup")
       ELSE Now(t, [Idle EXCEPT !.op = "rebuild", !.at = "register",
                                !.reset = task[t].reset])
    /\ Unlock(t)
    /\ UNCHANGED <<durable, mem, running, lifecycle, watcher, faults, leaving>>

(* sync_account looks the account and the job up, without the lock. *)
Lookup(t) ==
    /\ At(t, "lookup")
    /\ \/ account = 0 /\ Go(t, "release") /\ UNCHANGED faults
       \/ /\ account # 0 /\ UNCHANGED faults
          /\ Now(t, [task[t] EXCEPT !.reset = mem # "resume", !.at = "schedule"])
       \/ Fault("storage") /\ Go(t, "release")
    /\ UNCHANGED <<durable, shared, lock, lifecycle, watcher, leaving>>

(* Mutant: the job of a removed account is stored. *)
AnyAccount == TRUE

(* Trigger mail_rebuild_jobs_require_account *)
AccountExists == account # 0

(* schedule_mail_rebuild stores the job before it shows it in memory. *)
Schedule(t) ==
    /\ At(t, "schedule")
    /\ \/ /\ AccountExists
          /\ job' = Kind(task[t].reset) /\ mem' = job'
          /\ Now(t, [task[t] EXCEPT !.op = "rebuild", !.at = "register"])
          /\ UNCHANGED faults
       \/ /\ IF AccountExists THEN Fault("storage") ELSE UNCHANGED faults
          /\ Go(t, "release")
          /\ UNCHANGED <<job, mem>>
    /\ UNCHANGED <<account, index, running, channel, lock, lifecycle, watcher, leaving>>

-----------------------------------------------------------------------------
(* run_mail_rebuild *)

(* It registers for cancellation before it queues for the operation lock.   *)
Register(t) ==
    /\ At(t, "register")
    /\ channel' = Registered(channel)
    /\ lock' = Append(lock, t)
    /\ Go(t, "wait")
    /\ UNCHANGED <<durable, mem, running, lifecycle, watcher, faults, leaving>>

(* With the lock: the account is read again, and a durable reset is never   *)
(* downgraded (effective_rebuild_reset).                                    *)
Enter(t) ==
    /\ At(t, "wait") /\ task[t].op = "rebuild" /\ Holds(t)
    /\ \/ /\ account = 0
          /\ mem' = "none" /\ Go(t, "clear") /\ UNCHANGED faults
       \/ /\ account # 0
          /\ Now(t, [task[t] EXCEPT !.reset = @ \/ job = "reset", !.at = "check"])
          /\ UNCHANGED <<mem, faults>>
       \/ Fault("storage") /\ Go(t, "clear") /\ UNCHANGED mem
    /\ UNCHANGED <<durable, running, channel, lock, lifecycle, watcher, leaving>>

(* run_mail_rebuild_locked: a rebuild cancelled while it was queued ends    *)
(* here; any other stops the watcher and waits for it.                      *)
Check(t) ==
    /\ At(t, "check")
    /\ \/ /\ channel.disposition # "None"
          /\ Now(t, [task[t] EXCEPT !.end = "cancelled", !.at = "settle"])
          /\ UNCHANGED watcher
       \/ /\ channel.disposition = "None" /\ NoWriter
          /\ watcher' = 0
          /\ Now(t, [task[t] EXCEPT !.stopped = TRUE, !.at = "begin"])
    /\ UNCHANGED <<durable, shared, lock, lifecycle, faults, leaving>>

(* The job is saved again before the provider is contacted. *)
Begin(t) ==
    /\ At(t, "begin")
    /\ \/ /\ job' = Kind(task[t].reset) /\ mem' = job'
          /\ Go(t, "sync") /\ UNCHANGED faults
       \/ /\ Fault("storage")
          /\ Now(t, [task[t] EXCEPT !.end = "failed", !.at = "settle"])
          /\ UNCHANGED <<job, mem>>
    /\ UNCHANGED <<account, index, running, channel, lock, lifecycle, watcher, leaving>>

(* The re-indexing itself (module MailboxSync) succeeds, fails, or loses    *)
(* the race against a cancellation.                                         *)
Rebuild(t) ==
    /\ At(t, "sync")
    /\ \E end \in {"ok", "failed", "rejected", "cancelled"} :
         /\ CASE end = "ok"        -> UNCHANGED faults
              [] end = "cancelled" -> channel.disposition # "None" /\ UNCHANGED faults
              [] OTHER             -> Fault("provider")
         /\ index' = IF end = "ok" THEN account ELSE index
         /\ Now(t, [task[t] EXCEPT !.end = end, !.at = "settle"])
    /\ UNCHANGED <<account, job, shared, lock, lifecycle, watcher, leaving>>

(* Mutant: rejected credentials end a first index too. *)
RetainsUnlessRejected(t) ==
    \/ channel.disposition = "Retain"
    \/ channel.disposition = "None" /\ task[t].end = "failed"

(* should_retain_mail_rebuild_job *)
Retains(t) ==
    \/ channel.disposition = "Retain"
    \/ /\ channel.disposition = "None" /\ task[t].end \in {"failed", "rejected"}
       /\ task[t].reset \/ task[t].end = "failed"

(* The finished rebuild's job is deleted, or kept with its last checkpoint. *)
Settle(t) ==
    LET keep == task[t].end # "ok" /\ Retains(t)
    IN /\ At(t, "settle")
       /\ \/ /\ job' = IF ~keep THEN "none" ELSE IF mem = "none" THEN job ELSE mem
             /\ UNCHANGED faults
          \/ Fault("storage") /\ UNCHANGED job
       /\ mem' = "none"
       /\ Now(t, [task[t] EXCEPT !.keep = keep, !.at = "restart"])
       /\ UNCHANGED <<account, index, running, channel, lock, lifecycle, watcher, leaving>>

(* Mutant: a reset never hands the account back to the watcher. *)
RestartsUnlessReset(t) == task[t].stopped /\ ~task[t].reset

(* No watcher on an old catalogue while a reset is pending. *)
Restarts(t) == task[t].stopped /\ ~(task[t].keep /\ task[t].reset)

(* restart_realtime_if_current *)
Restart(t) ==
    /\ At(t, "restart")
    /\ \/ /\ Restarts(t) /\ account # 0 /\ NoWriter
          /\ watcher' = account /\ UNCHANGED faults
       \/ ~(Restarts(t) /\ account # 0) /\ UNCHANGED <<watcher, faults>>
       \/ Restarts(t) /\ Fault("storage") /\ UNCHANGED watcher
    /\ Go(t, "clear")
    /\ UNCHANGED <<durable, shared, lock, lifecycle, leaving>>

(* MailRebuildCancellations::clear *)
Clear(t) ==
    /\ At(t, "clear")
    /\ channel' = IF channel.open
                  THEN Pruned([channel EXCEPT !.registrations = @ - 1]) ELSE channel
    /\ Go(t, "release")
    /\ UNCHANGED <<durable, mem, running, lock, lifecycle, watcher, faults, leaving>>

(* release_mail_rebuild frees the reservation, then the channel's. *)
Release(t) ==
    /\ At(t, "release")
    /\ running' = FALSE
    /\ Go(t, "unreserve")
    /\ UNCHANGED <<durable, mem, channel, lock, lifecycle, watcher, faults, leaving>>

Unreserve(t) ==
    /\ At(t, "unreserve")
    /\ channel' = Pruned([channel EXCEPT !.reserved = FALSE])
    /\ Unlock(t) /\ Done(t)
    /\ UNCHANGED <<durable, mem, running, lifecycle, watcher, faults, leaving>>

-----------------------------------------------------------------------------
(* update_account and remove_account *)

(* Both ask a rebuild to stop before they queue for the operation lock. *)
Request(t, op, change) ==
    /\ task[t] = Idle
    /\ channel' = Requested(IF op = "remove" THEN "Remove" ELSE "Retain")
    /\ Now(t, [Idle EXCEPT !.op = op, !.at = "queue", !.change = change])
    /\ UNCHANGED <<durable, mem, running, lock, lifecycle, watcher, faults>>

StartUpdate(t) ==
    /\ \E change \in {"settings", "namespace", "conversion"} :
          Request(t, "update", change)
    /\ UNCHANGED leaving

StartRemove(t) == Request(t, "remove", "none") /\ leaving' = TRUE

Queue(t) ==
    /\ At(t, "queue")
    /\ lock' = Append(lock, t)
    /\ Go(t, "wait")
    /\ UNCHANGED <<durable, shared, lifecycle, watcher, faults, leaving>>

(* With the lock: a refused update resumes the rebuild it asked to stop;    *)
(* a change of namespace or of authentication stops the watcher first.      *)
EnterUpdate(t) ==
    /\ At(t, "wait") /\ task[t].op = "update" /\ Holds(t)
    /\ \/ account = 0 /\ Go(t, "leave") /\ UNCHANGED <<watcher, faults>>
       \/ account # 0 /\ Go(t, "resume") /\ UNCHANGED <<watcher, faults>>
       \/ /\ account # 0 /\ Go(t, "commit") /\ UNCHANGED faults
          /\ task[t].change = "namespace" => account < MaxNs
          /\ IF task[t].change = "settings" THEN UNCHANGED watcher
             ELSE NoWriter /\ watcher' = 0
       \/ Fault("storage") /\ Go(t, "leave") /\ UNCHANGED watcher
    /\ UNCHANGED <<durable, shared, lock, lifecycle, leaving>>

Then(t, at, next) == Now(t, [task[t] EXCEPT !.at = at, !.then = next])

(* A changed namespace and its reset job are one transaction                *)
(* (save_account_with_rebuild_intent).  Converted credentials restart the   *)
(* watcher, saved or not.                                                   *)
Commit(t) ==
    LET moved == task[t].change = "namespace"
    IN /\ At(t, "commit")
       /\ \/ /\ task[t].change = "conversion"
             /\ NoWriter /\ watcher' = account
             /\ Go(t, "resume")
             /\ UNCHANGED <<account, job, mem, faults>>
          \/ /\ moved
             /\ account' = account + 1
             /\ job' = "reset" /\ mem' = "reset"
             /\ Go(t, "resume")
             /\ UNCHANGED <<watcher, faults>>
          \/ /\ task[t].change = "settings"
             /\ Then(t, "sweep", "resume")
             /\ UNCHANGED <<account, job, mem, watcher, faults>>
          \/ /\ task[t].change # "conversion" /\ Fault("storage")
             /\ \E next \in {"resume", "leave"} :
                   IF moved THEN Then(t, "sweep", next) ELSE Go(t, next)
             /\ UNCHANGED <<account, job, mem, watcher>>
       /\ UNCHANGED <<index, running, channel, lock, lifecycle, leaving>>

EnterRemove(t) ==
    /\ At(t, "wait") /\ task[t].op = "remove" /\ Holds(t)
    /\ \/ account = 0 /\ Go(t, "leave") /\ UNCHANGED <<watcher, faults>>
       \/ /\ account # 0 /\ NoWriter
          /\ watcher' = 0 /\ Go(t, "delete") /\ UNCHANGED faults
       \/ Fault("storage") /\ Go(t, "leave") /\ UNCHANGED watcher
    /\ UNCHANGED <<durable, shared, lock, lifecycle, leaving>>

(* Store::delete_account takes the job and the mail with the account. *)
Delete(t) ==
    /\ At(t, "delete")
    /\ \/ /\ account' = 0 /\ job' = "none" /\ index' = 0
          /\ Then(t, "sweep", "leave") /\ UNCHANGED faults
       \/ Fault("storage") /\ Go(t, "leave") /\ UNCHANGED durable
    /\ UNCHANGED <<shared, lock, lifecycle, watcher, leaving>>

(* The command returns and drops the operation lock. *)
Leave(t) ==
    /\ At(t, "leave")
    /\ Unlock(t) /\ Done(t)
    /\ UNCHANGED <<durable, shared, lifecycle, watcher, faults, leaving>>

-----------------------------------------------------------------------------
(* RealtimeSyncManager::reconcile, and startup *)

StartReconcile(t) ==
    /\ task[t] = Idle
    /\ Now(t, [Idle EXCEPT !.op = "reconcile", !.at = "sweep", !.then = "leave"])
    /\ UNCHANGED <<durable, shared, lock, lifecycle, watcher, faults, leaving>>

(* Mutant: a reconciliation waits for running account operations. *)
SweepAfterOperations == NoWriter /\ lock = <<>>

SweepMayStart == NoWriter

(* Every watcher is stopped, then the accounts are read.  The job of an     *)
(* account is not looked at.                                                *)
Sweep(t) ==
    /\ At(t, "sweep") /\ SweepMayStart
    /\ watcher' = 0
    /\ \/ /\ lifecycle' = t
          /\ Now(t, [task[t] EXCEPT !.snap = account, !.at = "spawn"])
          /\ UNCHANGED faults
       \/ /\ Fault("storage")
          /\ Go(t, IF task[t].change = "settings" THEN "leave" ELSE task[t].then)
          /\ UNCHANGED lifecycle
    /\ UNCHANGED <<durable, shared, lock, leaving>>

Spawn(t) ==
    /\ At(t, "spawn")
    /\ watcher' = task[t].snap
    /\ lifecycle' = NoTask
    /\ Go(t, task[t].then)
    /\ UNCHANGED <<durable, shared, lock, faults, leaving>>

(* The startup task resumes the rebuild it finds, or starts the watcher. *)
Startup(t) ==
    /\ At(t, "startup")
    /\ \/ /\ account # 0 /\ mem # "none" /\ ~running
          /\ running' = TRUE /\ UNCHANGED faults
          /\ Now(t, [task[t] EXCEPT !.reset = mem = "reset", !.at = "entry"])
       \/ /\ account # 0 /\ mem = "none"
          /\ Now(t, [task[t] EXCEPT !.snap = account, !.at = "start"])
          /\ UNCHANGED <<running, faults>>
       \/ /\ account = 0 \/ (mem # "none" /\ running)
          /\ Done(t) /\ UNCHANGED <<running, faults>>
       \/ Fault("storage") /\ Done(t) /\ UNCHANGED running
    /\ UNCHANGED <<durable, mem, channel, lock, lifecycle, watcher, leaving>>

StartWatcher(t) ==
    /\ At(t, "start") /\ NoWriter
    /\ watcher' = task[t].snap
    /\ Done(t)
    /\ UNCHANGED <<durable, shared, lock, lifecycle, faults, leaving>>

(* The process goes away and comes back with what the store holds. *)
Crash ==
    /\ Fault("crash")
    /\ mem' = job /\ running' = FALSE /\ channel' = NoChannel
    /\ lock' = <<>> /\ lifecycle' = NoTask /\ watcher' = 0
    /\ \E s \in Tasks :
          task' = [t \in Tasks |-> IF t = s THEN [Idle EXCEPT !.op = "startup",
                                                             !.at = "startup"]
                                   ELSE Idle]
    /\ UNCHANGED <<durable, leaving>>

Step(t) ==
    \/ Resume(t) \/ ReserveChannel(t) \/ Lookup(t) \/ Schedule(t) \/ Register(t)
    \/ Enter(t) \/ Check(t) \/ Begin(t) \/ Rebuild(t) \/ Settle(t) \/ Restart(t)
    \/ Clear(t) \/ Release(t) \/ Unreserve(t)
    \/ Queue(t) \/ EnterUpdate(t) \/ Commit(t) \/ EnterRemove(t) \/ Delete(t)
    \/ Leave(t) \/ Sweep(t) \/ Spawn(t) \/ Startup(t) \/ StartWatcher(t)

Next ==
    \/ \E t \in Tasks : Step(t) \/ SyncAccount(t) \/ StartUpdate(t)
                        \/ StartRemove(t) \/ StartReconcile(t)
    \/ Crash

Spec == Init /\ [][Next]_vars

(* The runtime polls every task until it ends, provider calls answer or     *)
(* time out, and tokio's locks are first-in first-out: a task that waits    *)
(* for one gets it.  No command need ever be given.                         *)
FairSpec == Spec /\ \A t \in Tasks : SF_vars(Step(t))

-----------------------------------------------------------------------------
(* Types *)

Jobs  == {"none", "resume", "reset"}
Spaces == 0..MaxNs
Places == {"idle", "startup", "start", "resume", "entry", "lookup", "schedule",
           "register", "queue", "wait", "check", "begin", "sync", "settle",
           "restart", "clear", "release", "unreserve", "commit", "delete",
           "sweep", "spawn", "leave"}
TaskStates ==
    [op : {"none", "sync", "rebuild", "update", "remove", "reconcile", "startup"},
     at : Places, reset : BOOLEAN,
     change : {"none", "settings", "namespace", "conversion"}, snap : Spaces,
     then : {"idle", "resume", "leave"}, stopped : BOOLEAN,
     end : {"none", "ok", "failed", "rejected", "cancelled"}, keep : BOOLEAN]

TypeOK ==
    /\ account \in Spaces /\ index \in Spaces /\ watcher \in Spaces
    /\ job \in Jobs /\ mem \in Jobs
    /\ running \in BOOLEAN
    /\ channel \in [open : BOOLEAN, disposition : {"None", "Retain", "Remove"},
                    registrations : Nat, reserved : BOOLEAN]
    /\ lock \in Seq(Tasks)
    /\ lifecycle \in Tasks \cup {NoTask}
    /\ task \in [Tasks -> TaskStates]
    /\ faults \in Seq(Faults) /\ leaving \in BOOLEAN

-----------------------------------------------------------------------------
(* Safety *)

Quiet == \A t \in Tasks : task[t] = Idle

(* An account that is to stay and whose catalogue is not of its current     *)
(* namespace has a durable reset job: neither a queued rebuild with older   *)
(* arguments, nor rejected credentials, an update's cancellation or a       *)
(* restart loses the replacement.                                           *)
ResetNotLost == ~leaving /\ account # 0 /\ index # account => job = "reset"

(* When every operation has ended, no reservation and no cancellation is    *)
(* left behind to refuse or to cancel the next rebuild.                     *)
NothingLeaks == Quiet => ~running /\ channel = NoChannel /\ lock = <<>>

(* When every operation has ended, an account with no rebuild pending has   *)
(* its watcher: whoever stopped it has started it again.  A failing store   *)
(* is excused: an update or a removal it cuts short has stopped the watcher.*)
StoreFailed == \E i \in DOMAIN faults : faults[i] = "storage"
WatchedWhenQuiet ==
    Quiet /\ account # 0 /\ job = "none" /\ ~StoreFailed => watcher # 0

(* A removed account leaves no job that a restart would resume, whatever    *)
(* rebuild was being scheduled when it was removed.                         *)
RemovedIsForgotten == account = 0 => job = "none"

(* As long as nothing fails, a durable job is carried by some operation: a  *)
(* rebuild cancelled for an update is resumed by it.                        *)
UpdateResumes == Quiet /\ faults = <<>> => job = "none"

-----------------------------------------------------------------------------
(* Liveness *)

(* Every operation ends: the operation lock, the watcher registry's locks   *)
(* and the waits for a stopping watcher never close a cycle.                *)
OperationsEnd == \A t \in Tasks : task[t] # Idle ~> task[t] = Idle
=============================================================================
