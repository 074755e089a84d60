----------------------------- MODULE MailboxSync -----------------------------
(***************************************************************************)
(* How one IMAP mailbox is kept in the local SQLite catalogue.             *)
(*                                                                         *)
(* Two kinds of worker synchronize it: the INBOX watcher                   *)
(* (MailService::fetch_new_inbox_headers, once per real-time cycle) and    *)
(* the full sync or rebuild (sync_mailboxes_with_progress_on_client).      *)
(* Both stage the server's inventory in a snapshot generation, fetch what  *)
(* is missing, check that the mailbox did not move meanwhile, and make the *)
(* generation authoritative in one transaction.  The user moves messages,  *)
(* other clients deliver and expunge, the server may recreate the mailbox  *)
(* under a new UIDVALIDITY, and any worker may be cut off at any step.     *)
(*                                                                         *)
(* Every action is one provider round trip or one storage transaction.     *)
(* A message is its UID; a row holds the UIDVALIDITY its header came from. *)
(***************************************************************************)
EXTENDS Integers, FiniteSets

CONSTANTS
    Watchers,      \* workers that run real-time INBOX cycles
    Rebuilders,    \* workers that run full syncs and rebuilds
    GenIds,        \* identifiers of snapshot generations (fresh UUIDs)
    NoGen,         \* no generation
    MaxUid,        \* bound: UIDs are 1..MaxUid
    MaxValidity,   \* bound: UIDVALIDITY values are 1..MaxValidity
    MaxFaults,     \* bound: interruptions and failed fetches
    FetchLimit,    \* max_messages of a real-time cycle
    RetryLimit,    \* REALTIME_FAILED_UID_RETRY_LIMIT
    BatchSize,     \* metadata batch of a full sync
    PageSize,      \* MAILBOX_SNAPSHOT_PAGE_SIZE
    Capabilities,  \* what the server may be: does it send UIDNEXT, CONDSTORE?
    Exclusive,     \* do the workers exclude each other (see CanStart)?
    StartFresh     \* the initial states: {TRUE} empty store, {FALSE} synced

Workers == Watchers \cup Rebuilders
Uids == 1..MaxUid
Validities == 1..MaxValidity
NoMark == -1       \* a NULL highest_uid

ASSUME SyncAssumption ==
    /\ Watchers \cap Rebuilders = {}
    /\ NoGen \notin GenIds
    /\ {MaxUid, MaxValidity, MaxFaults, FetchLimit, RetryLimit} \subseteq Nat
    /\ {BatchSize, PageSize} \subseteq Nat \ {0}
    /\ 1 \in Validities
    /\ Capabilities \subseteq [uidnext : BOOLEAN, condstore : BOOLEAN]
    /\ Exclusive \in BOOLEAN /\ StartFresh \subseteq BOOLEAN

VARIABLES
    srv,        \* the server's mailbox: [validity, uids, next, caps]
    rows,       \* messages: UID -> UIDVALIDITY of the stored header, 0 = no row
    catalog,    \* mailbox_catalog_state; validity 0 = no row
    sync,       \* mailbox_sync_state; validity 0 = NULL
    failures,   \* mailbox_sync_failures
    tombs,      \* mailbox_action_tombstones
    gen,        \* the mailbox's snapshot generation, items and staged messages
    pc,         \* worker -> the step it is at
    job,        \* worker -> the locals of its running sync
    user,       \* the user's move in progress: [uid, validity], uid 0 = none
    faults,     \* interruptions so far
    gone,       \* history: UIDs of this UIDVALIDITY the user has moved away
    notified    \* history: UIDs of this UIDVALIDITY announced as new mail

server == <<srv>>
store  == <<rows, catalog, sync, failures, tombs, gen>>
vars   == <<srv, rows, catalog, sync, failures, tombs, gen, pc, job, user,
            faults, gone, notified>>

-----------------------------------------------------------------------------
(* Sets of UIDs.  A definition commented "Mutant" is a plausible wrong      *)
(* version of the one that follows it; nothing else refers to it.           *)

Highest(S, n) == {u \in S : Cardinality({x \in S : x > u}) < n}
Lowest(S, n)  == {u \in S : Cardinality({x \in S : x < u}) < n}
Top(S)        == IF S = {} THEN NoMark ELSE CHOOSE u \in S : \A x \in S : x <= u
Local         == {u \in Uids : rows[u] # 0}

(* The identity a SELECT reports. *)
Identity == [validity |-> srv.validity,
             exists   |-> Cardinality(srv.uids),
             next     |-> IF srv.caps.uidnext THEN srv.next ELSE 0]

NoIdentity == [validity |-> 0, exists |-> 0, next |-> 0]
NoCatalog  == [validity |-> 0, exists |-> 0, next |-> 0]
NoSync     == [known |-> FALSE, validity |-> 0, highest |-> NoMark]
NoStage    == [id |-> NoGen, ident |-> NoIdentity, items |-> {},
               msgs |-> [u \in Uids |-> 0]]
NoJob      == [ident |-> NoIdentity, id |-> NoGen, view |-> {}, left |-> {},
               reset |-> FALSE, replace |-> FALSE, highest |-> NoMark,
               local |-> {}, fails |-> {}, inc |-> {}, todo |-> {},
               from |-> 0, ok |-> {}, bad |-> {}, failed |-> FALSE,
               fatal |-> FALSE, fresh |-> {}]

Init ==
    \E fresh \in StartFresh, n \in 0..MaxUid, c \in Capabilities :
        /\ srv = [validity |-> 1, uids |-> 1..n, next |-> n + 1, caps |-> c]
        /\ rows = [u \in Uids |-> IF ~fresh /\ u <= n THEN 1 ELSE 0]
        /\ catalog = IF fresh THEN NoCatalog ELSE Identity
        /\ sync = IF fresh THEN NoSync
                  ELSE [known |-> TRUE, validity |-> 1, highest |-> Top(1..n)]
        /\ failures = {} /\ tombs = {} /\ gen = NoStage
        /\ pc = [w \in Workers |-> "idle"]
        /\ job = [w \in Workers |-> NoJob]
        /\ user = [uid |-> 0, validity |-> 0]
        /\ faults = 0 /\ gone = {} /\ notified = {}

-----------------------------------------------------------------------------
(* Workers: locks, sessions and control *)

(* stop_account and the account operation lock: at most one worker while    *)
(* the supervisor is not told to reconcile.  RealtimeSyncManager::reconcile *)
(* starts watchers without that lock, and the CLI is another process.       *)
CanStart(w) ==
    /\ pc[w] = "idle"
    /\ Exclusive => \A x \in Workers : pc[x] = "idle"
    /\ w \in Rebuilders => /\ user.uid = 0
                           /\ \A x \in Rebuilders : pc[x] = "idle"

(* A selected session keeps the UIDs it was opened on. *)
InSession(w) == srv.validity = job[w].ident.validity

Go(w, step)  == pc' = [pc EXCEPT ![w] = step]
Finish(w)    == Go(w, "idle") /\ job' = [job EXCEPT ![w] = NoJob]
Active(w)    == gen.id = job[w].id /\ gen.id # NoGen

(* Selecting the mailbox fixes the identity the sync works against. *)
SelectedJob(reset, changed, highest) ==
    [NoJob EXCEPT !.ident = Identity, !.view = srv.uids, !.reset = reset,
                  !.replace = reset \/ changed, !.highest = highest]

StartWatcher(w) ==
    /\ CanStart(w)
    /\ job' = [job EXCEPT ![w] = SelectedJob(FALSE, FALSE, NoMark)]
    /\ Go(w, "prepare")
    /\ UNCHANGED <<server, store, user, faults, gone, notified>>

(* Mutants: a recycled UID is taken for the stored message; every cycle     *)
(* takes the stored namespace for an old one.                               *)
NeverReplaced(w)  == FALSE
AlwaysReplaced(w) == TRUE

(* Has UIDVALIDITY changed since the last commit? *)
NamespaceChanged(w) ==
    LET stored == IF sync.validity # 0 THEN sync.validity ELSE catalog.validity
    IN stored # 0 /\ stored # job[w].ident.validity

(* prepare_mailbox_sync: an old namespace's failures and generation go, but *)
(* a generation already staged for the new one is kept.                     *)
Prepare(w) ==
    LET v       == job[w].ident.validity
        changed == NamespaceChanged(w)
        resumed == gen.id # NoGen /\ gen.ident.validity = v
    IN /\ pc[w] = "prepare"
       /\ failures' = IF changed /\ ~resumed THEN {} ELSE failures
       /\ gen' = IF changed /\ ~resumed THEN NoStage ELSE gen
       /\ sync' = IF ~changed /\ sync.known /\ sync.validity = 0
                  THEN [sync EXCEPT !.validity = v] ELSE sync
       /\ job' = [job EXCEPT ![w].replace = changed,
                     ![w].highest = IF changed THEN NoMark ELSE sync.highest]
       /\ Go(w, "begin")
       /\ UNCHANGED <<server, rows, catalog, tombs, user, faults, gone, notified>>

(* A rebuild replaces the namespace outright; a sync or a resumed rebuild   *)
(* does so when the catalogue's UIDVALIDITY differs.  A complete catalogue  *)
(* whose totals still match is offered the CONDSTORE delta instead.         *)
StartRebuilder(w, reset) ==
    LET changed == catalog.validity # 0 /\ catalog.validity # srv.validity
        delta   == /\ srv.caps.condstore /\ srv.caps.uidnext /\ ~reset
                   /\ catalog = Identity
                   /\ failures = {}
    IN /\ CanStart(w)
       /\ job' = [job EXCEPT ![w] = SelectedJob(reset, changed, NoMark)]
       /\ Go(w, IF delta THEN "delta" ELSE "begin")
       /\ UNCHANGED <<server, store, user, faults, gone, notified>>

(* The final SELECT after the delta: an unchanged mailbox only needs its    *)
(* flags, anything else falls back to a snapshot of the fresh identity.  A  *)
(* server that rejects the delta gets a snapshot of the first identity.     *)
DeltaVerify(w) ==
    /\ pc[w] = "delta"
    /\ \/ /\ Identity = job[w].ident
          /\ Go(w, "apply")
          /\ UNCHANGED job
       \/ /\ job' = [job EXCEPT ![w].ident = Identity, ![w].view = srv.uids]
          /\ Go(w, "begin")
       \/ Go(w, "begin") /\ UNCHANGED job
    /\ UNCHANGED <<server, store, user, faults, gone, notified>>

(* apply_complete_mailbox_changed_since_flags                               *)
DeltaApply(w) ==
    /\ pc[w] = "apply"
    /\ catalog' = IF catalog.validity = job[w].ident.validity
                  THEN job[w].ident ELSE catalog
    /\ Finish(w)
    /\ UNCHANGED <<server, rows, sync, failures, tombs, gen, user, faults, gone,
                   notified>>

-----------------------------------------------------------------------------
(* The snapshot generation *)

(* begin_mailbox_snapshot: a generation of the same identity is taken over, *)
(* its inventory dropped and its staged messages kept.                      *)
Begin(w) ==
    /\ pc[w] = "begin"
    /\ \/ /\ gen.id # NoGen /\ gen.ident = job[w].ident
          /\ gen' = [gen EXCEPT !.items = {}]
       \/ /\ ~(gen.id # NoGen /\ gen.ident = job[w].ident)
          /\ \E id \in GenIds \ {job[x].id : x \in Workers} :
                gen' = [NoStage EXCEPT !.id = id, !.ident = job[w].ident]
    /\ job' = [job EXCEPT ![w].id = gen'.id, ![w].left = job[w].view]
    /\ Go(w, "stage")
    /\ UNCHANGED <<server, rows, catalog, sync, failures, tombs, user, faults,
                   gone, notified>>

(* One inventory page, newest sequence numbers first; a message expunged    *)
(* since SELECT is absent from its page.  Staging fails once the generation *)
(* is no longer the active one.                                             *)
StagePage(w) ==
    LET page == Highest(job[w].left, PageSize)
    IN /\ pc[w] = "stage" /\ job[w].left # {} /\ InSession(w)
       /\ \/ /\ Active(w)
             /\ gen' = [gen EXCEPT !.items = @ \cup (page \cap srv.uids)]
             /\ job' = [job EXCEPT ![w].left = @ \ page]
             /\ UNCHANGED pc
          \/ /\ ~Active(w)
             /\ Finish(w)
             /\ UNCHANGED gen
       /\ UNCHANGED <<server, rows, catalog, sync, failures, tombs, user, faults,
                      gone, notified>>

(* Mutant: the first UID above the watermark counts as fetched. *)
SkipsFirst(w, retried) ==
    Lowest({u \in (gen.items \ Local) \ retried : u > job[w].highest + 1}, FetchLimit)

(* Which UIDs a real-time cycle fetches: those above the watermark, oldest  *)
(* first, or a first window of the newest ones; then retries of failures.   *)
Incremental(w, retried) ==
    LET new == (gen.items \ Local) \ retried
    IN IF job[w].highest = NoMark THEN Highest(new, FetchLimit)
       ELSE Lowest({u \in new : u > job[w].highest}, FetchLimit)

(* The replacement UIDs that have no staged outcome yet. *)
Unstaged == {u \in gen.items : gen.msgs[u] = 0}

(* Mutant: whatever pages arrived are the mailbox. *)
AnyInventory(w) == Active(w)

(* Every page is in and as many UIDs are staged as EXISTS said. *)
InventoryWhole(w) ==
    /\ job[w].left = {} /\ Active(w)
    /\ Cardinality(gen.items) = job[w].ident.exists

(* The staged inventory must be as large as EXISTS said; then the missing   *)
(* UIDs are planned.  A short inventory ends the sync, its staging kept.    *)
Plan(w) ==
    LET local == IF w \in Rebuilders /\ job[w].replace THEN {} ELSE Local
        seen  == failures \cap gen.items
    IN /\ pc[w] = "stage"
       /\ \/ /\ InventoryWhole(w)
             /\ \E retried \in SUBSET seen :
                  /\ IF w \in Rebuilders THEN retried = seen
                     ELSE Cardinality(retried)
                            = IF Cardinality(seen) < RetryLimit
                              THEN Cardinality(seen) ELSE RetryLimit
                  /\ LET inc == IF job[w].replace THEN {}
                                ELSE IF w \in Rebuilders THEN (gen.items \ local) \ seen
                                ELSE Incremental(w, retried)
                     IN job' = [job EXCEPT
                           ![w].view = gen.items, ![w].local = local,
                           ![w].fails = retried, ![w].inc = inc,
                           ![w].todo = IF job[w].replace THEN Unstaged
                                       ELSE inc \cup retried]
             /\ Go(w, "fetch")
          \/ /\ job[w].left = {} /\ ~InventoryWhole(w)
             /\ Finish(w)
       /\ UNCHANGED <<server, store, user, faults, gone, notified>>

-----------------------------------------------------------------------------
(* Fetching metadata *)

Incrementing(w) == w \in Watchers /\ ~job[w].replace

(* The UIDs of one fetch: all of them in a real-time cycle; otherwise a     *)
(* batch of the newest, and the retries of earlier failures one at a time.  *)
Batches(w) ==
    LET first == job[w].todo \ job[w].fails
    IN IF Incrementing(w) THEN {job[w].todo}
       ELSE IF job[w].replace THEN {Highest(job[w].todo, BatchSize)} \ {{}}
       ELSE IF first # {} THEN {Highest(first, BatchSize)}
       ELSE {{u} : u \in job[w].todo}

(* What a real-time cycle has fetched when it fails at UID f. *)
FetchedBefore(w, f) ==
    IF f \in job[w].inc THEN {u \in job[w].inc : u < f}
    ELSE job[w].inc \cup (job[w].fails \ {f})

(* The server answers for the UIDs it still has; a header may be rejected.  *)
(* A full sync selects the mailbox again for each batch, whatever it is by  *)
(* then; a real-time cycle stays in its session.                            *)
Fetch(w) ==
    /\ pc[w] = "fetch"
    /\ w \in Watchers => InSession(w)
    /\ \E batch \in Batches(w) : \E bad \in SUBSET batch :
         /\ batch \ srv.uids \subseteq bad
         /\ IF bad \subseteq batch \ srv.uids THEN UNCHANGED faults
            ELSE faults < MaxFaults /\ faults' = faults + 1
         /\ job' = [job EXCEPT ![w].ok = batch \ bad, ![w].bad = bad,
                               ![w].from = srv.validity]
    /\ Go(w, IF Incrementing(w) THEN "save" ELSE "store")
    /\ UNCHANGED <<server, store, user, gone, notified>>

(* The connection fails inside a fetch, some UIDs already answered. *)
FetchFatal(w) ==
    /\ pc[w] = "fetch" /\ job[w].todo # {}
    /\ w \in Watchers => InSession(w)
    /\ faults < MaxFaults /\ faults' = faults + 1
    /\ \E batch \in Batches(w) : \E f \in batch :
         LET answered == IF Incrementing(w) THEN FetchedBefore(w, f)
                         ELSE batch \ {f}
         IN \E ok \in SUBSET (answered \cap srv.uids) :
              job' = [job EXCEPT ![w].ok = ok, ![w].bad = {f},
                          ![w].fatal = TRUE, ![w].from = srv.validity]
    /\ Go(w, IF Incrementing(w) THEN "save" ELSE "store")
    /\ UNCHANGED <<server, store, user, gone, notified>>

(* Mutant: a late header is stored over the tombstone. *)
PersistAll(w) == [u \in Uids |-> IF u \in job[w].ok THEN job[w].from ELSE rows[u]]

(* persist_message: a header is stored unless the user moved its UID away.  *)
Persist(w) ==
    [u \in Uids |-> IF u \in job[w].ok \ tombs THEN job[w].from ELSE rows[u]]

(* Mutants: the newest inventoried UID, stored or not; an exclusive bound.  *)
InventoryEnd(w)    == Top(job[w].view)
BelowInventory(w)  == Top(job[w].view) - 1

(* The watermark a real-time cycle may claim: the last UID of the unbroken  *)
(* run of stored ones above the old watermark, or of the first window.      *)
Watermark(w) ==
    LET j          == job[w]
        unresolved == (j.fails \cup j.bad) \ j.ok
        stored(u)  == u \notin unresolved /\ u \in j.local \cup j.ok
        run        == {u \in j.view : u > j.highest /\
                         \A x \in j.view : j.highest < x /\ x <= u => stored(x)}
        window     == {u \in j.inc : \A x \in j.inc : x <= u => x \in j.ok}
    IN IF j.replace THEN Top(j.view)
       ELSE IF j.highest # NoMark THEN IF run = {} THEN j.highest ELSE Top(run)
       ELSE IF j.fatal THEN NoMark ELSE Top(window)

(* Mutant: a retried header counts as new mail. *)
EveryFetched(w) == job[w].ok

(* Messages that had no row before. *)
NewMail(w) == {u \in job[w].ok : rows[u] = 0}

(* save_synced_messages_through: rows and watermark in one transaction.     *)
(* Rows that were not there before are new mail, once a baseline exists.    *)
Save(w) ==
    LET mark == Watermark(w)
        old  == IF sync.highest < 0 THEN 0 ELSE sync.highest
    IN /\ pc[w] = "save"
       /\ IF job[w].fatal /\ job[w].ok = {} THEN UNCHANGED <<rows, sync, job>>
          ELSE /\ rows' = Persist(w)
               /\ sync' = IF sync.known
                          THEN [sync EXCEPT !.highest = IF mark > old THEN mark ELSE old]
                          ELSE [NoSync EXCEPT !.known = TRUE, !.highest = mark]
               /\ job' = [job EXCEPT ![w].fresh =
                            IF sync.known /\ ~job[w].fatal
                            THEN NewMail(w) ELSE {}]
       /\ Go(w, "record")
       /\ UNCHANGED <<server, catalog, failures, tombs, gen, user, faults, gone,
                      notified>>

(* record_mailbox_sync_failure, then clear_mailbox_sync_failure.            *)
Record(w) ==
    /\ pc[w] = "record"
    /\ failures' = (failures \cup job[w].bad) \ job[w].ok
    /\ Go(w, IF job[w].bad = {} THEN "verify" ELSE "discard")
    /\ UNCHANGED <<server, rows, catalog, sync, tombs, gen, job, user, faults,
                   gone, notified>>

(* Mutant: only the last batch counts. *)
LastBatchFailed(w) == job[w].bad # {}

(* Has any batch of this sync left a UID behind? *)
Failed(w) == job[w].failed \/ job[w].bad # {}

(* One batch of a full sync or of any replacement: failures are recorded,   *)
(* then headers go to the catalogue, or into the staged generation when it  *)
(* is to replace the namespace.  A broken connection ends the sync here.    *)
Store(w) ==
    LET j      == job[w]
        staged == j.replace
        taken  == staged => Active(w) /\ j.ok \subseteq gen.items
    IN /\ pc[w] = "store"
       /\ rows' = IF staged THEN rows ELSE Persist(w)
       /\ gen' = IF staged /\ taken
                 THEN [gen EXCEPT !.msgs = [u \in Uids |->
                         IF u \in j.ok THEN j.from ELSE gen.msgs[u]]]
                 ELSE gen
       /\ failures' = (failures \cup j.bad) \ (IF taken THEN j.ok ELSE {})
       /\ IF taken /\ ~j.fatal
          THEN /\ job' = [job EXCEPT ![w].todo = @ \ (j.ok \cup j.bad),
                            ![w].failed = Failed(w),
                            ![w].ok = {}, ![w].bad = {}, ![w].from = 0]
               /\ Go(w, "fetch")
          ELSE Finish(w)
       /\ UNCHANGED <<server, catalog, sync, tombs, user, faults, gone, notified>>

(* Every batch is in.  A sync that left a UID behind does not finalize; a   *)
(* replacement keeps its staging for the next attempt.                      *)
FetchDone(w) ==
    /\ pc[w] = "fetch" /\ ~Incrementing(w) /\ job[w].todo = {}
    /\ IF job[w].failed /\ job[w].replace THEN Finish(w)
       ELSE /\ Go(w, IF job[w].failed THEN "discard" ELSE "verify")
            /\ UNCHANGED job
    /\ UNCHANGED <<server, store, user, faults, gone, notified>>

(* discard_mailbox_snapshot *)
Discard(w) ==
    /\ pc[w] = "discard"
    /\ gen' = IF Active(w) THEN NoStage ELSE gen
    /\ Finish(w)
    /\ UNCHANGED <<server, rows, catalog, sync, failures, tombs, user, faults,
                   gone, notified>>

-----------------------------------------------------------------------------
(* Publishing a generation *)

(* The final SELECT and verify_mailbox_snapshot_membership: the mailbox     *)
(* must still be the one inventoried.  Without UIDNEXT a second inventory   *)
(* is compared and staged again.                                            *)
Verify(w) ==
    LET same   == Identity = job[w].ident
        second == ~srv.caps.uidnext /\ same
    IN /\ pc[w] = "verify"
       /\ \/ /\ same /\ ~second
             /\ Go(w, "finalize") /\ UNCHANGED <<gen, job>>
          \/ /\ second /\ srv.uids = job[w].view /\ Active(w)
             /\ gen' = [gen EXCEPT !.items = @ \cup srv.uids]
             /\ Go(w, "finalize") /\ UNCHANGED job
          \/ /\ second /\ srv.uids = job[w].view /\ ~Active(w)
             /\ Finish(w) /\ UNCHANGED gen
          \/ /\ ~same \/ (second /\ srv.uids # job[w].view)
             /\ Go(w, "discard") /\ UNCHANGED <<gen, job>>
       /\ UNCHANGED <<server, rows, catalog, sync, failures, tombs, user, faults,
                      gone, notified>>

(* finalize_mailbox_snapshot_inner commits the generation in one            *)
(* transaction: a replacement clears the old namespace first, rows outside  *)
(* the inventory go, catalogue and watermark follow, the generation ends.   *)
(* The cycle then returns and its new mail is announced.                    *)
Finalize(w) ==
    LET j     == job[w]
        valid == gen.ident.validity
        prior == {catalog.validity, sync.validity} \ {0}
    IN /\ pc[w] = "finalize" /\ Active(w)
       /\ j.replace => Unstaged = {}
       /\ rows' = [u \in Uids |-> IF u \notin gen.items THEN 0
                                  ELSE IF j.replace THEN gen.msgs[u] ELSE rows[u]]
       /\ tombs' = IF j.replace \/ prior \ {valid} # {} THEN {} ELSE tombs
       /\ failures' = failures \cap gen.items
       /\ catalog' = gen.ident
       /\ sync' = [known |-> TRUE, validity |-> valid,
                   highest |-> IF w \in Watchers THEN Watermark(w)
                               ELSE Top(gen.items)]
       /\ gen' = NoStage
       /\ notified' = notified \cup {u \in j.fresh : j.from = srv.validity}
       /\ Finish(w)
       /\ UNCHANGED <<server, user, faults, gone>>

(* The generation was taken by another worker, or lacks staged messages.    *)
FinalizeRefused(w) ==
    /\ pc[w] = "finalize"
    /\ ~Active(w) \/ (job[w].replace /\ Unstaged # {})
    /\ Finish(w)
    /\ UNCHANGED <<server, store, user, faults, gone, notified>>

(* A dropped connection, a cancelled rebuild, or the process going away:    *)
(* the worker's locals are lost, the store keeps what was committed.        *)
Abort(w) ==
    /\ pc[w] # "idle"
    /\ \/ faults < MaxFaults /\ faults' = faults + 1
       \/ ~InSession(w) /\ UNCHANGED faults
    /\ Finish(w)
    /\ UNCHANGED <<server, store, user, gone, notified>>

-----------------------------------------------------------------------------
(* The user and the server *)

(* A move (archive, spam, trash) selects the mailbox and moves the UID,     *)
(* under the account operation lock a full sync also holds.                 *)
MoveOnServer(u) ==
    /\ user.uid = 0 /\ rows[u] # 0
    /\ \A w \in Rebuilders : pc[w] = "idle"
    /\ srv' = [srv EXCEPT !.uids = @ \ {u}]
    /\ user' = [uid |-> u, validity |-> srv.validity]
    /\ UNCHANGED <<store, pc, job, faults, gone, notified>>

(* Store::move_message: the tombstone and the row's removal commit together.*)
MoveLocally ==
    /\ user.uid # 0
    /\ tombs' = tombs \cup {user.uid}
    /\ rows' = [rows EXCEPT ![user.uid] = 0]
    /\ gone' = gone \cup (IF user.validity = srv.validity THEN {user.uid} ELSE {})
    /\ user' = [uid |-> 0, validity |-> 0]
    /\ UNCHANGED <<server, catalog, sync, failures, gen, pc, job, faults, notified>>

Deliver ==
    /\ srv.next <= MaxUid
    /\ srv' = [srv EXCEPT !.uids = @ \cup {srv.next}, !.next = @ + 1]
    /\ UNCHANGED <<store, pc, job, user, faults, gone, notified>>

ExpungeElsewhere(u) ==
    /\ u \in srv.uids
    /\ srv' = [srv EXCEPT !.uids = @ \ {u}]
    /\ UNCHANGED <<store, pc, job, user, faults, gone, notified>>

(* The mailbox is recreated: UIDs start again under a new UIDVALIDITY. *)
ResetValidity ==
    /\ srv.validity < MaxValidity
    /\ \E n \in 0..MaxUid :
         srv' = [srv EXCEPT !.validity = @ + 1, !.uids = 1..n, !.next = n + 1]
    /\ gone' = {} /\ notified' = {}
    /\ UNCHANGED <<store, pc, job, user, faults>>

Progress(w) ==
    \/ Prepare(w) \/ DeltaVerify(w) \/ DeltaApply(w) \/ Begin(w) \/ StagePage(w)
    \/ Plan(w) \/ Fetch(w) \/ Save(w) \/ Record(w) \/ Store(w) \/ FetchDone(w)
    \/ Discard(w) \/ Verify(w) \/ Finalize(w) \/ FinalizeRefused(w)
    \/ (~InSession(w) /\ Abort(w))

Next ==
    \/ \E w \in Watchers : StartWatcher(w)
    \/ \E w \in Rebuilders, reset \in BOOLEAN : StartRebuilder(w, reset)
    \/ \E w \in Workers : Progress(w) \/ FetchFatal(w) \/ Abort(w)
    \/ \E u \in Uids : MoveOnServer(u) \/ ExpungeElsewhere(u)
    \/ MoveLocally \/ Deliver \/ ResetValidity

Spec == Init /\ [][Next]_vars

(* run_watcher loops for as long as the application runs: a watcher keeps   *)
(* taking its next step, and starts its next cycle.  Nobody owes a rebuild, *)
(* a delivery or a move.                                                    *)
FairSpec == Spec /\ \A w \in Watchers : WF_vars(StartWatcher(w) \/ Progress(w))

-----------------------------------------------------------------------------
(* Types *)

Identities == [validity : 0..MaxValidity, exists : Nat, next : Nat]
Steps == {"idle", "prepare", "delta", "apply", "begin", "stage", "fetch", "save",
          "record", "store", "discard", "verify", "finalize"}
Marks == Nat \cup {NoMark}
Jobs == [ident : Identities, id : GenIds \cup {NoGen}, view : SUBSET Uids,
         left : SUBSET Uids, reset : BOOLEAN, replace : BOOLEAN, highest : Marks,
         local : SUBSET Uids, fails : SUBSET Uids, inc : SUBSET Uids,
         todo : SUBSET Uids, from : 0..MaxValidity, ok : SUBSET Uids,
         bad : SUBSET Uids, failed : BOOLEAN, fatal : BOOLEAN,
         fresh : SUBSET Uids]

TypeOK ==
    /\ srv \in [validity : Validities, uids : SUBSET Uids, next : Nat \ {0},
               caps : Capabilities]
    /\ rows \in [Uids -> 0..MaxValidity]
    /\ catalog \in Identities
    /\ sync \in [known : BOOLEAN, validity : 0..MaxValidity, highest : Marks]
    /\ failures \in SUBSET Uids /\ tombs \in SUBSET Uids
    /\ gen \in [id : GenIds \cup {NoGen}, ident : Identities,
                items : SUBSET Uids, msgs : [Uids -> 0..MaxValidity]]
    /\ pc \in [Workers -> Steps]
    /\ job \in [Workers -> Jobs]
    /\ user \in [uid : Uids \cup {0}, validity : 0..MaxValidity]
    /\ faults \in Nat
    /\ gone \in SUBSET Uids /\ notified \in SUBSET Uids

-----------------------------------------------------------------------------
(* Safety *)

(* A UID the user moved away never has a local row while its tombstone      *)
(* stands, whatever a sync fetched before the move (mailbox_action_         *)
(* tombstones in move_message and persist_message).                         *)
TombstonesHold == \A u \in tombs : rows[u] = 0

(* A message the user moved away does not come back under the UIDVALIDITY   *)
(* it was moved in.                                                         *)
MovedStaysGone == \A u \in gone : rows[u] # srv.validity

(* No sync step removes the row of a message the server still holds: an     *)
(* interrupted, resumed or short inventory is never taken for deletions.    *)
LosesNoLiveRow ==
    \A u \in Uids :
        u \in srv.uids /\ rows[u] = srv.validity /\ rows'[u] = 0 => user.uid = u
LiveRowsSurvive == [][LosesNoLiveRow]_vars

(* Once a generation is committed every row comes from its UIDVALIDITY: no  *)
(* header of an earlier namespace stands under a recycled UID.              *)
OneNamespace ==
    [][\A w \in Workers : pc[w] = "finalize" /\ pc'[w] = "idle"
            /\ gen.id = job[w].id /\ gen'.id = NoGen
          => \A u \in Uids : rows'[u] \in {0, gen.ident.validity}]_vars

(* A full sync that commits has a row for every message it inventoried,     *)
(* except those the user moved away meanwhile.                              *)
FullSyncIsComplete ==
    [][\A w \in Rebuilders : pc[w] = "finalize" /\ pc'[w] = "idle"
            /\ gen.id = job[w].id /\ gen'.id = NoGen
          => \A u \in gen.items : rows'[u] # 0 \/ u \in tombs]_vars

(* The real-time watermark never advances past a message that is neither    *)
(* stored, nor queued for retry, nor moved away by the user.                *)
WatermarkPassesNothing ==
    [][/\ sync.highest # NoMark /\ sync'.highest > sync.highest
       /\ sync'.validity = srv.validity
       => \A u \in srv.uids : sync.highest < u /\ u <= sync'.highest
             => rows'[u] # 0 \/ u \in failures' \cup tombs' \cup {user.uid}]_vars

(* A UID leaves the retry queue only for a row, a staged header, a move, or *)
(* with its namespace.                                                      *)
KeepsRetries ==
    \A u \in (failures \ failures') \cap srv.uids :
        \/ rows'[u] # 0 \/ gen'.msgs[u] # 0 \/ u \in tombs'
        \/ catalog.validity # srv.validity
RetriesAreKept == [][KeepsRetries]_vars

(* A message is announced as new mail at most once. *)
AnnouncedOnce ==
    [][\A w \in Watchers : pc[w] = "finalize" /\ notified' # notified
          => job[w].fresh \cap notified = {}]_vars

(* A full sync that settles for the CONDSTORE delta, which carries flags    *)
(* only, has nothing to fetch: a catalogue marked historical_complete whose *)
(* totals still match stands for a row of every message.                    *)
DeltaSkipsNothing ==
    \A w \in Rebuilders : pc[w] = "apply" =>
        \A u \in job[w].view \cap srv.uids :
            rows[u] # 0 \/ u \in tombs \cup {user.uid}

-----------------------------------------------------------------------------
(* Refinement *)

Catalog == INSTANCE Catalogue WITH Ids <- Uids, Copies <- Validities, hidden <- tombs

(* Every step of a sync, of the user or of the provider is one the abstract *)
(* catalogue allows: what a late or a partial answer brings is learned,     *)
(* but hidden messages stay hidden until their namespace is replaced.       *)
FollowsCatalogue == Catalog!Spec

-----------------------------------------------------------------------------
(* Liveness *)

(* The UIDs a watcher owes: those above its watermark and those queued for   *)
(* retry.  A mailbox that was empty at the last commit has no watermark (0   *)
(* while a cycle runs): the next one takes a window of the newest messages. *)
Owed == {u \in srv.uids : /\ sync.highest > 0
                          /\ u > sync.highest \/ u \in failures}

(* Whatever the watcher owes it stores sooner or later, through              *)
(* interruptions and rejected headers, unless the message leaves the mailbox *)
(* or the user's move hides its UID.                                        *)
StoredEventually ==
    \A u \in Uids : u \in Owed
        ~> (u \notin srv.uids \ tombs \/ rows[u] = srv.validity)
=============================================================================
