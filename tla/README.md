# Verification of Dakia Desktop

TLA+ models of Dakia Desktop, their TLC configurations, and proofs checked by
TLAPS. Paths are relative to the repository; `MAIL` is
`crates/dakia-core/src/mail.rs`, `ST` is `crates/dakia-core/src/storage.rs`,
`LIB` and `RT` are `lib.rs` and `realtime.rs` of `apps/desktop/src-tauri/src`,
`APP` is `apps/desktop/src/App.tsx`.

## 1. The system

Dakia Desktop is a Tauri application: a Rust process keeps mail in SQLite and a
web view shows it. A command-line client uses the same store from a process of
its own. Mail is never edited in place: the IMAP server is the authority, the
store is a cache of it, and everything hard in the program is the work of
keeping that cache right while watchers, re-indexing, the user and other mail
clients act at once.

| Component | State it keeps | Operations | Talks to |
| --- | --- | --- | --- |
| Mailbox synchronization (MAIL, ST) | `messages`, `mailbox_catalog_state`, `mailbox_sync_state` (watermark, UIDVALIDITY), `mailbox_sync_failures` (retries), `mailbox_snapshot_*` (generation, items, staged messages) | real-time INBOX cycle, full sync, rebuild, CONDSTORE delta | IMAP server, store |
| IMAP wire (MAIL) | the commands of one fetch still to send | batches, splits on rejection | IMAP server |
| Rebuild jobs and account operations (LIB, ST) | `mail_rebuild_jobs`, `mail_rebuilds`, `mail_rebuild_running`, cancellation channels, account operation locks | `sync_account`, `update_account`, `remove_account`, resumption at startup | watcher supervisor, synchronization |
| Watcher supervisor (RT) | one handle per account, lifecycle and transition locks | `reconcile`, `start_account`, `stop_account`, `run_watcher` | synchronization, hydration |
| Mailbox actions (MAIL, LIB, ST) | `mailbox_action_tombstones`, starred bodies | archive, spam, trash, permanent deletion, sender clean-up, star | IMAP server, store |
| Body hydration and display cache (RT, LIB, ST) | arrival and maintenance queues, slots, fetch claims with leases, `message_content_cache`, starred bodies | hydrate, open, cancel, evict | IMAP server, store |
| Local classification (LIB, `classification.rs`, ST) | pending rows, scheduler flags, the owner of the model's revision | wake, drain, store results | ONNX runtime, store |
| Accounts and credentials (ST, `account.rs`, `oauth.rs`) | `accounts`, deletion tombstones, vault, its key | add, update, convert, remove, refresh tokens | key file, store |
| Profile upgrade (ST) | the schema, renamed tables, markers in `app_meta` | `Store::open`, `migrate` | the old profile |
| Sending (MAIL, LIB) | none beyond the draft | SMTP submission, append to Sent, unsubscribe | SMTP, IMAP and HTTP servers |
| Threading (ST) | thread ids | `rebuild_threads_for_account` | store |
| The list of the window (APP) | rows, cursor, request numbers, what is being acted on | load, search, page, follow a notification, move, mark, delete, clean up | every command of LIB |
| Offline translation (`translation.rs`) | a pack's directory and its temporary one, `translation_downloads`, the loaded engine | install, cancel, remove, load | download server, engine |
| MIME, presets, AI, CLI parsing, updater | none, or nothing shared | | |

**What is hard.** Every component shares rows or tables in memory with another
one, and every operation of interest awaits the network in the middle:

- A cycle reads the inventory, awaits pages and headers, then commits. In
  between, mail arrives or goes, the mailbox is recreated, the user moves a
  message, a second worker starts, the connection breaks, the process ends.
- A rebuild is reserved, scheduled, queued, run and settled by different tasks.
  An update or a removal cancels it and waits for its lock; startup and
  reconciliation start watchers without that lock.
- The watermark is a number that must not pass a message that is not stored.
- A body is fetched outside any transaction, under a lease that may lapse, and
  lands on a row that may have been starred, moved or deleted meanwhile.
- A category is inferred outside any transaction, by two processes.
- A row and its secret are two tables; a key and its file are two processes'.
- A submission may be accepted without an answer; an action may be half done.
- The window shows what it assumes before the backend has answered.

`PROJECT.json` lists the hazards one by one, each at the line where it bites,
with the properties that are about it.

## 2. Modules

| Module | What it is | Code |
| --- | --- | --- |
| `MailboxSync` | one IMAP mailbox: workers, generations, watermark, retries, moves, a server that changes | MAIL, ST |
| `Catalogue` | what a mailbox's catalogue promises, whoever maintains it: the abstract specification of `MailboxSync` | ST |
| `UidFetch` | one fetch: batches, rejections, halves | MAIL |
| `MailRebuild` | one account: rebuild jobs, operation lock, cancellation, watcher supervisor | LIB, RT, ST |
| `HydrationQueue` | the hydration workers of the watchers: queues, batches, slots, events | RT |
| `BodyCache` | the fetch of a body, by windows and slots, and where it is stored | LIB, RT, ST |
| `Classification` | scheduler, drains of two processes, claim of the revision, results | LIB, ST, CLI |
| `MailActions` | moves, permanent deletion, sender clean-up as command sequences | MAIL, LIB, ST |
| `Outbox` | submission, Sent copy, unsubscription | MAIL, LIB |
| `Accounts` | row, secret and tokens of an account | LIB, ST, `oauth.rs`, MAIL |
| `VaultKey` | several processes publish one key | ST |
| `ProfileUpgrade` | opening an old profile, step by committed step | ST |
| `Threads` | recomputing conversations, against a definition of them | ST |
| `MailView` | the list of the main window | APP |
| `TranslationPack` | one language pack: download, verification, rename, cancellation, removal, loading | `translation.rs`, LIB, `offlineTranslation.ts` |
| `MailboxSyncProofs`, `MailRebuildProofs`, `MailActionsProofs`, `OutboxProofs` | theorems about the module each is named for | |
| `ClassificationProofs` | theorems about `Classification` and `HydrationQueue` | |
| `MailViewProofs` | theorems about `MailView` and `Threads` | |
| `ProfileProofs` | theorems about `ProfileUpgrade`, `VaultKey` and `Accounts` | |
| `DownloadProofs` | theorems about `BodyCache`, `TranslationPack` and `UidFetch` | |
| `MCSync`, `MCMailboxSync`, `MCMailRebuild`, `MCServices`, `MCLive`, `MCBodyCache`, `MCAccounts`, `MCVaultKey`, `MCProfileUpgrade` | small instances for TLC | |

**How they meet.** A module treats what another one models as a single step.
`MailRebuild`'s `Rebuild` is a run of `MailboxSync`; its watcher is the one whose
cycles `MailboxSync` has and whose worker is in `HydrationQueue`; a fetch there is
a life of a warmer in `BodyCache`; a metadata fetch of `MailboxSync` is a life of
`UidFetch`; a move in `MailboxSync`, `BodyCache` and `MailView` is one of
`MailActions`; the writes around `Commit` and `Delete` of `MailRebuild` are in
`Accounts`. `MailboxSync` and `MailRebuild` meet in `CanStart`: with
`Exclusive = TRUE` a watcher and a rebuild exclude each other, which is what
`stop_account` and the account operation lock give; `Exclusive = FALSE` is what
`reconcile` (RT:98-106) and the CLI allow.

### MailboxSync and Catalogue

A message is its UID, a row is the UIDVALIDITY its header came from (0: no
row). `srv` is the server's mailbox; `rows`, `catalog`, `sync`, `failures`,
`tombs` and `gen` are tables; `pc` and `job` are the step and the locals of each
worker; `user` is a move between its server half and its local half. `gone` and
`notified` are history. An action is one provider round trip or one transaction:

| Actions | Code |
| --- | --- |
| `StartWatcher`, `Prepare` | `fetch_new_inbox_headers` up to `prepare_mailbox_sync` |
| `StartRebuilder`, `DeltaVerify`, `DeltaApply` | SELECT, CONDSTORE delta and its final SELECT in `sync_mailboxes_with_progress_on_client` |
| `Begin`, `StagePage`, `Plan` | the snapshot generation and its inventory, the EXISTS check, the choice of UIDs |
| `Fetch`, `FetchFatal` | header fetches: rejected headers, connections that break half way |
| `Save`, `Record` | `save_synced_messages_through`, failures recorded and cleared |
| `Store`, `FetchDone` | a batch of a full sync, or of a replacement (both workers) |
| `Verify`, `Discard`, `Finalize`, `FinalizeRefused` | membership check and the publishing transaction |
| `Abort` | a dropped connection, a cancellation, the end of the process |
| `MoveOnServer`, `MoveLocally` | the two halves of archive, spam and trash |
| `Deliver`, `ExpungeElsewhere`, `ResetValidity` | the server (external) |

Abstractions. Headers are not modelled: a fetched header is the UIDVALIDITY it
was read under, so that a header of an old namespace is recognized in a row.
Which retries a cycle takes is any subset of `RetryLimit`. The order inside a
batch is kept only where a broken connection shows it (`FetchedBefore`). A
server that rejects the delta, or whose HIGHESTMODSEQ moved, is a
nondeterministic branch of `DeltaVerify`. A batch's failures and headers are one
step in `Store`: nothing reads between the two. `historical_complete` is not a
variable because the code never writes anything but 1.

`Catalogue` has two variables, what is known of each id and which ids are
hidden, and four actions: `Learn`, `Hide`, `Follow` (a whole inventory) and
`Replace` (a new namespace). `MailboxSync!FollowsCatalogue` is
`Catalog!Spec` with `rows` and the tombstones substituted.

### UidFetch

`Batches` cuts the items in commands, `Accepted`, `Split`, `RejectedAlone` and
`Broken` are the answers of the provider, which rejects commands that are too
long and items it cannot serve. Both callers are there: UID lists and sequence
ranges.

### MailRebuild

`account` is the number of the account's mail namespace, 0 once removed: two
accounts of different servers or folders are different numbers, and a changed
namespace takes the next one. `index` is the namespace the catalogue was built
from. `job` is durable, `mem` its copy in memory; `running` and `channel` are
the reservation and the cancellation entry; `lock` is the FIFO operation lock;
`lifecycle` is the supervisor's write lock; `task` is what each asynchronous
task is doing. An action is the code between two awaits, or between two locks of
a shared table, so `release_mail_rebuild`, which takes two locks, is two actions.

- A full sync: `SyncAccount`, `ReserveChannel`, `Lookup`, `Schedule`,
  `Register`, `Enter`, `Check`, `Begin`, `Rebuild`, `Settle`, `Restart`,
  `Clear`, `Release`, `Unreserve`.
- An update: `StartUpdate`, `Queue`, `EnterUpdate`, `Commit`, then `Sweep` and
  `Spawn` where it reconciles, `Resume`, and `ReserveChannel` (the rebuild it
  spawns) or `Leave`.
- A removal: `StartRemove`, `Queue`, `EnterRemove`, `Delete`, `Sweep`, `Spawn`,
  `Leave`. A reconciliation: `StartReconcile`, `Sweep`, `Spawn`, `Leave`.
- Startup: `Startup`, then `StartWatcher` or `ReserveChannel`. `Crash` keeps the
  tables and nothing else.

Any awaited call of the store or of the provider may fail, within `MaxFaults`.
`faults` keeps the kinds of the failures, so that a property can excuse one kind.

### HydrationQueue and BodyCache

`HydrationQueue`: `queue` has an account's arrivals and its maintenance pass,
`worker` the phase and batch of `run_hydration_worker`, `line` the semaphore.
`Arrive` and `Warm` are what a cycle queues; `Take`, `Load`, `Plan`, `Fill`,
`Publish` the worker; `Acquire`, `Fetch`, `Drop` its tasks; `Stop`, `Stopped`,
`Start` the watcher. `told` is the events of the batch. The cooldown of failed
messages and the moving page offset are kept, time is not: a cooldown outlives
the run.

`BodyCache`: a body is the number of the message it belongs to, so that a body
stored for another message is recognized. `task` is a fetch: `Open` or `Warm`,
`OpenClaim`, `Poll` (a busy claim), `Recheck`, `Locate` (SELECT and the
UIDVALIDITY check), `Fetch`, then `Attach`, `Star`, `Cache`, `Check`, `Restar`,
`Release`. A lease may lapse (`Lapse`) and be renewed late (`Renew`); `Cancel`
drops a warmer. Everything else that writes rows or flags is an action beside
them: `Persist`, `SyncFlags`, `Vanish`, `Publish` of synchronization, `StarStore`,
`StarFlag`, `StarFetch`, `StarSave`, `MoveStore`, `MoveLocally` of the user.

### Classification

`sched` is `ClassificationScheduleState`, with its generations; `meta` the
claim in `app_meta`; a message has its evidence, whether its sender is a
correspondent, who classified it and on what. A drain is `Pass`, `Claim`, `Select`,
`Known`, `Infer`, `Apply`, `Finish`, `Fail`, `Release`; a caller is `KickAndWait`,
`Register`, `Look`, `Sleep`, `Wake`. The CLI is a runner with another revision.
What the model says is not modelled; what it was computed from is.

### MailActions and Outbox

`MailActions`: `box` is the server (UIDVALIDITY, UIDNEXT, held messages with
their \Deleted mark), `cat` the catalogue. `Ask` or `AskCleanup`, then `Begin`,
`Discover`, `Pick`, `Select`, `Move` or, without MOVE, `NoMove`, `Copy`, `Store`,
`Expunge`, `Unmark`, and `Commit`. Each command may be refused or its answer lost.
Another client marks, compacts and recreates (`Mark`, `Compact`, `Recreate`);
the watcher's `Sync` runs beside.

`Outbox`: `relay` and `sentbox` count copies, `posted` one-click calls. `Build`,
`Open`, `MailFrom`, `Rcpt`, `Data`, `Final` are the SMTP commands, each refused,
accepted or unanswered; `Append` the copy; `Unsubscribe`, `Choose`, `Post`,
`Refresh` the unsubscription. What the user is told is the place a task ends in.

### Accounts, VaultKey, ProfileUpgrade

`Accounts`: `row` and `vault` are the two tables, `grant` the token the provider
accepts, `paused` the watchers that gave up. An addition, an update and a removal
are the writes between two awaits, with every rollback; `Refresh` and
`StoreTokens` are any use of an OAuth account. `torn` is history: the ids a crash
or a failed rollback left.

`VaultKey`: an action is a call of the file system. `Link` publishes where there
are hard links, `Lock`, `Look`, `Steal`, `Settle`, `CheckOwned`, `CheckFile`,
`Rename`, `Release`, `Unlink` elsewhere. `Age` lets a lock become stale, that of a
process that has ended or that of a live one, as `Ages` allows; `Beat` is the
heartbeat, which makes it fresh again until `Settle` stops it. `Steal` renames
whatever lock there is by then, as `move_stale_vault_publish_lock` does: a
contender decides on one lock and may take another. `robbed` is history: such a
lock was moved aside between its holder's last check and its rename.

`ProfileUpgrade`: `table` has the schema and the rows of the four tables that
matter; `Migrate` is the next committed step of a process (rename, create, carry
over, delete orphans, add columns, correspondents, conversations);
`Interrupted` a crash, an error or a busy database, `Missing` a statement about
tables that another process has just renamed.

### Threads and MailView

`Threads`: a header is what threading looks at. The result of `Load` and `Write`,
the union-find of the code, is compared with a definition: the finest partition
closed under `Related`. Whom a row joins does not depend on the groups made so far
(the code asks tables of the last row of a name, of a reference, of a subject), so
`Joins` is the set of unions and `Groups` folds them in an order left open.

`MailView`: `rows` is a copy of the catalogue's records, as React keeps it; a
request is superseded when a newer one is numbered, so only the newest load is
kept. `SearchAnswers`, `ServersAnswer` and their kin are answers, `ShowPage`,
`ShowFound`, `ShowMore` what is done with them if they are still the newest;
`Move`, `Mark`, `Delete`, `Sweep` what the user does, and what comes after.
`Jump` is a click on a notification, or a window that could not open its message
(`openNotification`, APP:1203-1251; `onReaderWindowFailed`, APP:1276-1290): both
select an inbox and ask for it themselves, without a number, so that `ShowJump`
puts the answer on screen whatever has happened since. A view in `Unread` lists
what is unread in any mailbox (of the views here none is Spam or Trash, which
those leave out); `Mark` takes a row that is marked as read out of it at once
(APP:1937-1944), and no load becomes void by that. `Finding`, `Rebuilt`, `RemoveAccount` and
`AccountRemoved` are the progress of a rebuild and the removal of an account,
which take the account's rows away (APP:704-706, APP:1023-1028) and load the list
again. `back`, `marked` and `astray` are history, for the properties.

### TranslationPack

`temp` and `pack` are the two directories: whether they exist, and for each file
whether it is missing, good, torn, or being written by an installation. `flag` is
the entry of `translation_downloads`, `job` where each installation is, `engine`
what the translator has loaded. `Install`, `Clear`, `Make`, `Request`, `Create`,
`Write`, `Swap`, `Rename`, `Undo` are `install_model` between two awaits;
`Corrupt` and `Broken` a download that fails; `Cancel`, `Remove`, `Load`, `Read`
what the windows do; `Crash` leaves the directories. All installations of a pack
use one temporary directory and one flag. Removing a directory is one step.

## 3. Runs

| Run | Question | Instance |
| --- | --- | --- |
| `sync` | is the catalogue right? | 2 UIDs, a watcher and a rebuild: exclusive with 1 fault; exclusive with a recreated mailbox; overlapping over 1 message |
| `rebuild` | any mix of operations: is anything lost, and does every one end? | 2 tasks, 2 namespaces, 1 failure of the provider, of the store, or a restart; fairness |
| `services` | are the components of section 2 right, each by itself? | see below |
| `live` | does what must happen happen? | see below, fairness |
| `shared_generation`, `replace_move`, `complete_flag`, `update_resumes`, `stale_body`, `legacy_left`, `orphan_credential`, `key_takeover` | findings, section 6 | the smallest that shows it |

`MCSync`, `MCServices` and `MCLive` put small instances of components side by
side: a run begins in one of them and stays there, the variables of the others at
rest. A property of the run is that of the instance, or the conjunction over the
instances of a component.

**sync** (`MCSync`, variable `instance`). With exclusive workers: a row of a live
message is only removed by the user's move (`LiveRowsKept`), a moved message does
not come back (`TombstonesHold`, `MovedStaysAway`), a full sync that commits is
complete (`FullSyncIsComplete`), the watermark passes nothing
(`WatermarkPassesNothing`), a retry leaves its queue for a reason
(`RetriesNotLost`), nothing is announced twice (`AnnouncedOnce`), and a commit
leaves one namespace (`OneNamespace`). Whatever overlaps, `FollowsCatalogue`
holds: the module refines `Catalogue`. With workers that share a mailbox and more
than one message, the properties named `...Kept`, `...Lost` and `...Away` are
violated: rows and retries by the takeover of `shared_generation`;
`MovedStaysGone` by a rebuild that commits, tombstones cleared, while a cycle
still holds the header of the moved message; `OneNamespace` by a full sync that
selects the recreated mailbox for its next batch and stores a new header between
another worker's check and its commit.

**rebuild**. A pending reset stays durable
(`ResetNotLost`), reservation, channel and lock are given back (`NothingLeaks`),
whoever stops the watcher starts it again (`WatchedWhenQuiet`), a removed account
leaves no job (`RemovedIsForgotten`). `OperationsEnd` says that the operation
lock, the lifecycle lock and the wait for a stopping watcher never close a cycle.
Two tasks are what liveness leaves room for; the four safety properties are proved
for any number (section 4).

**services** (`MCServices`, variable `part`):

| Part | Instance | Properties |
| --- | --- | --- |
| `class` | 2 messages, 2 drains, a CLI with a newer model | `NoStaleCategory`, `UserWins`, `AnsweredMeansDone` |
| `act` | 2 messages of 2 senders, 1 action, 1 fault, another client | `NothingLost`, `CleanupHitsSender`, `DoneMeansGone` |
| `out` | 2 drafts, 3 mails, 2 recipients, 2 attempts, 2 failures | `ReportIsTrue`, `OnceEach` |
| `acc` | 3 ids, 2 commands, 2 users, 1 fault | `CredentialsMatch` |
| `keys` | 2 processes, 3 openings, with and without hard links, locks of ended and of live processes getting stale | `KeysAgree` |
| `uid` | 4 items, commands of 3 | `EachOnce` |
| `pair`, `triple` | 2 messages with 2 references; 3 with 1 | `ThreadsRight` |
| `body`, `faulty` | 2 ids, a window, a slot, a budget of one body; with 2 bodies or with 1 fault | `CacheFits`, `OneFetch`, `BodyBelongs` (a starred body is of a flagged row, too) |
| `list`, `pages` | 3 conversations, 2 views, 1 change of view, 2 actions; `pages` with pages of 1 and 2 moves | `ListIsRight` |
| `news` | 2 conversations in one list, 2 actions, also 2 moves at once, 1 change of view and 1 by others | `ListIsRight` |
| `flags` | 2 conversations of an inbox and the unread view, 2 flags, a move and the rest in flight | `ListIsRight` |
| `bell` | the same with 2 accounts that are rebuilt or removed, a notification, 1 action, 1 change | `ListIsRight` |
| `alone`, `both` | 2 accounts of 1 message each: 1 process, 2 interruptions; 2 processes, 1 interruption | `UpgradeSafe` |
| `pack`, `packs` | 2 files: 1 installation, 2 failures or ends of the process, 3 uses; 2 installations, 1 failure | `PackSafe` |

**live** (`MCLive`, variable `part`): `sync` (the watcher alone, 2 UIDs, a fault:
`StoredEventually`), `one` and `two` (an account with two recent messages and a
stop; two accounts that share a slot: `EveryRecentTried`, and the safety
properties `ToldInOrder`, `NothingAfterStop`), `class` (`WaitEnds`), `body`
(`OpenEnds`, with a recreated mailbox and a lapsed lease) and `list`
(`LoadingEnds`, with two moves or a clean-up in flight).

**Bounds.** Two UIDs are the least with a gap, a watermark between them, a batch
that fails and one that succeeds, and a page that is not the whole inventory.
One fault interrupts any step once; two UIDVALIDITY values are one recreation.
`FetchLimit`, `BatchSize` and `PageSize` of 1 make every loop run twice.
`GenIds` has as many identifiers as workers may hold at once. Two tasks are the
least that race; two processes meet the lock of a third, ended one when one of them
has itself ended and come back (`MaxOpens` of 3). A cache that
holds one of two bodies evicts; a window and a slot contend for one claim; two
interruptions fall before and after any step of an upgrade and in its repetition;
four items in commands of three are cut once by the batch and twice by
rejections. Larger instances were explored without an error: `MailboxSync` with
3 UIDs and a fetch limit of 2, with batches and pages of 2, with a fault and a
recreation; `MailRebuild` with 2 faults, and with 3 tasks and 1 fault; the watcher's liveness with 3 UIDs and 2
faults. `MaxOpens`, `MaxTries`, `MaxOps`, `MaxKicks`, `MaxSwitches`, `MaxActions`,
`MaxChanges`, `MaxOthers`, `MaxEvents`, `MaxWaits`, `MaxUses` and `MaxStops` bound how often
something outside begins.

**Deadlock** is checked in `sync` and `rebuild`: new mail,
moves or commands may cease, but a worker can always start another cycle, and a
task another operation. `services`, `live` and four finding runs say
`CHECK_DEADLOCK FALSE`: their components really stop once the bounded user has
asked for everything and everything is answered.

**Fairness.** Weak fairness of what the runtime polls: each watcher's next step
and the start of its next cycle, because `run_watcher` (RT:251-365) loops, after
an error too, with one exception: a failed authentication ends it (RT:326-337)
until the account is connected again, so that what is said of a watcher's
liveness is said of an account whose credentials the provider accepts. So for
each hydration task, drain, caller and fetch; in the list, that every `invoke` is answered. IMAP commands,
HTTP calls and claims have timeouts, so that an awaited step comes. Faults,
deliveries, moves, commands and other clients are not fair. Strong fairness only
in `MailRebuild`: tokio's mutex and read-write lock are FIFO, so a waiter is not
overtaken for ever, which a weakly fair step that is enabled only now and then
would not say. `MCLive` states one weak fairness for the k-th fair action of every
part; only the part that runs takes steps, so each gets its own.

**What liveness says.** `StoredEventually` speaks of what a watcher owes: UIDs
above a positive watermark, and retries. A mailbox that was empty when it was
last committed has a NULL watermark, and its next cycle takes only the newest
`max_messages` (MAIL:546): older arrivals are left to a full sync. The module's
`Owed` states this limit; without it TLC finds the case with three UIDs.
A UID hidden by a tombstone is excused. `EveryRecentTried` is about recent mail:
the starred backlog has no such property (below).

**Conditions.** Where a property needs a condition, TLC violates it without:
`ListIsRight` excuses rows that a failure put back since the list was loaded (a
failed read flag puts its row into whatever view is loaded) and speaks of
missing rows only where there is one page. That what is moved is hidden excuses
such rows too, and conversations a second move took (`twice`): the row of a failed
move may be moved again while it is being put back (260 ms, `MailList.tsx:594`
disables nothing then), and `mailboxActionThreadIdsRef` is a set, in which both
have one entry, that the first to end takes out (APP:1541). In an unread view the
rows are excused whose flag was set since the list was asked for (`marked`): the
page that was on its way brings them back, and nothing loads the list again. And
nothing is said while an inbox is shown that a notification asked for and that
came too late (`astray`): after a newer request, or with a row that is being
acted on; the next page that is shown ends this. `KeysAgree` excepts one step, a
lock moved aside between its holder's last check and its rename (`robbed`);
`key_takeover` is the trace of it. `MarkerMeansKnown` needs one process.
`ThreadsRight` is checked for one writer. `CredentialsMatch` excuses ids a crash or
a failed rollback tore. `PackSafe` says that an installed pack is verified and
that only whole files are loaded for one installation at a time, that nothing
partial is left for any number. Nothing prevents two (a conversation that is left
goes on downloading): the second clears the directory of the first, which then
renames a file the second is still writing, although
`docs/offline-translation.md:43-44` says "every file is verified before the pack
is installed". `translation_model_files` verifies again before use.

## 4. Proofs

TLAPS proves what follows for every value of the constants that satisfies the
assumptions. Each proof module extends its component; five have others by
INSTANCE: `MailboxSyncProofs` the `Catalogue`, `ProfileProofs` `VaultKey` and
`Accounts`, `ClassificationProofs` `HydrationQueue`, `DownloadProofs`
`TranslationPack` and `UidFetch`, `MailViewProofs` `Threads`. Every strengthened invariant below was
an invariant of a TLC run before it was proved.

**MailboxSync, any workers** (`MailboxSyncProofs`).

- `TypeCorrect`: `Spec => []TypeOK`. `TypeOK` is inductive as it stands. The
  lemmas say what `Top`, `Highest`, `Lowest`, `Watermark` and `Identity` return;
  `TopIsGreatest` needs a greatest element of a finite set of UIDs, taken from
  the well-foundedness of `<` on the naturals. Then one lemma per action.
- `TombstonesAlwaysHold`: `Spec => []TombstonesHold`. Inductive together with
  `TypeOK`. Headers reach `rows` in two ways: `Persist` leaves out tombstoned
  UIDs, and `Finalize` writes staged headers only when it clears the tombstones;
  a commit that keeps them only removes rows. It holds for any number of
  watchers and rebuilds, exclusive or not.
- `ImplementsCatalogue`: `Spec => FollowsCatalogue`. Initial states map to initial
  states; each action is `Learn`, `Hide`, `Follow`, `Replace` or a stutter of the
  catalogue, which takes `TypeOK` and `TombstonesHold` of the state before.
  `HiddenStaysUnknown` is the catalogue's own theorem: what it hides stays unknown
  until its namespace is replaced.

**MailboxSync, one sync of the mailbox at a time** (`MailboxSyncProofs`, under
`Exclusive`). Without `Exclusive` these are false: section 3 and the run
`shared_generation`.

- `LiveRowsAlwaysSurvive`, `RetriesAlwaysKept`, `FullSyncStoresAll`: a live row is
  removed by the user's move only; a retry leaves its queue for a reason; a full
  sync that commits has a row for all it inventoried. None is inductive: what a
  commit deletes depends on the view of the mailbox the sync selected many steps
  before. The invariant `Sole` says what the one running sync knows: it is alone;
  what it does not see in its mailbox is newer than all it sees, and nothing is
  known of it (`Unseen`); its generation holds what it sees (`Staged`); what it
  asks for and gets lies in its view (`Asked`, `Answered`); past the check of the
  mailbox nothing of a later namespace is stored (`Verified`); and what a full
  sync has not stored it still means to fetch, or has failed on (`Full`).
- `CommitsOneNamespace`, `WatermarkPassesOnlyStored`: no header of an earlier
  namespace stands at a commit, and the watermark passes no message that is
  neither stored nor queued nor moved. `Dated` adds to `Sole` that rows and staged
  headers are at least as new as the catalogue's UIDVALIDITY, `AllMarked` what a
  cycle owes below the watermark it is about to write. Both need `KnownNamespace`:
  the mailbox is never recreated, or the store began synchronized and the server
  has no CONDSTORE delta. These are the instances `single` and `replaced` of
  `MCSync`; a third instance breaks each half. (a) In a fresh store whose first
  cycle failed, the sync state names a UIDVALIDITY and the catalogue none; a
  mailbox recreated then is not noticed (`NamespaceChanged` compares with the
  catalogue's), and the rows of the old namespace stay. (b) A mailbox recreated
  during a CONDSTORE delta: the delta's second SELECT replaces the snapshot's
  identity (MAIL:1207-1251) after the comparison of the UIDVALIDITY
  (MAIL:1154-1160), which is not repeated.
- `MovedNeverReturns`, `NoSecondNotice`: a moved message does not come back and
  none is announced twice, in a mailbox that is not recreated (`MaxValidity = 1`;
  recreated, the former is false by the run `replace_move`, the latter once a
  fault meets the recreation). `Moved`
  says that what was moved has left the server, and that a sync which still sees
  it will find its tombstone, a rebuild, which clears the tombstones, does not see
  it. `News` says of the new mail a cycle has stored that it is in its view, has
  a row, and is not announced yet.

**MailRebuild** (`MailRebuildProofs`), for any tasks, namespaces, failures and
restarts, in layers that rest on each other.

- `RemovedStaysForgotten`: `Spec => []RemovedIsForgotten`. Not inductive: `Begin`
  and `Settle` save a job without looking at the account. `IInv` adds that a task
  in a place where it relies on the account (`check` to `settle`, `commit`,
  `delete`) heads the lock queue (`LockHeld`), and that the account such a task
  works on exists (`AccountStays`). Only `Delete` removes the account; it holds
  the lock, so no other task is in such a place (`OneHolder`); queueing and
  unlocking move no other holder (`LockIsFifo`). `Schedule` works without the
  lock and rests on the trigger that refuses a job without an account
  (`AccountExists`).
- `NoLeak`: `Spec => []NothingLeaks`. `Control` says which places an operation
  can be in (`Courses`), that the lock's queue lists exactly the tasks that wait
  or hold, once each, and whoever is past the wait is its head (`LockLists`,
  `HeadWorks`), that the reservation is one task's (`OneReservation`), and that
  the channel is there for a registered task or for one that will drop the
  channel's reservation (`ChannelUsed`). `HeldIsNamed` is its theorem: whatever
  is held has a task that will give it back.
- `WatcherComesBack`: `Spec => []WatchedWhenQuiet`. `WatchInv`: an account without
  a job has its watcher, or a task that owes the restart, or the store has failed.
  Who owes needs what each task carries: its decision on the job, its snapshot of
  the account, that it stops only what it will start, and why it was cancelled.
- `ReplacementKept`: `Spec => []ResetNotLost`, if `"resume" \notin StoredJobs`.
  `JobInv`: every job stored, in memory or in a task's locals is a reset, a
  rebuild that settles well has built the account's namespace, and only a removal
  asks it to forget. The hypothesis is what profiles of this version satisfy at
  rest. A profile of an older version has jobs without the flag, which the
  migration reads as 0 (`storage.rs:692`, `storage.rs:793`); with one TLC loses a
  reset in ten steps: `sync_account` reads the old job without the operation lock
  (LIB:4740), an update commits its new namespace and the reset, then
  `schedule_mail_rebuild` (LIB:4337, LIB:4751) stores the older `false` over it,
  against LIB:4509-4511, "never downgrade that reset".

**MailActions** (`MailActionsProofs`), for any messages, folders, senders, faults
and steps of others.

- `MailNeverLost`, `CleanupStaysAimed`, `ReportedIsGone`: `Spec => []NothingLost`,
  `[]CleanupHitsSender`, `[]DoneMeansGone`; `MCServices` checks them by instance.
  `Sound` adds what each place of an operation relies on. `Harmless`: whatever
  bears the mark was meant to go or has its copy in Trash, also what is about to be
  marked; so an expunge of the whole folder, which a plain move issues, loses
  nothing. `Numbered` and `Aimed`: outside Trash a UID names one message as long
  as the UIDVALIDITY lasts, so what the discovery found is still the sender's when
  the UIDVALIDITY compares equal. `Accounted`: before the transaction the message
  has left its folder on the server, thus the watcher's next reading cannot bring
  the row back. `Placed` says which kind of operation works in which folder; the
  lemma `NextShrinks` that messages arrive in Trash alone.

**Classification** (`ClassificationProofs`), for any finite set of messages, any
drains, command lines, callers, revisions and batch sizes, and whatever ends in
between.

- `CategoriesStayCurrent`, `UserAlwaysWins`: `Spec => []NoStaleCategory`,
  `Spec => UserWins`. A drain reads its batch, judges it outside any transaction
  and stores the results by a compare-and-set. Inductive with the types: whoever
  changes the evidence, the correspondence or the revision drops the category it
  makes stale in the same step, and the comparison covers all three.
- `AnswersAreTrue`: `Spec => []AnsweredMeansDone`. A caller knows its request by a
  number, and nothing in the scheduler says which messages were pending when it
  was made. `Complete` relates the two: what a caller asked for and is not settled
  is still pending (`Served`); a page shorter than the batch was all that was
  pending, so it contains what every caller of this pass asked for (`LastBatch`),
  and at the end of a pass its callers have nothing left to wait for (`PassEnds`).
  Callers with a higher number are not this pass's. The messages are assumed
  finite so that a page can be counted.

**HydrationQueue** (`ClassificationProofs`), for any accounts, batches, slots and
failures.

- `StoppedIsQuiet`: `Spec => []NothingAfterStop`. `Calm`: a worker
  outside a batch has no tasks, the line for a slot lists waiting tasks only, each
  once (`LineOK`), and a watcher that is off has a worker that ended. `RemovedAt`
  says what the line is without the task that gave up.
- `EventsInOrder`: `Spec => []ToldInOrder`. What a worker tells has been through a
  queue, a selection, tasks that end in any order and a sort. `Telling` carries the
  order over these steps: what is queued and planned are messages, the plan follows
  the arrivals (`Follows`), a result is of a task of the plan, and what was told is
  part of the arrivals. A sequence is filtered and sorted by the k-th element of a
  set of places (`Nth`), because the library states nothing of its own `SelectSeq`
  and `SortSeq`: `NthIs` and `NthUp` say that the k-th exists and grows with k, by
  the least number for which it would not; `SelectIs`, `PlanFollows`, `SortedIs` and
  `EventsFollow` say it of the operators.

**Accounts** (`ProfileProofs`), for any accounts, commands and uses, and whatever
fails.

- `CredentialsAlwaysMatch`: `Spec => []CredentialsMatch`. Row and secret are
  written one after the other, so neither half is inductive. `AccInv` says that a
  command holds the lock of its account (`Holds`), that one between its two writes
  carries what undoes the first (`Reversible`) or works on an account that is there
  (`Present`), that what a refresh stores are tokens (`Refreshed`), and that row
  and secret fit in every state, but where a command is at the one step in which
  they need not (`Fits`). Lemma `LocalKeeps` is the argument for all commands: a
  step that touches only the account whose lock it has, and leaves that one fit,
  keeps the whole. `AsideKeeps` is the one for the refreshes, which have no lock:
  they change a secret only where the row says OAuth.

**ProfileUpgrade and VaultKey** (`ProfileProofs`), for any number of processes.

- `UpgradeLosesNothing`: `Spec => [](NothingLost /\ MarkerMeansKnown)`, if the old
  profile has a message. An upgrade goes through stages, and `IInv` says that a
  state is in one of them: the old tables stand (`Old`), they are set aside whole
  (`SetAside`), the new ones hold everything (`Carried`), or a process that had
  looked long before has set these aside, where they stay (`Back`). Each stage also
  says in which steps a process can still be, however late: one that works on
  tables renamed under it fails (`Missing`), and only one can be dropping the old
  tables. The hypothesis is needed: a process that carries
  accounts over a second time fails on the messages it inserts again. Without
  messages it does not, goes on to `DROP TABLE IF EXISTS legacy_accounts`
  (ST:1380-1397), and TLC, with three processes, finds it dropping what the third
  has set aside out of a stale look. Two processes lose nothing there either.
- `KeysAlwaysAgree`: `Spec => []KeysAgree` (VaultKey), with or without hard links,
  whoever's lock gets stale. The file and the lock change in steps of different
  processes, so that what an opener has checked may have ceased to be true: `KeyInv`
  says that each opening has its own key and token (`FreshKeys`), that nobody locks
  where there are hard links (`LinksFree`), and what each place has learned that still
  holds (`Learned`): at the rename the lock is its own, there is no file while its
  lock stands after its look, and a process that has read or published a key has the
  file's. A contender that takes the lock away falsifies only what `robbed` records:
  earlier, the second check notices.

**BodyCache, TranslationPack** (`DownloadProofs`), for any windows, slots, messages
and installations.

- `BodiesStayOwned`: `Spec => [](OneFetch /\ StarredOnlyWhileFlagged)` (BodyCache).
  Inductive with the types. A claim lapses, is taken over or loses its row, and
  the task that had it goes on to fetch: what it must not do is renew, or release,
  what is another's (`ClaimKeeps`, `LeaseKeeps`, `ReleaseKeeps`). A starred body
  is stored in several places, each of which asks for the flag in the same
  statement, and every writer of flags and rows takes the body away with them
  (`RevokedKeeps`).
- `BodiesBelong`: `Spec => []BodyBelongs` (BodyCache). While no recreation has
  happened there is a function `m` from ids to messages that everybody agrees
  with (`Loyal`): an id the server has used stands for one message only, and every
  row, body, cache entry, locator of a task and move of the user under an id is
  `m[id]` (`Faithful`, in a part for each holder). `m` changes in two steps, a
  delivery and the server's half of a move, both at an id nobody has seen; each
  late store writes what it fetched under the id it fetched. TLC had to correct the
  statement first: with the catalogue's UIDVALIDITY in place of the server's it is
  false, in 14 steps with one recreation.
- `CacheStaysInBudget`: `Spec => []CacheFits`. `CacheRight` adds nothing but that
  entries have rows and are ordered by their last access; the work is in what
  the eviction loop leaves (`EvictedFits`): the entries that stay are those of
  the first turn at which the rest fits, and a sum over fewer entries, or smaller
  ones, is no larger (`SumSubset`, `SumLess`). The budget, the sizes and the
  recent ids are arbitrary, so this covers what no small instance does: an entry
  as large as the budget, bodies of zero bytes, many that must leave at once.
- `CacheStaysInBudget` rests on induction over data without the induction
  theorems, whose operator parameters none of the provers can instantiate:
  `LeastNat` takes the least element of a set of numbers from the library's
  theorem that `<` on them is well-founded, `SmallestSet` the smallest of a family
  of finite sets, and a sum over a finite set, which is a fold, exists, is unique
  and can be split (`SumExists`, `SumUnique`) because a smallest set for which it
  failed would give a smaller one.
- `PacksAreSafe`: `Spec => []PackSafe` (TranslationPack). `NothingPartialLeft`, for
  any number of installations of one pack, is inductive with the type of `job`: the
  installation that makes the directory is in a place that ends in `Rename` or
  `Undo`, and whoever leaves such a place has taken the directory away
  (`PartialsCleaned`). `PackIsVerified` and `LoadsOnlyVerified` need one
  installation at a time: `Sure` says that its directory is there, that the files
  before the one it is at are whole, and at the rename all of them; `Installed`
  that nothing is ever written to what is installed. Two installations break it
  (section 3).

**UidFetch** (`DownloadProofs`), for any items, size of batch and limit of the
provider.

- `EveryItemOnce`: `Spec => []EachOnce`. `Remaining` says that the commands to
  come are newest first, each and one after the other, that they hold exactly what
  was asked and has no outcome, and that all of it is older than what has one: so a
  command that is accepted continues the list, and one that fails has nothing that
  came. The lemmas say this of the operators: `BatchesKeep` of the batches (that
  none is left out is the least batch whose end is not before an item), `Cut` of
  two halves, `FirstGoes` and `TwoBefore` of the queue, `Joined` of the answers.

**Outbox** (`OutboxProofs`).

- `SentOnce`, `ToldTrue`: `Spec => []OnceEach`, `Spec => []ReportIsTrue`
  (Outbox), for any drafts, recipients, failures and attempts. `IInv` says, for
  each place of a submission, what the relay and the Sent folder hold, and that
  a refused recipient ends the attempt before any data (`DraftIsSound`); an
  attempt begins again only where nobody has the message. `CInv` counts one-click
  calls: no more than the user asked for, one fewer while a call is due.

**MailView** (`MailViewProofs`), for any conversations, views, page size, moves,
marks, notifications, accounts and failures, and answers in any order.

- `ListStaysRight`: `Spec => [](ViewIsRight /\ ActedOnIsHidden)`. At rest the list
  is its view's because a list that is wrong is about to be loaded again: either
  something is in flight that ends with a load (`Busy`), or what is on screen and
  what is about to be shown is right (`Right`), and this is what every action
  keeps: it either makes the list busy or moves right rows. A load that an action
  voided never arrives (`LoadMessages` takes a new number), and one that is asked
  is for the view on screen, as is a notification's inbox that nothing has outdated
  (`Aimed`); in an unread view a row is missing while the change of its flag may yet
  fail and put it back (`Owed`); in a list of one page no further page is on
  its way (`Alone`). For what is acted on, `Owned` and `Claimed` say whose entries
  the set of hidden conversations has, `HidesAll` that nothing hidden is shown but
  what a failure put back. The proof found the property wrong as it was stated:
  without `back` and `twice` TLC violates it in 10 and 13 steps, beyond the bounds the
  run had then; `news` now has both cases.

**Threads** (`MailViewProofs`), for any messages, names and references, and one
worker that stores messages.

- `ThreadsAlwaysRight`: `Spec => []ThreadsRight`. `ThreadsInv` says that what an
  idle worker leaves, and what a busy one is about to write, are the threads of the
  rows there are. That these are the definition's is a statement about all headers:
  `FoldConnects`, that unions over a finite set of pairs make the groups the pairs
  connect, in whatever order they are taken (the smallest set of pairs that fails is
  one union more than one that does not); `RelatedAgree`, that the joins reach
  everything related, though a row joins only the last of each name (`ChainAgrees`:
  the first row that is not on the side of an earlier one); `JoinsRelated`, that they
  reach nothing else; and `NameIsOwn`, that two groups never get one name.

Assumptions: `SyncAssumption`, `RebuildAssumption`, `VaultAssumption`,
`UpgradeAssumption`, `HydrationAssumption`, `BodyAssumption`, `PackAssumption`, `UidFetchAssumption`, `OutboxAssumption`,
`MailActionsAssumption`, `ClassificationAssumption`, `AccountsAssumption`,
`MailViewAssumption` and `ThreadsAssumption`, which
TLC evaluates in the runs; the catalogue and `StoppedIsQuiet` need none. That
processes and ids are finite sets is among them. Hypotheses of single theorems:
`Exclusive`, `KnownNamespace`, `MaxValidity = 1`, `"resume" \notin StoredJobs`,
`Messages # {}`, `OneAtATime` and `OneWriter`; the runs that pass have instances that
satisfy them.

Only model-checked: that a late release of the revision is harmless
(`LateReleaseHarmless`: true as long as fewer drains are late than the retries
another process has). Out of the prover's reach are liveness and ENABLED.
No module here declares a RECURSIVE
operator, so every module can be proved about.

## 5. What is not modelled, and why

- In `MailboxSync`: flags and read state (announcements ignore the unread
  filter), Gmail label exclusions, repair fetches of snippets and recipients,
  several mailboxes of an account, the row a move creates at its destination.
- In `MailRebuild`: several accounts (operations of two accounts share only the
  lifecycle lock), the `enabled` switch, the transition lock of one account (stop
  and start are one step), validation before an update asks for the lock, IDLE and
  its renewal, back-off and the status table. The branch of `sync_account` that the
  button for refreshing the inbox takes (LIB:4771-4791): under the operation lock it
  stops the watcher, runs one cycle and starts the watcher again, without a job, a
  reservation or a channel.
- In `HydrationQueue` and `BodyCache`: the refresh of a header before a warm
  pass, the refetch of bodies that an older version stored under the wrong type,
  attachments, images, the length of leases and cooldowns.
- In `Classification`: inference and features (a pure function), the
  reclassification a user asks for.
- In `MailActions`: the read flag, Gmail's further copies in a clean-up. In
  `Outbox`: composing MIME, the delay in which the window lets the user undo.
- In `Accounts`: the PKCE sign-in, which nothing in the desktop calls any more;
  encryption itself.
- In `ProfileUpgrade`: metadata of attachments, the replacement of the body index,
  the carried-over states of mailboxes (the next sync makes them again).
- In `Threads`: normalization of subjects (a relation here).
- In `MailView`: the star and the starred view, the sections of the smart inbox
  (with their own request number), the lists that are empty at once (the Outbox, no
  account: APP:526-551), a conversation of several messages, the reader's selection,
  settings, the composer, rendering. Reloads after a message was sent, edited in
  another window or given a category are those of `MailChanged`.
- In `TranslationPack`: language detection, the WebAssembly worker and its
  time-outs, the list of statuses, file-system calls that fail.
- Whole components: MIME parsing and budgets, provider presets, AI prompts,
  search (SQL over FTS5), the CLI's arguments and output, updater, analytics and
  build scripts. They are pure text or data processing, single requests, or
  external; they keep no state that two actors share.

Much of `mail.rs` and `storage.rs` is tests (`mod tests` is over half of each) and
much of the rest is parsing, SQL text and conversions; the lines that keep state
and await something are the ones the modules cover.

## 6. Findings

- `shared_generation`: `begin_mailbox_snapshot` takes over the generation of a
  running sync and drops its inventory; a full sync past its own check then
  commits a partial inventory and deletes live rows. It takes a reconciliation
  (or the CLI) during a rebuild.
- `replace_move`: a replacement clears the tombstones, then publishes headers
  staged before a move: the moved message is back.
- `complete_flag`: every commit is marked complete, also that of a watcher's
  first window; the CONDSTORE delta then skips what was never fetched.
- `update_resumes`: an update cancels a reserved rebuild before it queues, and
  the reservation keeps the update from resuming it.
- `stale_body`: a body fetched before a recreation is stored for the message that
  took its id.
- `legacy_left`: an upgrade interrupted after the rename never carries the old
  rows over.
- `key_takeover`: a contender that found the lock of a dead process stale moves
  aside the fresh lock of the one that has replaced it. If this one is past its
  last check, it renames its key over the one that is published and in use.
- `orphan_credential`: a token refresh in flight stores tokens between the two
  halves of a removal.

One more disagreement with a document shows in a hypothesis: `PackSafe` needs one
installation at a time, `docs/offline-translation.md:43-44` does not say so
(section 3).

Behaviours TLC found that no text of the repository contradicts are hazards with
a note, not findings. One has no property at all: the starred backlog (RT:675) is
always its newest 25 messages without a cooldown, so that 25 that fail keep the
older ones from being fetched.

## 7. Plan

The core, the operations around it, the refinement and the first proofs are
done. Next:

1. `MailView`: the star and the sections of the smart inbox.
2. Several mailboxes of one account in `MailboxSync`, with Gmail's labels.
