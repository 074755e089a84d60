----------------------------- MODULE MCServices -----------------------------
(***************************************************************************)
(* Small instances of the components that share no state with each other,  *)
(* checked side by side: a run begins in one of them and stays there, the  *)
(* variables of the others at rest.                                        *)
(***************************************************************************)
EXTENDS Naturals

CONSTANTS m1, m2, d1, d2, k1, cli, Desktop, NoOwner  \* Classification
CONSTANTS s1, s2, inbox, trash                       \* MailActions
CONSTANTS u1, u2, u3, ra, rb                         \* Outbox
CONSTANTS a1, a2, a3, c1, c2, r1, r2                 \* Accounts
CONSTANTS p, q                                       \* VaultKey
CONSTANTS w1                                         \* Threads
CONSTANTS i1, i2, win, slot, NoOne, Orphan, NoId     \* BodyCache
CONSTANTS v1, v2, v3, x1, x2, j1                     \* MailView

VARIABLE part   \* the component that runs

-----------------------------------------------------------------------------
(* Two messages, two drains of the desktop and a command line whose model   *)
(* is newer.                                                                *)
VARIABLES mail, meta, sched, runner, client, events
classVars == <<mail, meta, sched, runner, client, events>>

Class == INSTANCE Classification WITH
    Msgs <- {m1, m2}, Drains <- {d1, d2}, Clis <- {cli}, Clients <- {k1},
    Revision <- [o \in {Desktop, cli} |-> IF o = cli THEN 2 ELSE 1],
    BatchSize <- 1, MaxRetries <- 1, MaxKicks <- 2, MaxEvents <- 1

ClassAtRest == /\ mail = 0 /\ meta = 0 /\ sched = 0
               /\ runner = 0 /\ client = 0 /\ events = 0

-----------------------------------------------------------------------------
(* Two messages of two senders in the inbox, one action.                    *)
VARIABLES box, cat, tombs, op, used, doomed
actVars == <<box, cat, tombs, op, used, doomed>>

Act == INSTANCE MailActions WITH
    Msgs <- {m1, m2}, Senders <- {s1, s2}, Folders <- {inbox, trash}, Trash <- trash,
    Sender <- [m \in {m1, m2} |-> IF m = m1 THEN s1 ELSE s2],
    Start <- [f \in {inbox, trash} |-> IF f = inbox THEN {m1, m2} ELSE {}],
    MaxValidity <- 2, MaxOps <- 1, MaxFaults <- 1, MaxOthers <- 1

ActAtRest == box = 0 /\ cat = 0 /\ tombs = 0 /\ op = 0 /\ used = 0 /\ doomed = 0

-----------------------------------------------------------------------------
(* Two drafts, one sent through Gmail, and a mail of each kind that asks    *)
(* something of the program to be unsubscribed from.                        *)
VARIABLES relay, sentbox, posted, outTask, tries, outFaults
outVars == <<relay, sentbox, posted, outTask, tries, outFaults>>

KindStored  == [u \in {u1, u2, u3} |->
                  CASE u = u1 -> "one_click" [] u = u2 -> "malformed" [] OTHER -> "web"]
KindFetched == [u \in {u1, u2, u3} |-> IF u = u2 THEN "mailto" ELSE "one_click"]

Out == INSTANCE Outbox WITH
    Drafts <- {d1, d2}, Mails <- {u1, u2, u3}, Recipients <- {ra, rb},
    RowKind <- KindStored, HeaderKind <- KindFetched, Saves <- {d1},
    MaxTries <- 2, MaxFaults <- 2, task <- outTask, faults <- outFaults

OutAtRest == /\ relay = 0 /\ sentbox = 0 /\ posted = 0
             /\ outTask = 0 /\ tries = 0 /\ outFaults = 0

-----------------------------------------------------------------------------
(* Three account ids, two commands and two users of the credentials.        *)
VARIABLES row, removed, vault, accLock, accTask, grant, paused, accFaults, torn
accVars == <<row, removed, vault, accLock, accTask, grant, paused, accFaults,
             torn>>

Acc == INSTANCE Accounts WITH
    Ids <- {a1, a2, a3}, First <- a1, Commands <- {c1, c2}, Readers <- {r1, r2},
    MaxTokens <- 1, MaxFaults <- 1,
    lock <- accLock, task <- accTask, faults <- accFaults

AccAtRest == /\ row = 0 /\ removed = 0 /\ vault = 0 /\ accLock = 0 /\ accTask = 0
             /\ grant = 0 /\ paused = 0 /\ accFaults = 0 /\ torn = 0

-----------------------------------------------------------------------------
(* Two processes open the profile at once, with and without hard links; the *)
(* lock of either may look stale, be it dead or only slow.                  *)
VARIABLES links, file, keyLock, proc, opens, robbed
keyVars == <<links, file, keyLock, proc, opens, robbed>>

Keys == INSTANCE VaultKey WITH
    Processes <- {p, q}, HardLinks <- BOOLEAN, Ages <- {"dead", "live"}, MaxOpens <- 3,
    lock <- keyLock

KeysAtRest == /\ links = 0 /\ file = 0 /\ keyLock = 0
              /\ proc = 0 /\ opens = 0 /\ robbed = 0

-----------------------------------------------------------------------------
(* Four items in commands of at most three.                                 *)
VARIABLES kind, asked, limit, cursed, pending, got, failed, over
uidVars == <<kind, asked, limit, cursed, pending, got, failed, over>>

Uid == INSTANCE UidFetch WITH MaxItems <- 4, MaxBatch <- 3

UidAtRest == /\ kind = 0 /\ asked = 0 /\ limit = 0 /\ cursed = 0
             /\ pending = 0 /\ got = 0 /\ failed = 0 /\ over = 0

-----------------------------------------------------------------------------
(* Two messages that may name two others, or three that may name one.       *)
VARIABLES header, alike, thread, plan
threadVars == <<header, alike, thread, plan>>

Pair == INSTANCE Threads WITH
    Writers <- {w1}, Messages <- 2, Names <- {101, 102}, MaxLinks <- 2
Triple == INSTANCE Threads WITH
    Writers <- {w1}, Messages <- 3, Names <- {101}, MaxLinks <- 1

ThreadsAtRest == header = 0 /\ alike = 0 /\ thread = 0 /\ plan = 0

-----------------------------------------------------------------------------
(* Two ids, a window and a slot; two bodies do not fit together.  With two  *)
(* bodies, or with faults.                                                  *)
VARIABLES server, catalog, bodyRow, flagged, tomb, cache, starred, claim, old,
          bodyTask, user, bodyFaults, actions
bodyVars == <<server, catalog, bodyRow, flagged, tomb, cache, starred, claim,
              old, bodyTask, user, bodyFaults, actions>>

Sizes == [n \in 0..2 |-> IF n = 0 THEN 0 ELSE 1]

Body == INSTANCE BodyCache WITH
    Ids <- {i1, i2}, Recent <- {i1}, Readers <- {win}, Warmers <- {slot},
    MaxBody <- 2, MaxValidity <- 1, MaxFaults <- 0, MaxEvents <- 1, MaxWaits <- 1,
    Budget <- 1, Size <- Sizes,
    row <- bodyRow, task <- bodyTask, faults <- bodyFaults, events <- actions
Faulty == INSTANCE BodyCache WITH
    Ids <- {i1, i2}, Recent <- {i1}, Readers <- {win}, Warmers <- {slot},
    MaxBody <- 1, MaxValidity <- 1, MaxFaults <- 1, MaxEvents <- 1, MaxWaits <- 1,
    Budget <- 1, Size <- [n \in 0..1 |-> n],
    row <- bodyRow, task <- bodyTask, faults <- bodyFaults, events <- actions

BodyAtRest == /\ server = 0 /\ catalog = 0 /\ bodyRow = 0 /\ flagged = 0 /\ tomb = 0
              /\ cache = 0 /\ starred = 0 /\ claim = 0 /\ old = 0 /\ bodyTask = 0
              /\ user = 0 /\ bodyFaults = 0 /\ actions = 0

-----------------------------------------------------------------------------
(* Conversations in two views of which one is searched at the servers:      *)
(* three of two senders and every action in a list of one page; two, two    *)
(* moves at once, of which one may repeat the other, and a change by        *)
(* others; pages of one and two moves at once.                              *)
VARIABLES listStore, view, rows, cursor, loading, load, more, jumps, moves, moving, marks,
          latest, erase, sweep, notice, phases, back, marked, astray, clicks
listVars == <<listStore, view, rows, cursor, loading, load, more, jumps, moves, moving, marks,
              latest, erase, sweep, notice, phases, back, marked, astray, clicks>>

AllCalls == {"search", "remote", "move", "mark", "delete", "sweep"}

List == INSTANCE MailView WITH
    Threads <- 1..3, Views <- {v1, v2}, Searches <- {v2}, Unread <- {}, Inboxes <- {},
    Start <- <<v1, v1, v2>>, Sender <- <<s1, s1, s2>>,
    Accounts <- {a1}, Owner <- [n \in 1..3 |-> a1],
    Moves <- {x1}, Marks <- {x1}, Jumps <- {}, PageSize <- 3,
    Faults <- AllCalls, MaxSwitches <- 1, MaxActions <- 2, MaxChanges <- 0,
    store <- listStore, accounts <- phases, used <- clicks
News == INSTANCE MailView WITH
    Threads <- 1..2, Views <- {v1, v2}, Searches <- {v2}, Unread <- {}, Inboxes <- {},
    Start <- <<v1, v2>>, Sender <- <<s1, s1>>,
    Accounts <- {a1}, Owner <- <<a1, a1>>,
    Moves <- {x1, x2}, Marks <- {}, Jumps <- {}, PageSize <- 2,
    Faults <- AllCalls, MaxSwitches <- 1, MaxActions <- 2, MaxChanges <- 1,
    store <- listStore, accounts <- phases, used <- clicks
Pages == INSTANCE MailView WITH
    Threads <- 1..3, Views <- {v1, v2}, Searches <- {v2}, Unread <- {}, Inboxes <- {v1},
    Start <- <<v1, v1, v2>>, Sender <- <<s1, s1, s2>>,
    Accounts <- {a1}, Owner <- [n \in 1..3 |-> a1],
    Moves <- {x1, x2}, Marks <- {}, Jumps <- {}, PageSize <- 1,
    Faults <- {"move"}, MaxSwitches <- 1, MaxActions <- 2, MaxChanges <- 0,
    store <- listStore, accounts <- phases, used <- clicks

(* An inbox that notifications lead to and the unread messages: two flags   *)
(* at once; or two accounts that may be rebuilt or removed, and a           *)
(* notification.                                                            *)
Flags == INSTANCE MailView WITH
    Threads <- 1..2, Views <- {v1, v3}, Searches <- {}, Unread <- {v3}, Inboxes <- {v1},
    Start <- <<v1, v1>>, Sender <- <<s1, s1>>,
    Accounts <- {a1}, Owner <- <<a1, a1>>,
    Moves <- {x1}, Marks <- {x1, x2}, Jumps <- {}, PageSize <- 2,
    Faults <- AllCalls, MaxSwitches <- 1, MaxActions <- 2, MaxChanges <- 0,
    store <- listStore, accounts <- phases, used <- clicks
Bell == INSTANCE MailView WITH
    Threads <- 1..2, Views <- {v1, v3}, Searches <- {}, Unread <- {v3}, Inboxes <- {v1},
    Start <- <<v1, v1>>, Sender <- <<s1, s1>>,
    Accounts <- {a1, a2}, Owner <- <<a1, a2>>,
    Moves <- {x1}, Marks <- {x1}, Jumps <- {j1}, PageSize <- 2,
    Faults <- AllCalls, MaxSwitches <- 1, MaxActions <- 1, MaxChanges <- 1,
    store <- listStore, accounts <- phases, used <- clicks

ListAtRest == /\ listStore = 0 /\ view = 0 /\ rows = 0 /\ cursor = 0 /\ loading = 0
              /\ load = 0 /\ more = 0 /\ jumps = 0 /\ moves = 0 /\ moving = 0
              /\ marks = 0 /\ latest = 0 /\ erase = 0 /\ sweep = 0 /\ notice = 0
              /\ phases = 0 /\ back = 0 /\ marked = 0 /\ astray = 0 /\ clicks = 0

-----------------------------------------------------------------------------
(* Two accounts of a message each in an old profile: opened by one process  *)
(* with interruptions, or by two at once with one.                          *)
VARIABLES table, gone, known, marker, grouped, opener, upOpens, upFaults
upVars == <<table, gone, known, marker, grouped, opener, upOpens, upFaults>>

Alone == INSTANCE ProfileUpgrade WITH
    Processes <- {p}, Accounts <- {a1, a2}, Messages <- {m1, m2},
    Owner <- [m \in {m1, m2} |-> IF m = m1 THEN a1 ELSE a2],
    Profiles <- {"electron", "unthreaded"}, MaxOpens <- 4, MaxFaults <- 2,
    removed <- gone, proc <- opener, opens <- upOpens, faults <- upFaults
Both == INSTANCE ProfileUpgrade WITH
    Processes <- {p, q}, Accounts <- {a1, a2}, Messages <- {m1, m2},
    Owner <- [m \in {m1, m2} |-> IF m = m1 THEN a1 ELSE a2],
    Profiles <- {"electron", "unthreaded"}, MaxOpens <- 4, MaxFaults <- 1,
    removed <- gone, proc <- opener, opens <- upOpens, faults <- upFaults

UpAtRest == /\ table = 0 /\ gone = 0 /\ known = 0 /\ marker = 0 /\ grouped = 0
            /\ opener = 0 /\ upOpens = 0 /\ upFaults = 0

-----------------------------------------------------------------------------
(* A language pack of two files installed by one window at a time, with     *)
(* failures, cancellations, removals and loads; and by two windows at once. *)
VARIABLES tempDir, packDir, flag, install, engine, crashed, packFaults, packUses
packVars == <<tempDir, packDir, flag, install, engine, crashed, packFaults, packUses>>

Pack == INSTANCE TranslationPack WITH
    Installers <- {p}, Files <- 2, MaxFaults <- 2, MaxUses <- 3,
    temp <- tempDir, pack <- packDir, job <- install, faults <- packFaults,
    uses <- packUses
Packs == INSTANCE TranslationPack WITH
    Installers <- {p, q}, Files <- 2, MaxFaults <- 1, MaxUses <- 0,
    temp <- tempDir, pack <- packDir, job <- install, faults <- packFaults,
    uses <- packUses

PackAtRest == /\ tempDir = 0 /\ packDir = 0 /\ flag = 0 /\ install = 0 /\ engine = 0
              /\ crashed = 0 /\ packFaults = 0 /\ packUses = 0

-----------------------------------------------------------------------------
ASSUME ServicesAssumption ==
    /\ Class!ClassificationAssumption /\ Act!MailActionsAssumption
    /\ Out!OutboxAssumption /\ Acc!AccountsAssumption
    /\ Keys!VaultAssumption /\ Uid!UidFetchAssumption
    /\ Pair!ThreadsAssumption /\ Triple!ThreadsAssumption
    /\ Body!BodyAssumption /\ Faulty!BodyAssumption
    /\ List!MailViewAssumption /\ News!MailViewAssumption /\ Pages!MailViewAssumption
    /\ Flags!MailViewAssumption /\ Bell!MailViewAssumption
    /\ Alone!UpgradeAssumption /\ Both!UpgradeAssumption
    /\ Pack!PackAssumption /\ Packs!PackAssumption

MCInit ==
    /\ part \in {"class", "act", "out", "acc", "keys", "uid",
                 "pair", "triple", "body", "faulty",
                 "list", "news", "pages", "flags", "bell", "alone", "both", "pack", "packs"}
    /\ IF part = "class" THEN Class!Init ELSE ClassAtRest
    /\ IF part = "act" THEN Act!Init ELSE ActAtRest
    /\ IF part = "out" THEN Out!Init ELSE OutAtRest
    /\ IF part = "acc" THEN Acc!Init ELSE AccAtRest
    /\ IF part = "keys" THEN Keys!Init ELSE KeysAtRest
    /\ IF part = "uid" THEN Uid!Init ELSE UidAtRest
    /\ CASE part = "pair" -> Pair!Init [] part = "triple" -> Triple!Init
         [] OTHER -> ThreadsAtRest
    /\ CASE part = "body" -> Body!Init [] part = "faulty" -> Faulty!Init
         [] OTHER -> BodyAtRest
    /\ CASE part = "list" -> List!Init [] part = "news" -> News!Init
         [] part = "pages" -> Pages!Init [] part = "flags" -> Flags!Init
         [] part = "bell" -> Bell!Init [] OTHER -> ListAtRest
    /\ CASE part = "alone" -> Alone!Init [] part = "both" -> Both!Init
         [] OTHER -> UpAtRest
    /\ CASE part = "pack" -> Pack!Init [] part = "packs" -> Packs!Init
         [] OTHER -> PackAtRest

MCNext ==
    /\ UNCHANGED part
    /\ IF part = "class" THEN Class!Next ELSE UNCHANGED classVars
    /\ IF part = "act" THEN Act!Next ELSE UNCHANGED actVars
    /\ IF part = "out" THEN Out!Next ELSE UNCHANGED outVars
    /\ IF part = "acc" THEN Acc!Next ELSE UNCHANGED accVars
    /\ IF part = "keys" THEN Keys!Next ELSE UNCHANGED keyVars
    /\ IF part = "uid" THEN Uid!Next ELSE UNCHANGED uidVars
    /\ CASE part = "pair" -> Pair!Next [] part = "triple" -> Triple!Next
         [] OTHER -> UNCHANGED threadVars
    /\ CASE part = "body" -> Body!Next [] part = "faulty" -> Faulty!Next
         [] OTHER -> UNCHANGED bodyVars
    /\ CASE part = "list" -> List!Next [] part = "news" -> News!Next
         [] part = "pages" -> Pages!Next [] part = "flags" -> Flags!Next
         [] part = "bell" -> Bell!Next [] OTHER -> UNCHANGED listVars
    /\ CASE part = "alone" -> Alone!Next [] part = "both" -> Both!Next
         [] OTHER -> UNCHANGED upVars
    /\ CASE part = "pack" -> Pack!Next [] part = "packs" -> Packs!Next
         [] OTHER -> UNCHANGED packVars

all == <<part, classVars, actVars, outVars, accVars, keyVars, uidVars, threadVars, bodyVars,
         listVars, upVars, packVars>>
MCSpec == MCInit /\ [][MCNext]_all

-----------------------------------------------------------------------------
(* The properties of the components, each while it runs. *)

(* Classification: a category rests on what is stored now, a caller that is *)
(* told "done" has its messages classified, and a drain's late release of   *)
(* its claim takes no other's.                                              *)
NoStaleCategory   == part = "class" => Class!NoStaleCategory
AnsweredMeansDone == part = "class" => Class!AnsweredMeansDone /\ Class!LateReleaseHarmless

(* What the user decided stays. *)
UserWins == [][part = "class" => Class!KeepsUser]_mail

(* Mailbox actions: no message is lost, a clean-up hits its sender only,    *)
(* and what is reported done is gone from its folder.                       *)
NothingLost       == part = "act" => Act!NothingLost
CleanupHitsSender == part = "act" => Act!CleanupHitsSender
DoneMeansGone     == part = "act" => Act!DoneMeansGone

(* Sending and unsubscribing: what the user is told is what happened, and   *)
(* nobody gets a message twice.                                             *)
ReportIsTrue == part = "out" => Out!ReportIsTrue
OnceEach     == part = "out" => Out!OnceEach

(* Accounts: a credential of the account's own kind, none without account.  *)
CredentialsMatch == part = "acc" => Acc!CredentialsMatch

(* The profile's key: everybody uses the published one, unless a lock was   *)
(* moved aside between its holder's last check and its rename.              *)
KeysAgree == part = "keys" => Keys!KeysAgree

(* Fetching by UID: each item is answered or failed exactly once. *)
EachOnce == part = "uid" => Uid!EachOnce

(* Conversations are those the headers define. *)
ThreadsRight ==
    (part = "pair" => Pair!ThreadsRight) /\ (part = "triple" => Triple!ThreadsRight)

(* Bodies: every body is its row's and a starred one only of a flagged row, *)
(* the cache is within its budget, and no body is fetched twice at a time.  *)
Bodies(P, Q) == (part = "body" => P) /\ (part = "faulty" => Q)
BodyBelongs == Bodies(Body!BodyBelongs /\ Body!StarredOnlyWhileFlagged,
                      Faulty!BodyBelongs /\ Faulty!StarredOnlyWhileFlagged)
CacheFits   == Bodies(Body!CacheFits, Faulty!CacheFits)
OneFetch    == Bodies(Body!OneFetch, Faulty!OneFetch)

(* The list of the window: at rest it shows its view, but for what failures *)
(* put back, flags set meanwhile and an inbox that came too late; and what  *)
(* is being moved or cleaned up is not on screen.                           *)
ListIsRight ==
    /\ part = "list"  => List!ViewIsRight /\ List!ActedOnIsHidden
    /\ part = "news"  => News!ViewIsRight /\ News!ActedOnIsHidden
    /\ part = "pages" => Pages!ViewIsRight
    /\ part = "flags" => Flags!ViewIsRight /\ Flags!ActedOnIsHidden
    /\ part = "bell"  => Bell!ViewIsRight /\ Bell!ActedOnIsHidden

(* Upgrading a profile loses nothing, and marks the correspondents as known *)
(* only when they are.                                                      *)
UpgradeSafe ==
    /\ part = "alone" => Alone!NothingLost /\ Alone!MarkerMeansKnown
    /\ part = "both"  => Both!NothingLost

(* Language packs: what is installed and what the translator loads was      *)
(* verified, and no partial download is left behind, nor where windows      *)
(* overlap.                                                                 *)
PackSafe == (part = "pack" => Pack!PackSafe) /\ (part = "packs" => Packs!PackSafe)
=============================================================================
