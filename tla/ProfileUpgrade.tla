--------------------------- MODULE ProfileUpgrade ---------------------------
(***************************************************************************)
(* Opening a profile that an older version left (Store::open, migrate): a  *)
(* sequence of committed steps, which a crash, an error or another process *)
(* that opens the same profile may interrupt.  A busy database or a column *)
(* that another process has just added starts the sequence again.          *)
(*                                                                         *)
(* The first desktop's tables are renamed aside (legacy_accounts, ...) and *)
(* their rows carried over later, by the call that renamed them.  Tables   *)
(* that the properties do not tell apart, the mailboxes' states among them, *)
(* are left out; every message stands for one of the Sent mailbox.         *)
(***************************************************************************)
EXTENDS Naturals, FiniteSets

CONSTANTS Processes,
          Accounts, Messages,   \* of the old profile
          Owner,                \* the account of each message
          Profiles,             \* the old profiles there may be
          MaxOpens, MaxFaults

UpgradeAssumption ==
    /\ IsFiniteSet(Processes)
    /\ Accounts \cap Messages = {}
    /\ Owner \in [Messages -> Accounts]
    /\ Profiles \subseteq {"electron", "unthreaded"}
    /\ MaxOpens \in Nat /\ MaxFaults \in Nat

VARIABLES
    table,     \* the tables: their schema and rows
    removed,   \* deleted_account_tombstones
    known,     \* the messages whose correspondents are known
    marker,    \* sent_correspondents_version
    grouped,   \* whether the messages were put into conversations
    proc,      \* the processes
    opens, faults

vars == <<table, removed, known, marker, grouped, proc, opens, faults>>

Names == {"accounts", "messages", "legacy_accounts", "legacy_messages"}
Aside == [accounts |-> "legacy_accounts", messages |-> "legacy_messages"]

Absent == [schema |-> "none", rows |-> {}]
Table(schema, rows) == [schema |-> schema, rows |-> rows]
There(n) == table[n].schema # "none"

Off == [at |-> "off", legacy |-> FALSE, regroup |-> FALSE, todo |-> {}]

Init ==
    /\ \E profile \in Profiles :
          /\ table = [n \in Names |->
                CASE n = "accounts" ->
                       Table(IF profile = "electron" THEN "electron" ELSE "current", Accounts)
                  [] n = "messages" -> Table(profile, Messages)
                  [] OTHER -> Absent]
          /\ grouped = (profile = "electron")
    /\ removed = {} /\ known = {} /\ marker = FALSE
    /\ proc = [p \in Processes |-> Off]
    /\ opens = 0 /\ faults = 0

-----------------------------------------------------------------------------
Becomes(p, s) == proc' = [proc EXCEPT ![p] = s]
Goes(p, at) == Becomes(p, [proc[p] EXCEPT !.at = at])
Fails(p) == Becomes(p, Off)
Data == <<table, removed, known, marker, grouped>>

Open(p) ==
    /\ proc[p].at \in {"off", "open"} /\ opens < MaxOpens
    /\ Becomes(p, [Off EXCEPT !.at = "look"])
    /\ opens' = opens + 1
    /\ UNCHANGED <<Data, faults>>

(* prepare_legacy_desktop_profile: what is there is read first ...          *)
IsLegacy == table["accounts"].schema = "electron" /\ table["messages"].schema = "electron"

Look(p) ==
    /\ proc[p].at = "look"
    /\ Goes(p, IF IsLegacy THEN "rename" ELSE "create")
    /\ UNCHANGED <<Data, opens, faults>>

(* Mutant: a rename replaces what is aside already. *)
OverOld == FALSE

(* ... and whatever has these names is then renamed, in one transaction.    *)
Clash == \E n \in DOMAIN Aside : There(n) /\ There(Aside[n])

Renamed ==
    [n \in Names |->
        IF n \in DOMAIN Aside THEN Absent
        ELSE LET of == CHOOSE m \in DOMAIN Aside : Aside[m] = n
             IN  IF There(of) THEN table[of] ELSE table[n]]

Rename(p) ==
    /\ proc[p].at = "rename"
    /\ IF Clash THEN Fails(p) /\ UNCHANGED table
       ELSE /\ table' = Renamed
            /\ Becomes(p, [proc[p] EXCEPT !.at = "create", !.legacy = TRUE])
    /\ UNCHANGED <<removed, known, marker, grouped, opens, faults>>

(* The tables of this version.                                              *)
Create(p) ==
    /\ proc[p].at = "create"
    /\ table' = [n \in Names |-> IF n \in DOMAIN Aside /\ ~There(n)
                                 THEN Table("current", {}) ELSE table[n]]
    /\ Goes(p, "clean")
    /\ UNCHANGED <<removed, known, marker, grouped, opens, faults>>

(* cleanup_orphaned_account_state: messages without an account go, and the  *)
(* account with them.                                                       *)
Orphans == {m \in table["messages"].rows : Owner[m] \notin table["accounts"].rows}

Clean(p) ==
    /\ proc[p].at = "clean"
    /\ removed' = removed \cup {Owner[m] : m \in Orphans}
    /\ table' = [table EXCEPT !["messages"].rows = @ \ Orphans]
    /\ Goes(p, "columns")
    /\ UNCHANGED <<known, marker, grouped, opens, faults>>

(* The columns it lacks; whether conversations are new to it is remembered  *)
(* by the process.                                                          *)
Columns(p) ==
    /\ proc[p].at = "columns"
    /\ table' = [table EXCEPT !["messages"].schema = "current"]
    /\ Becomes(p, [proc[p] EXCEPT
                     !.at = IF proc[p].legacy THEN "restore" ELSE "sent",
                     !.regroup = table["messages"].schema = "unthreaded"])
    /\ UNCHANGED <<removed, known, marker, grouped, opens, faults>>

-----------------------------------------------------------------------------
(* restore_legacy_desktop_profile *)

Electron(n) == table[n].schema = "electron"

Restore(p) ==
    /\ proc[p].at = "restore"
    /\ IF Electron("legacy_accounts")
       THEN Becomes(p, [proc[p] EXCEPT !.at = "accounts",
                                       !.todo = table["legacy_accounts"].rows])
       ELSE Fails(p)
    /\ UNCHANGED <<Data, opens, faults>>

(* One account at a time, unless it was removed.                            *)
RestoreAccount(p) ==
    /\ proc[p].at = "accounts"
    /\ \E a \in proc[p].todo :
          IF a \in removed THEN Fails(p) /\ UNCHANGED table
          ELSE /\ table' = [table EXCEPT !["accounts"].rows = @ \cup {a}]
               /\ Becomes(p, [proc[p] EXCEPT !.todo = @ \ {a}])
    /\ UNCHANGED <<removed, known, marker, grouped, opens, faults>>

(* The messages in one transaction, which fails if one is there already.    *)
Insertable ==
    /\ Electron("legacy_messages") /\ Electron("legacy_accounts")
    /\ table["legacy_messages"].rows \cap table["messages"].rows = {}
    /\ \A m \in table["legacy_messages"].rows : Owner[m] \notin removed

RestoreMessages(p) ==
    /\ proc[p].at = "accounts" /\ proc[p].todo = {}
    /\ IF Insertable
       THEN /\ table' = [table EXCEPT !["messages"].rows = @ \cup table["legacy_messages"].rows]
            /\ Goes(p, "drop_messages")
       ELSE Fails(p) /\ UNCHANGED table
    /\ UNCHANGED <<removed, known, marker, grouped, opens, faults>>

Drop(p, at, n, then) ==
    /\ proc[p].at = at
    /\ table' = [table EXCEPT ![n] = Absent]
    /\ Goes(p, then)
    /\ UNCHANGED <<removed, known, marker, grouped, opens, faults>>

-----------------------------------------------------------------------------
(* migrate_sent_correspondents: the messages that are there, once.          *)
Sent(p) ==
    /\ proc[p].at = "sent"
    /\ known' = IF marker THEN known ELSE known \cup table["messages"].rows
    /\ marker' = TRUE
    /\ Goes(p, "regroup")
    /\ UNCHANGED <<table, removed, grouped, opens, faults>>

(* The conversations, if the columns were new to this process; then the     *)
(* profile is open.                                                         *)
Regroup(p) ==
    /\ proc[p].at = "regroup"
    /\ grouped' = (grouped \/ proc[p].regroup)
    /\ Goes(p, "open")
    /\ UNCHANGED <<table, removed, known, marker, opens, faults>>

(* A crash or an error ends the opening; a busy database, or a column that  *)
(* another process has added meanwhile, starts it again.                    *)
Opening(p) == proc[p].at \notin {"off", "open"}

Interrupted(p) ==
    /\ Opening(p) /\ faults < MaxFaults
    /\ faults' = faults + 1
    /\ \/ Fails(p)
       \/ Becomes(p, [Off EXCEPT !.at = "look"])
    /\ UNCHANGED <<Data, opens>>

(* A statement about tables that another process has renamed fails.         *)
Usable(p) ==
    \/ There("accounts") /\ There("messages")
    \/ proc[p].at = "sent" /\ marker
    \/ proc[p].at = "regroup" /\ ~proc[p].regroup

Missing(p) ==
    /\ proc[p].at \in {"clean", "columns", "accounts", "sent", "regroup"}
    /\ ~Usable(p)
    /\ Fails(p)
    /\ UNCHANGED <<Data, opens, faults>>

Migrate(p) ==
    \/ Look(p) \/ Rename(p) \/ Create(p) \/ Restore(p) \/ Missing(p)
    \/ /\ Usable(p)
       /\ \/ Clean(p) \/ Columns(p) \/ RestoreAccount(p) \/ RestoreMessages(p)
          \/ Sent(p) \/ Regroup(p)
    \/ Drop(p, "drop_messages", "legacy_messages", "drop_accounts")
    \/ Drop(p, "drop_accounts", "legacy_accounts", "sent")

Next == \E p \in Processes : Open(p) \/ Migrate(p) \/ Interrupted(p)

Spec == Init /\ [][Next]_vars

-----------------------------------------------------------------------------
(* Whatever interrupts it, an upgrade loses no account and no message: each *)
(* is in the old tables, renamed or not, or in the new ones.                *)
Everywhere == UNION {table[n].rows : n \in Names}
NothingLost == Accounts \cup Messages \subseteq Everywhere

(* Once the correspondents are taken to be known, those of every message    *)
(* are; with one process, for another may set the marker first.             *)
MarkerMeansKnown ==
    marker /\ Cardinality(Processes) = 1 => table["messages"].rows \subseteq known

(* "This keeps an existing desktop install searchable" (storage.rs:1205):   *)
(* a profile that is open holds the accounts and messages of the old one.   *)
(* The code does not keep this: only the call that renamed the tables       *)
(* carries them over, and an interrupted one is not taken up again.         *)
OpenedMeansCarried ==
    \A p \in Processes : proc[p].at = "open" =>
        /\ Accounts \subseteq table["accounts"].rows
        /\ Messages \subseteq table["messages"].rows
=============================================================================
