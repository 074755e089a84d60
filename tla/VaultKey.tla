------------------------------- MODULE VaultKey -------------------------------
(***************************************************************************)
(* How the processes that open one profile (the desktop application, the   *)
(* command-line client) agree on the key that encrypts every credential.   *)
(* The first one generates it.  It is published by a hard link where the   *)
(* file system has them; elsewhere under a lock file, whose holder renews  *)
(* its time stamp, and which a contender moves aside once it looks stale.  *)
(*                                                                         *)
(* An action is one call of the file system.  An opening is a number; the  *)
(* key it generates and the token of its lock are that number.             *)
(***************************************************************************)
EXTENDS Naturals

CONSTANTS
    Processes,
    HardLinks,  \* what the file system may be: does it have hard links?
    Ages,       \* whose lock may get as old as stale_after: the one of a dead
                \* process, the one of a live process that stands still?
    MaxOpens    \* bound: keys generated, over all processes

VaultAssumption ==
    HardLinks \subseteq BOOLEAN /\ Ages \subseteq {"dead", "live"} /\ MaxOpens \in Nat

VARIABLES
    links, \* has this file system hard links?
    file,  \* the published key, 0 while there is none
    lock,  \* the lock file: the token in it (0: no lock), and is it stale?
    proc,  \* process -> where it is, its own key, the key it uses, its result
    opens, \* keys generated so far
    robbed \* history: was a lock moved aside between its holder's last check and
           \* its rename?

vars == <<links, file, lock, proc, opens, robbed>>

NoLock == [token |-> 0, old |-> FALSE]
Off    == [at |-> "off", key |-> 0, mem |-> 0, res |-> "none"]
Opening(k) == [at |-> "link", key |-> k, mem |-> 0, res |-> "none"]

Init == /\ links \in HardLinks /\ file = 0 /\ lock = NoLock /\ opens = 0
        /\ robbed = FALSE
        /\ proc = [p \in Processes |-> Off]

At(p, at) == proc[p].at = at
Go(p, at) == proc' = [proc EXCEPT ![p].at = at]
Use(p, k) == proc' = [proc EXCEPT ![p].at = "open", ![p].mem = k]
Owned(p)  == lock.token = proc[p].key

-----------------------------------------------------------------------------
(* load_or_create_vault_key *)

(* A key file is used as it is; without one, a temporary file is written.   *)
Open(p) ==
    /\ proc[p].at \in {"off", "failed"}
    /\ \/ file # 0 /\ Use(p, file) /\ UNCHANGED opens
       \/ /\ file = 0 /\ opens < MaxOpens
          /\ opens' = opens + 1
          /\ proc' = [proc EXCEPT ![p] = Opening(opens + 1)]
    /\ UNCHANGED <<links, file, lock, robbed>>

(* fs::hard_link fails when the key exists, or is not supported. *)
Link(p) ==
    /\ At(p, "link")
    /\ \/ links /\ file = 0 /\ file' = proc[p].key /\ Use(p, proc[p].key)
       \/ links /\ file # 0 /\ Go(p, "read") /\ UNCHANGED file
       \/ ~links /\ Go(p, "lock") /\ UNCHANGED file
    /\ UNCHANGED <<links, lock, opens, robbed>>

(* AlreadyExists: the key of whoever was first. *)
Read(p) == At(p, "read") /\ Use(p, file) /\ UNCHANGED <<links, file, lock, opens, robbed>>

-----------------------------------------------------------------------------
(* VaultPublishLock *)

(* create_new(true) *)
Lock(p) ==
    /\ At(p, "lock")
    /\ IF lock = NoLock THEN lock' = [token |-> proc[p].key, old |-> FALSE] /\ Go(p, "held")
       ELSE Go(p, "look") /\ UNCHANGED lock
    /\ UNCHANGED <<links, file, opens, robbed>>

(* The lock is taken: is the key there, is the lock stale, is it time?      *)
Look(p) ==
    /\ At(p, "look")
    /\ \/ file # 0 /\ Go(p, "read")
       \/ file = 0 /\ lock.old /\ Go(p, "steal")
       \/ file = 0 /\ ~lock.old /\ (Go(p, "lock") \/ Go(p, "failed"))
    /\ UNCHANGED <<links, file, lock, opens, robbed>>

(* move_stale_vault_publish_lock renames whatever lock there is by now: the *)
(* stale one, none, or that of a process that has taken its place.          *)
Steal(p) ==
    /\ At(p, "steal") /\ lock' = NoLock /\ Go(p, "lock")
    /\ robbed' = (robbed \/ \E q \in Processes : At(q, "rename") /\ Owned(q))
    /\ UNCHANGED <<links, file, opens>>

(* The heartbeat: refresh_vault_publish_lock, while the token is its own.   *)
Beat(p) ==
    /\ At(p, "held") /\ Owned(p) /\ lock.old
    /\ lock' = [lock EXCEPT !.old = FALSE]
    /\ UNCHANGED <<links, file, proc, opens, robbed>>

(* stop_heartbeat *)
Settle(p) == At(p, "held") /\ Go(p, "owned") /\ UNCHANGED <<links, file, lock, opens, robbed>>

Fails(p, res) == proc' = [proc EXCEPT ![p].at = "release", ![p].res = res]

(* is_owned, twice *)
CheckOwned(p) ==
    /\ proc[p].at \in {"owned", "again"}
    /\ IF Owned(p) THEN Go(p, IF At(p, "owned") THEN "exists" ELSE "rename")
       ELSE Fails(p, "denied")
    /\ UNCHANGED <<links, file, lock, opens, robbed>>

(* Mutant: the lock is taken for a proof that nobody published. *)
NeverPublished == FALSE

(* path.exists() *)
Published == file # 0

CheckFile(p) ==
    /\ At(p, "exists")
    /\ IF Published THEN Fails(p, "exists") ELSE Go(p, "again")
    /\ UNCHANGED <<links, file, lock, opens, robbed>>

(* fs::rename replaces what is there. *)
Rename(p) ==
    /\ At(p, "rename") /\ file' = proc[p].key /\ Fails(p, "ok")
    /\ UNCHANGED <<links, lock, opens, robbed>>

After(p) == CASE proc[p].res = "ok"     -> Use(p, proc[p].key)
              [] proc[p].res = "exists" -> Go(p, "read")
              [] OTHER                  -> Go(p, "failed")

(* release_if_owned: looks, then removes. *)
Release(p) ==
    /\ At(p, "release")
    /\ IF Owned(p) THEN Go(p, "unlink") ELSE After(p)
    /\ UNCHANGED <<links, file, lock, opens, robbed>>

Unlink(p) ==
    /\ At(p, "unlink") /\ lock' = NoLock /\ After(p)
    /\ UNCHANGED <<links, file, opens, robbed>>

-----------------------------------------------------------------------------
(* The world *)

(* A time stamp nobody renews gets old: the process is dead, or suspended,  *)
(* or slow once it has stopped its heartbeat.                               *)
Age ==
    /\ lock # NoLock /\ ~lock.old
    /\ (IF \E p \in Processes : ~At(p, "off") /\ Owned(p) THEN "live" ELSE "dead") \in Ages
    /\ lock' = [lock EXCEPT !.old = TRUE]
    /\ UNCHANGED <<links, file, proc, opens, robbed>>

(* A process ends, or is killed: its lock stays. *)
Crash(p) ==
    /\ ~At(p, "off") /\ proc' = [proc EXCEPT ![p] = Off]
    /\ UNCHANGED <<links, file, lock, opens, robbed>>

Next ==
    \/ \E p \in Processes :
          \/ Open(p) \/ Link(p) \/ Read(p) \/ Lock(p) \/ Look(p) \/ Steal(p) \/ Beat(p) \/ Settle(p)
          \/ CheckOwned(p) \/ CheckFile(p) \/ Rename(p) \/ Release(p) \/ Unlink(p) \/ Crash(p)
    \/ Age

Spec == Init /\ [][Next]_vars

-----------------------------------------------------------------------------
(* Properties *)

(* Every process that has the profile open uses the published key: what one *)
(* encrypts, every other one and every later start can decrypt              *)
(* (load_or_create_vault_key).  But for one window: a contender that found  *)
(* a stale lock moves aside the fresh one of the process that has replaced  *)
(* it, between this one's last check and its rename.                        *)
KeysAgree == ~robbed => \A p \in Processes : At(p, "open") => proc[p].mem = file

(* Without the exception: what the comments in publish_vault_key claim.     *)
NeverReplaced == \A p \in Processes : At(p, "open") => proc[p].mem = file
=============================================================================
