------------------------------- MODULE Accounts -------------------------------
(***************************************************************************)
(* The account of one address and its credential: the row in accounts and  *)
(* the encrypted secret are two tables, written one after the other when   *)
(* an account is added, updated or removed, and in one transaction when a   *)
(* legacy OAuth account turns to an app password.  Any use of an OAuth     *)
(* account may refresh its tokens meanwhile.  MailRebuild has the rebuild   *)
(* and the watcher that surround these writes, VaultKey the key.           *)
(***************************************************************************)
EXTENDS Naturals

CONSTANTS
    Ids,        \* account identifiers, fresh UUIDs
    First,      \* the account that exists at first
    Commands,   \* tasks that add, update and remove
    Readers,    \* tasks that use the account: watchers, readers, other actions
    MaxTokens,  \* bound: refresh tokens the provider issues
    MaxFaults   \* bound: storage calls that fail, and crashes

NoTask == 0
AccountsAssumption ==
    /\ First \in Ids /\ Commands \cap Readers = {} /\ NoTask \notin Commands
    /\ MaxTokens \in Nat /\ MaxFaults \in Nat

VARIABLES
    row,     \* accounts: id -> "none", "password" or "oauth"
    removed, \* deleted_account_tombstones
    vault,   \* credentials: id -> the secret under the account's name
    lock,    \* account operation locks: id -> its holder
    task,    \* what each task is doing
    grant,   \* the refresh token the provider accepts, 0 once revoked
    paused,  \* accounts whose watcher gave up on their credentials
    faults,  \* failures and crashes so far
    torn     \* history: ids a crash or a failed storage call left behind

vars == <<row, removed, vault, lock, task, grant, paused, faults, torn>>

NoSecret    == [kind |-> "none", v |-> 0]
Password(v) == [kind |-> "password", v |-> v]
Token(v)    == [kind |-> "oauth", v |-> v]
Idle        == [at |-> "idle", id |-> First, new |-> NoSecret, old |-> NoSecret]
Tasks       == Commands \cup Readers

Init ==
    \E auth \in {"password", "oauth"} :
       /\ row = [i \in Ids |-> IF i = First THEN auth ELSE "none"]
       /\ vault = [i \in Ids |-> IF i = First THEN [kind |-> auth, v |-> 1] ELSE NoSecret]
       /\ removed = {} /\ lock = [i \in Ids |-> NoTask]
       /\ task = [t \in Tasks |-> Idle]
       /\ grant = 1 /\ paused = {} /\ faults = 0 /\ torn = {}

At(t, at)   == task[t].at = at
Go(t, at)   == task' = [task EXCEPT ![t].at = at]
Of(t)       == task[t].id
Free(t)     == lock' = [i \in Ids |-> IF lock[i] = t THEN NoTask ELSE lock[i]]
End(t)      == task' = [task EXCEPT ![t] = Idle] /\ Free(t)
Put(i, s)   == vault' = [vault EXCEPT ![i] = s]
Fault       == faults < MaxFaults /\ faults' = faults + 1
Connected   == \E i \in Ids : row[i] # "none"

-----------------------------------------------------------------------------
(* add_account *)

(* ensure_account_is_not_connected looks before the account has an id. *)
StartAdd(t, i) ==
    /\ At(t, "idle") /\ ~Connected
    /\ i \notin removed /\ vault[i] = NoSecret /\ \A x \in Tasks : At(x, "idle") \/ Of(x) # i
    /\ task' = [task EXCEPT ![t] = [at |-> "secret", id |-> i, new |-> Password(2),
                                    old |-> NoSecret]]
    /\ lock' = [lock EXCEPT ![i] = t]
    /\ UNCHANGED <<row, removed, vault, grant, paused, faults, torn>>

(* The credential is written first, also by an update. *)
WriteSecret(t) ==
    /\ At(t, "secret")
    /\ \/ Put(Of(t), task[t].new) /\ Go(t, "row") /\ UNCHANGED <<lock, faults>>
       \/ Fault /\ End(t) /\ UNCHANGED vault
    /\ UNCHANGED <<row, removed, grant, paused, torn>>

(* save_account_in_transaction: the address is UNIQUE, a removed id is      *)
(* refused.                                                                 *)
MaySave(i) == i \notin removed /\ \A x \in Ids \ {i} : row[x] = "none"

WriteRow(t) ==
    /\ At(t, "row")
    /\ \/ MaySave(Of(t)) /\ row' = [row EXCEPT ![Of(t)] = "password"] /\ End(t)
          /\ UNCHANGED faults
       \/ ~MaySave(Of(t)) /\ Go(t, "undo") /\ UNCHANGED <<row, lock, faults>>
       \/ Fault /\ Go(t, "undo") /\ UNCHANGED <<row, lock>>
    /\ UNCHANGED <<removed, vault, grant, paused, torn>>

(* What the credential was before. *)
Before(t) == task[t].old

RollBack(t) ==
    /\ At(t, "undo")
    /\ \/ Put(Of(t), Before(t)) /\ UNCHANGED <<faults, torn>>
       \/ Fault /\ torn' = torn \cup {Of(t)} /\ UNCHANGED vault
    /\ End(t)
    /\ UNCHANGED <<row, removed, grant, paused>>

-----------------------------------------------------------------------------
(* update_account *)

Acquire(t, i, at) ==
    /\ At(t, "idle") /\ lock[i] = NoTask /\ row[i] # "none"
    /\ lock' = [lock EXCEPT ![i] = t]
    /\ task' = [task EXCEPT ![t] = [Idle EXCEPT !.at = at, !.id = i]]
    /\ UNCHANGED <<row, removed, vault, grant, paused, faults, torn>>

StartUpdate(t, i) == Acquire(t, i, "update")

(* A new password of a password account; one for an OAuth account is only    *)
(* taken once the watcher gave up (validate_legacy_oauth_conversion).       *)
ReadOld(t) ==
    /\ At(t, "update")
    /\ IF row[Of(t)] = "oauth"
       THEN IF Of(t) \in paused THEN Go(t, "convert") /\ UNCHANGED lock ELSE End(t)
       ELSE task' = [task EXCEPT ![t].at = "secret", ![t].new = Password(2),
                                 ![t].old = vault[Of(t)]] /\ UNCHANGED lock
    /\ UNCHANGED <<row, removed, vault, grant, paused, faults, torn>>

(* save_account_with_secret: both tables or none. *)
Convert(t) ==
    /\ At(t, "convert") /\ End(t)
    /\ \/ /\ row' = [row EXCEPT ![Of(t)] = "password"] /\ Put(Of(t), Password(2))
          /\ paused' = paused \ {Of(t)} /\ UNCHANGED faults
       \/ Fault /\ UNCHANGED <<row, vault, paused>>
    /\ UNCHANGED <<removed, grant, torn>>

-----------------------------------------------------------------------------
(* remove_account *)

StartRemove(t, i) == Acquire(t, i, "forget")

(* credentials().delete, after the watcher has stopped. *)
DeleteSecret(t) ==
    /\ At(t, "forget")
    /\ \/ Put(Of(t), NoSecret) /\ Go(t, "delete") /\ UNCHANGED <<lock, faults, torn>>
       \/ Fault /\ End(t) /\ UNCHANGED <<vault, torn>>
    /\ UNCHANGED <<row, removed, grant, paused>>

(* delete_account *)
DeleteRow(t) ==
    /\ At(t, "delete") /\ End(t)
    /\ \/ /\ row' = [row EXCEPT ![Of(t)] = "none"] /\ removed' = removed \cup {Of(t)}
          /\ UNCHANGED <<faults, torn>>
       \/ Fault /\ torn' = torn \cup {Of(t)} /\ UNCHANGED <<row, removed>>
    /\ UNCHANGED <<vault, grant, paused>>

-----------------------------------------------------------------------------
(* CredentialStore::secret of an OAuth account *)

(* A reader has its copy of the account and loads the tokens. *)
StartUse(t, i) ==
    /\ At(t, "idle") /\ row[i] = "oauth" /\ vault[i].kind = "oauth"
    /\ task' = [task EXCEPT ![t] = [Idle EXCEPT !.at = "expired", !.id = i, !.old = vault[i]]]
    /\ UNCHANGED <<row, removed, vault, lock, grant, paused, faults, torn>>

(* The provider accepts its last refresh token and may replace it; another  *)
(* one pauses the account, with invalid_grant.                              *)
Refresh(t) ==
    /\ At(t, "expired")
    /\ IF task[t].old.v = grant
       THEN /\ grant' \in {grant} \cup {grant + 1} /\ grant' <= MaxTokens
            /\ task' = [task EXCEPT ![t].at = "store", ![t].new = Token(grant')]
            /\ UNCHANGED <<paused, lock>>
       ELSE /\ paused' = paused \cup {Of(t)} /\ End(t) /\ UNCHANGED grant
    /\ UNCHANGED <<row, removed, vault, faults, torn>>

(* Mutant: the refreshed tokens are stored whatever the account is by now.  *)
Anyway(i) == TRUE

(* set_oauth_secret_if_current *)
StillOAuth(i) == row[i] = "oauth"

StoreTokens(t) ==
    /\ At(t, "store") /\ End(t)
    /\ \/ /\ IF StillOAuth(Of(t)) THEN Put(Of(t), task[t].new) ELSE UNCHANGED vault
          /\ UNCHANGED <<faults, torn>>
       \/ Fault /\ torn' = torn \cup {Of(t)} /\ UNCHANGED vault
    /\ UNCHANGED <<row, removed, grant, paused>>

-----------------------------------------------------------------------------
(* The world *)

(* The user signs out everywhere, or the provider ends OAuth access. *)
Revoke ==
    /\ grant # 0 /\ grant' = 0
    /\ UNCHANGED <<row, removed, vault, lock, task, paused, faults, torn>>

(* The process goes away; the paused state is in its memory. *)
Crash ==
    /\ Fault
    /\ torn' = torn \cup {Of(t) : t \in {x \in Tasks : ~At(x, "idle")}}
    /\ task' = [t \in Tasks |-> Idle] /\ lock' = [i \in Ids |-> NoTask] /\ paused' = {}
    /\ UNCHANGED <<row, removed, vault, grant>>

Next ==
    \/ \E t \in Commands, i \in Ids : StartAdd(t, i) \/ StartUpdate(t, i) \/ StartRemove(t, i)
    \/ \E t \in Commands :
          \/ WriteSecret(t) \/ WriteRow(t) \/ RollBack(t) \/ ReadOld(t) \/ Convert(t)
          \/ DeleteSecret(t) \/ DeleteRow(t)
    \/ \E t \in Readers, i \in Ids : StartUse(t, i)
    \/ \E t \in Readers : Refresh(t) \/ StoreTokens(t)
    \/ Revoke \/ Crash

Spec == Init /\ [][Next]_vars

-----------------------------------------------------------------------------
(* Properties *)

Working(i, at) == \E t \in Tasks : Of(t) = i /\ task[t].at \in at
Using(i)       == Working(i, {"secret", "row", "undo", "delete", "store"})

(* An account always has a credential of its own kind: whatever fails while *)
(* it is added or updated, and whatever refreshes it had in flight when it  *)
(* was converted (update_account, set_oauth_secret_if_current).             *)
CredentialFits ==
    \A i \in Ids : row[i] # "none" /\ i \notin torn /\ ~Working(i, {"delete"})
       => vault[i].kind = row[i]

(* Nothing that failed leaves a credential without an account, unless the   *)
(* clean-up failed too: of two windows that add one address, the second     *)
(* takes its credential back (add_account).                                 *)
NoOrphan ==
    \A i \in Ids : row[i] = "none" /\ i \notin torn \cup removed /\ ~Using(i)
       => vault[i] = NoSecret

(* Rows and secrets belong together: both of the above.                     *)
CredentialsMatch == CredentialFits /\ NoOrphan

(* "Locally stored mail and credentials for this account will be deleted"   *)
(* (remove_account).                                                        *)
RemovedLeavesNothing == \A i \in removed : vault[i] = NoSecret
=============================================================================
