---------------------------- MODULE ProfileProofs ----------------------------
(***************************************************************************)
(* What TLAPS proves of the profile: any number of processes that open it  *)
(* at once agree on its key (VaultKey), and bringing it up to date loses   *)
(* nothing (ProfileUpgrade); and its accounts keep a credential of their   *)
(* own kind (Accounts), for any number of accounts, commands and uses, and *)
(* whatever fails.                                                         *)
(***************************************************************************)
EXTENDS ProfileUpgrade, FiniteSetTheorems, TLAPS

CONSTANTS HardLinks, Ages, MaxKeys
VARIABLES links, file, lock, locker, keys, robbed

Key == INSTANCE VaultKey WITH MaxOpens <- MaxKeys, proc <- locker, opens <- keys

CONSTANTS Ids, First, Commands, Readers, MaxTokens, MaxBreaks
VARIABLES row, buried, vault, holder, task, grant, paused, breaks, torn

Acc == INSTANCE Accounts WITH
          MaxFaults <- MaxBreaks, removed <- buried, lock <- holder, faults <- breaks

-----------------------------------------------------------------------------
(* The upgrade: types *)

Places  == {"off", "open", "look", "rename", "create", "clean", "columns", "restore",
            "accounts", "drop_messages", "drop_accounts", "sent", "regroup"}
Schemas == {"none", "electron", "unthreaded", "current"}
Tables  == [schema : Schemas, rows : SUBSET (Accounts \cup Messages)]
Locals  == [at : Places, legacy : BOOLEAN, regroup : BOOLEAN, todo : SUBSET Accounts]

Typed == /\ table \in [Names -> Tables] /\ proc \in [Processes -> Locals]
         /\ removed = {} /\ known \in SUBSET Messages /\ marker \in BOOLEAN

(* The stages of an upgrade.  The old tables are where they were, and no    *)
(* process is past its rename.                                              *)
Old == /\ table["accounts"] = Table("electron", Accounts)
       /\ table["messages"] = Table("electron", Messages)
       /\ ~There("legacy_accounts") /\ ~There("legacy_messages")
       /\ \A p \in Processes : proc[p].at \in {"off", "look", "rename"}
       /\ ~marker

(* They are set aside whole; the new tables hold no message, and the        *)
(* accounts that a process has carried over.                                *)
Dropping(p) == proc[p].at \in {"drop_messages", "drop_accounts"}

SetAside ==
       /\ table["legacy_accounts"] = Table("electron", Accounts)
       /\ table["legacy_messages"] = Table("electron", Messages)
       /\ table["accounts"].schema \in {"none", "current"}
       /\ table["accounts"].rows \subseteq Accounts
       /\ ~There("accounts") => table["accounts"].rows = {}
       /\ table["messages"].schema \in {"none", "current"} /\ table["messages"].rows = {}
       /\ \A p \in Processes :
             /\ ~Dropping(p)
             /\ proc[p].at \notin {"off", "look", "rename", "create"} =>
                   There("accounts") /\ There("messages")
             /\ proc[p].at = "accounts" => Accounts \ proc[p].todo \subseteq table["accounts"].rows

(* The new tables hold everything (or always did); one process at most is   *)
(* dropping the old ones, the messages first.                               *)
Carried ==
       /\ table["accounts"] = Table("current", Accounts)
       /\ table["messages"].schema \in {"unthreaded", "current"}
       /\ table["messages"].rows = Messages
       /\ ~There("legacy_messages") \/ table["legacy_messages"] = Table("electron", Messages)
       /\ \/ ~There("legacy_accounts") /\ ~There("legacy_messages")
             /\ \A p \in Processes : ~Dropping(p)
          \/ table["legacy_accounts"] = Table("electron", Accounts)
       /\ \A p, q \in Processes : Dropping(p) /\ Dropping(q) => p = q
       /\ \A p \in Processes : proc[p].at = "drop_accounts" => ~There("legacy_messages")

(* A process that looked long ago has set the new tables aside: there they  *)
(* stay, for no step takes tables of this version for the old ones.         *)
Back ==
       /\ table["legacy_accounts"].schema = "current" /\ table["legacy_accounts"].rows = Accounts
       /\ table["legacy_messages"].schema \in {"unthreaded", "current"}
       /\ table["legacy_messages"].rows = Messages
       /\ table["accounts"].schema \in {"none", "current"}
       /\ table["messages"].schema \in {"none", "current"} /\ table["messages"].rows = {}
       /\ \A p \in Processes : ~Dropping(p)

Stage == Old \/ SetAside \/ Carried \/ Back

(* A process alone that has set the marker knows every correspondent, and   *)
(* carries nothing over any more.                                           *)
Alone(p) == Processes = {p} /\ marker =>
       /\ table["messages"].rows \subseteq known
       /\ proc[p].at \notin {"rename", "restore", "accounts"}
       /\ proc[p].at \in {"look", "create", "clean", "columns"} => ~proc[p].legacy

IInv == Typed /\ Stage /\ \A p \in Processes : Alone(p)

-----------------------------------------------------------------------------
(* Steps of one process *)

LEMMA OffTyped == Off \in Locals /\ Off.at = "off" /\ ~Off.legacy
  BY DEF Off, Locals, Places

(* The others stay where they are.                                          *)
Moves(p, s) == /\ proc' \in [Processes -> Locals] /\ proc'[p] = s
               /\ \A x \in Processes \ {p} : proc'[x] = proc[x]

LEMMA Becoming ==
    ASSUME Typed, NEW p \in Processes, NEW s \in Locals, Becomes(p, s)
    PROVE  Moves(p, s)
  BY DEF Typed, Becomes, Moves

LEMMA Going ==
    ASSUME Typed, NEW p \in Processes, NEW at \in Places, Goes(p, at)
    PROVE  \E s \in Locals : /\ Moves(p, s) /\ s.at = at
                             /\ s.legacy = proc[p].legacy /\ s.todo = proc[p].todo
  <1>. DEFINE s == [proc[p] EXCEPT !.at = at]
  <1>1. proc[p] \in Locals
        BY DEF Typed
  <1>2. s \in Locals /\ s.at = at /\ s.legacy = proc[p].legacy /\ s.todo = proc[p].todo
        BY <1>1 DEF Locals
  <1>3. Becomes(p, s)
        BY DEF Goes
  <1>. HIDE DEF s
  <1>. QED  BY <1>2, <1>3, Becoming

LEMMA Failing ==
    ASSUME Typed, NEW p \in Processes, Fails(p)
    PROVE  Moves(p, Off)
  BY OffTyped, Becoming DEF Fails

(* The tables of the new version are made, cleaned or get their columns;    *)
(* what they hold stays, and so does what is aside.                         *)
Upward ==
    /\ table' \in [Names -> Tables]
    /\ \A n \in {"legacy_accounts", "legacy_messages"} : table'[n] = table[n]
    /\ \/ table'["accounts"] = table["accounts"]
       \/ ~There("accounts") /\ table'["accounts"] = Table("current", {})
    /\ table'["messages"].rows = table["messages"].rows
    /\ table'["messages"].schema \in {table["messages"].schema, "current"}
    /\ Old => table' = table

Quiet(p, s) ==
    /\ Moves(p, s) /\ Upward
    /\ Old => s.at \in {"off", "look", "rename"} /\ ~marker'
    /\ s.at \in {"drop_messages", "drop_accounts"} => proc[p].at = s.at
    /\ SetAside => /\ s.at \notin {"off", "look", "rename", "create"} =>
                         There("accounts")' /\ There("messages")'
                   /\ s.at = "accounts" => Accounts \ s.todo \subseteq table["accounts"].rows

(* From its stage the profile goes nowhere by such a step.                  *)
LEMMA QuietKeeps ==
    ASSUME Stage, NEW p \in Processes, NEW s \in Locals, Quiet(p, s)
    PROVE  Stage'
  <1>1. /\ proc'[p] = s /\ Upward
        /\ \A x \in Processes \ {p} : proc'[x] = proc[x]
        /\ s.at \in {"drop_messages", "drop_accounts"} => proc[p].at = s.at
        BY DEF Quiet, Moves
  <1>2. \A x \in Processes : Dropping(x)' => Dropping(x) /\ proc'[x].at = proc[x].at
        BY <1>1 DEF Dropping
  <1>3. CASE Old
    <2>1. s.at \in {"off", "look", "rename"} /\ ~marker' /\ table' = table
          BY <1>1, <1>3 DEF Quiet, Upward
    <2>2. \A x \in Processes : proc'[x].at \in {"off", "look", "rename"}
          BY <1>1, <1>3, <2>1 DEF Old
    <2>3. Old'
          BY <1>1, <1>3, <2>1, <2>2 DEF Old, There
    <2>. QED  BY <2>3 DEF Stage
  <1>4. CASE SetAside
    <2>1. /\ s.at \notin {"off", "look", "rename", "create"} =>
                There("accounts")' /\ There("messages")'
          /\ s.at = "accounts" => Accounts \ s.todo \subseteq table["accounts"].rows
          BY <1>4 DEF Quiet
    <2>2. /\ There("accounts") => There("accounts")' /\ table'["accounts"] = table["accounts"]
          /\ There("messages") => There("messages")'
          /\ ~There("accounts") => table["accounts"].rows = {}
          /\ table["accounts"].rows \subseteq table'["accounts"].rows
          BY <1>1, <1>4 DEF Upward, There, SetAside, Table
    <2>3. ASSUME NEW x \in Processes
          PROVE  /\ ~Dropping(x)'
                 /\ proc'[x].at \notin {"off", "look", "rename", "create"} =>
                       There("accounts")' /\ There("messages")'
                 /\ proc'[x].at = "accounts" => Accounts \ proc'[x].todo \subseteq table'["accounts"].rows
      <3>1. CASE x = p
            BY <1>1, <1>2, <1>4, <2>1, <2>2, <3>1 DEF SetAside
      <3>2. CASE x # p
            BY <1>1, <1>2, <1>4, <2>2, <3>2 DEF SetAside
      <3>. QED  BY <3>1, <3>2
    <2>4. /\ table'["accounts"].schema \in {"none", "current"}
          /\ table'["accounts"].rows \subseteq Accounts
          /\ ~There("accounts")' => table'["accounts"].rows = {}
          /\ table'["messages"].schema \in {"none", "current"} /\ table'["messages"].rows = {}
          BY <1>1, <1>4 DEF Upward, There, SetAside, Table
    <2>5. /\ table'["legacy_accounts"] = Table("electron", Accounts)
          /\ table'["legacy_messages"] = Table("electron", Messages)
          BY <1>1, <1>4 DEF Upward, SetAside
    <2>6. SetAside'
          BY <2>3, <2>4, <2>5 DEF SetAside, Table
    <2>. QED  BY <2>6 DEF Stage
  <1>5. CASE Carried
    <2>1. \A x \in Processes : proc'[x].at = "drop_accounts" => proc[x].at = "drop_accounts"
          BY <1>2 DEF Dropping
    <2>2. /\ table'["accounts"] = table["accounts"]
          /\ table'["legacy_accounts"] = table["legacy_accounts"]
          /\ table'["legacy_messages"] = table["legacy_messages"]
          /\ table'["messages"].schema \in {"unthreaded", "current"}
          /\ table'["messages"].rows = Messages
          BY <1>1, <1>5 DEF Upward, Carried, There, Table
    <2>3. Carried'
          BY <1>2, <1>5, <2>1, <2>2 DEF Carried, There, Table
    <2>. QED  BY <2>3 DEF Stage
  <1>6. CASE Back
    <2>1. /\ table'["accounts"].schema \in {"none", "current"}
          /\ table'["legacy_accounts"] = table["legacy_accounts"]
          /\ table'["legacy_messages"] = table["legacy_messages"]
          /\ table'["messages"].schema \in {"none", "current"}
          /\ table'["messages"].rows = {}
          BY <1>1, <1>6 DEF Upward, Back, There, Table
    <2>2. Back'
          BY <1>2, <1>6, <2>1 DEF Back
    <2>. QED  BY <2>2 DEF Stage
  <1>. QED  BY <1>3, <1>4, <1>5, <1>6 DEF Stage

(* What one process is sure of is enough: alone means that it has moved.    *)
LEMMA AloneKeeps ==
    ASSUME NEW p \in Processes, Alone(p)'
    PROVE  \A x \in Processes : Alone(x)'
  BY DEF Alone

(* It stays sure of what it knows as long as no message comes.              *)
LEMMA SureKeeps ==
    ASSUME NEW p \in Processes, Alone(p), NEW s \in Locals, Moves(p, s),
           marker' = marker, known' = known,
           table'["messages"].rows \subseteq table["messages"].rows,
           Processes = {p} /\ marker =>
               /\ s.at \notin {"rename", "restore", "accounts"}
               /\ s.at \in {"look", "create", "clean", "columns"} => ~s.legacy
    PROVE  Alone(p)'
  BY DEF Alone, Moves

-----------------------------------------------------------------------------
(* Steps that leave what the tables hold alone *)

LEMMA QuietSteps ==
    ASSUME IInv, NEW p \in Processes, NEW s \in Locals, Quiet(p, s),
           UNCHANGED <<removed, known, marker>>,
           Processes = {p} /\ marker =>
               /\ s.at \notin {"rename", "restore", "accounts"}
               /\ s.at \in {"look", "create", "clean", "columns"} => ~s.legacy
    PROVE  IInv'
  <1>1. Stage'
        BY QuietKeeps DEF IInv
  <1>2. Typed'
        BY DEF IInv, Typed, Quiet, Moves, Upward
  <1>3. Alone(p)'
    <2>1. table'["messages"].rows \subseteq table["messages"].rows
          BY DEF Quiet, Upward
    <2>2. Moves(p, s) /\ Alone(p)
          BY DEF Quiet, IInv
    <2>. QED  BY <2>1, <2>2, SureKeeps
  <1>. QED  BY <1>1, <1>2, <1>3, AloneKeeps DEF IInv

LEMMA SameTables ==
    ASSUME Typed, table' = table
    PROVE  Upward
  BY DEF Typed, Upward

(* Failing, and starting again, is such a step.                             *)
LEMMA FailingKeeps ==
    ASSUME IInv, NEW p \in Processes, NEW s \in Locals, s.at \in {"off", "look"}, ~s.legacy,
           Becomes(p, s), UNCHANGED <<table, removed, known, marker>>
    PROVE  IInv'
  <1>1. Moves(p, s) /\ Upward
        BY Becoming, SameTables DEF IInv
  <1>2. Old => ~marker'
        BY DEF Old
  <1>3. Quiet(p, s)
        BY <1>1, <1>2 DEF Quiet
  <1>. QED  BY <1>3, QuietSteps

LEMMA LookTyped ==
    [Off EXCEPT !.at = "look"] \in Locals
    /\ [Off EXCEPT !.at = "look"].at = "look" /\ ~[Off EXCEPT !.at = "look"].legacy
  BY DEF Off, Locals, Places

LEMMA OpenKeeps ==
    ASSUME IInv, NEW p \in Processes, Open(p)
    PROVE  IInv'
  BY LookTyped, FailingKeeps DEF Open, Data

LEMMA InterruptedKeeps ==
    ASSUME IInv, NEW p \in Processes, Interrupted(p)
    PROVE  IInv'
  BY LookTyped, OffTyped, FailingKeeps DEF Interrupted, Fails, Data

LEMMA MissingKeeps ==
    ASSUME IInv, NEW p \in Processes, Missing(p)
    PROVE  IInv'
  BY OffTyped, FailingKeeps DEF Missing, Fails, Data

LEMMA LookKeeps ==
    ASSUME IInv, NEW p \in Processes, Look(p)
    PROVE  IInv'
  <1>1. IsLegacy <=> Old
    <2>1. Stage
          BY DEF IInv
    <2>2. Old => IsLegacy
          BY DEF Old, IsLegacy, Table
    <2>3. SetAside \/ Carried \/ Back => ~IsLegacy
          BY DEF SetAside, Carried, Back, IsLegacy, Table
    <2>. QED  BY <2>1, <2>2, <2>3 DEF Stage
  <1>2. PICK s \in Locals : /\ Moves(p, s) /\ s.at = IF IsLegacy THEN "rename" ELSE "create"
                            /\ s.legacy = proc[p].legacy
    <2>1. Goes(p, IF IsLegacy THEN "rename" ELSE "create")
          BY DEF Look
    <2>2. (IF IsLegacy THEN "rename" ELSE "create") \in Places
          BY DEF Places
    <2>. QED  BY <2>1, <2>2, Going DEF IInv
  <1>3. proc[p].at = "look" /\ UNCHANGED <<table, removed, known, marker>> /\ Upward
        BY SameTables DEF Look, IInv, Data
  <1>4. Old => ~marker
        BY DEF Old
  <1>5. Quiet(p, s)
        BY <1>1, <1>2, <1>3, <1>4 DEF Quiet
  <1>6. Processes = {p} /\ marker => ~proc[p].legacy
        BY <1>3 DEF IInv, Alone
  <1>. QED  BY <1>1, <1>2, <1>3, <1>4, <1>5, <1>6, QuietSteps

LEMMA RegroupKeeps ==
    ASSUME IInv, NEW p \in Processes, Regroup(p)
    PROVE  IInv'
  <1>1. PICK s \in Locals : Moves(p, s) /\ s.at = "open"
    <2>1. Goes(p, "open") /\ "open" \in Places
          BY DEF Regroup, Places
    <2>. QED  BY <2>1, Going DEF IInv
  <1>2. proc[p].at = "regroup" /\ UNCHANGED <<table, removed, known, marker>> /\ Upward
        BY SameTables DEF Regroup, IInv
  <1>3. ~Old /\ (SetAside => There("accounts") /\ There("messages"))
        BY <1>2 DEF Old, SetAside
  <1>4. There("accounts")' = There("accounts") /\ There("messages")' = There("messages")
        BY <1>2 DEF There
  <1>5. Quiet(p, s)
        BY <1>1, <1>2, <1>3, <1>4 DEF Quiet
  <1>. QED  BY <1>1, <1>2, <1>5, QuietSteps

(* The old tables are still aside when they are read.                       *)
LEMMA AsideHoldsAll ==
    ASSUME Stage
    PROVE  /\ Electron("legacy_accounts") => table["legacy_accounts"].rows = Accounts
           /\ Electron("legacy_messages") => table["legacy_messages"].rows = Messages
           /\ Electron("legacy_accounts") => SetAside \/ Carried
  <1>1. CASE Old
        BY <1>1 DEF Old, There, Electron
  <1>2. CASE SetAside
        BY <1>2 DEF SetAside, Table
  <1>3. CASE Carried
        BY <1>3 DEF Carried, Table, There, Electron
  <1>4. CASE Back
        BY <1>4 DEF Back, Electron
  <1>. QED  BY <1>1, <1>2, <1>3, <1>4 DEF Stage

LEMMA RestoreKeeps ==
    ASSUME IInv, NEW p \in Processes, Restore(p)
    PROVE  IInv'
  <1>1. proc[p].at = "restore" /\ UNCHANGED <<table, removed, known, marker>> /\ Upward
        BY SameTables DEF Restore, IInv, Data
  <1>2. CASE Fails(p)
        BY <1>1, <1>2, OffTyped, FailingKeeps DEF Fails
  <1>3. CASE ~Fails(p)
    <2>. DEFINE s == [proc[p] EXCEPT !.at = "accounts", !.todo = table["legacy_accounts"].rows]
    <2>1. Becomes(p, s) /\ table["legacy_accounts"].rows = Accounts
          BY <1>3, AsideHoldsAll DEF Restore, IInv
    <2>2. s \in Locals /\ s.at = "accounts" /\ s.todo = Accounts
      <3>1. proc[p] \in Locals
            BY DEF IInv, Typed
      <3>. QED  BY <2>1, <3>1 DEF Locals, Places
    <2>. HIDE DEF s
    <2>3. Moves(p, s)
          BY <2>1, <2>2, Becoming DEF IInv
    <2>4. ~Old /\ (SetAside => There("accounts") /\ There("messages"))
          BY <1>1 DEF Old, SetAside
    <2>5. There("accounts")' = There("accounts") /\ There("messages")' = There("messages")
          BY <1>1 DEF There
    <2>6. Quiet(p, s)
          BY <1>1, <2>2, <2>3, <2>4, <2>5 DEF Quiet
    <2>7. ~(Processes = {p} /\ marker)
          BY <1>1 DEF IInv, Alone
    <2>. QED  BY <1>1, <2>2, <2>6, <2>7, QuietSteps
  <1>. QED  BY <1>2, <1>3

(* One table changes.                                                       *)
LEMMA Changing ==
    ASSUME Typed, NEW n \in Names, NEW t \in Tables, table' = [table EXCEPT ![n] = t]
    PROVE  /\ table' \in [Names -> Tables] /\ table'[n] = t
           /\ \A m \in Names \ {n} : table'[m] = table[m]
  BY DEF Typed

LEMMA CreateKeeps ==
    ASSUME IInv, NEW p \in Processes, Create(p)
    PROVE  IInv'
  <1>1. PICK s \in Locals : Moves(p, s) /\ s.at = "clean" /\ s.legacy = proc[p].legacy
    <2>1. Goes(p, "clean") /\ "clean" \in Places
          BY DEF Create, Places
    <2>. QED  BY <2>1, Going DEF IInv
  <1>2. proc[p].at = "create" /\ UNCHANGED <<removed, known, marker>>
        BY DEF Create
  <1>3. ~Old
        BY <1>2 DEF Old
  <1>4. DOMAIN Aside = {"accounts", "messages"}
        BY DEF Aside
  <1>5. /\ table'["accounts"] = IF There("accounts") THEN table["accounts"] ELSE Table("current", {})
        /\ table'["messages"] = IF There("messages") THEN table["messages"] ELSE Table("current", {})
        /\ table'["legacy_accounts"] = table["legacy_accounts"]
        /\ table'["legacy_messages"] = table["legacy_messages"]
        BY <1>4 DEF Create, Names
  <1>6. table' \in [Names -> Tables]
    <2>1. Table("current", {}) \in Tables
          BY DEF Table, Tables, Schemas
    <2>2. table \in [Names -> Tables]
          BY DEF IInv, Typed
    <2>3. table' = [n \in Names |-> table'[n]]
          BY DEF Create
    <2>4. \A n \in Names : table'[n] \in Tables
          BY <1>5, <2>1, <2>2 DEF Names
    <2>. QED  BY <2>3, <2>4
  <1>7. ~There("messages") => table["messages"].rows = {}
        BY <1>3 DEF IInv, Stage, SetAside, Carried, Back, There
  <1>8. Upward
        BY <1>3, <1>5, <1>6, <1>7 DEF Upward, Table
  <1>9. There("accounts")' /\ There("messages")'
        BY <1>5 DEF There, Table
  <1>10. Quiet(p, s)
        BY <1>1, <1>3, <1>8, <1>9 DEF Quiet
  <1>11. Processes = {p} /\ marker => ~proc[p].legacy
        BY <1>2 DEF IInv, Alone
  <1>. QED  BY <1>1, <1>2, <1>10, <1>11, QuietSteps

(* Past "create", the tables are there unless they were renamed again.      *)
LEMMA PastCreate ==
    ASSUME Stage, NEW p \in Processes, proc[p].at \in {"clean", "columns", "accounts", "sent"}
    PROVE  ~Old /\ (SetAside => There("accounts") /\ There("messages"))
  BY DEF Old, SetAside

LEMMA CleanKeeps ==
    ASSUME UpgradeAssumption, IInv, NEW p \in Processes, Clean(p)
    PROVE  IInv'
  <1>1. PICK s \in Locals : Moves(p, s) /\ s.at = "columns" /\ s.legacy = proc[p].legacy
    <2>1. Goes(p, "columns") /\ "columns" \in Places
          BY DEF Clean, Places
    <2>. QED  BY <2>1, Going DEF IInv
  <1>2. proc[p].at = "clean" /\ UNCHANGED <<known, marker>>
        BY DEF Clean
  <1>3. ~Old /\ (SetAside => There("accounts") /\ There("messages"))
        BY <1>2, PastCreate DEF IInv
  <1>4. Orphans = {}
        BY <1>3 DEF IInv, Stage, SetAside, Carried, Back, Orphans, UpgradeAssumption, Table
  <1>5. removed' = {}
        BY <1>4 DEF Clean, IInv, Typed
  <1>. DEFINE t == [table["messages"] EXCEPT !.rows = @ \ Orphans]
  <1>6. table' = [table EXCEPT !["messages"] = t]
        BY DEF Clean
  <1>7. t \in Tables /\ t.schema = table["messages"].schema /\ t.rows = table["messages"].rows
    <2>1. table["messages"] \in Tables
          BY DEF IInv, Typed, Names
    <2>. QED  BY <1>4, <2>1 DEF Tables
  <1>. HIDE DEF t
  <1>8. /\ table' \in [Names -> Tables] /\ table'["messages"] = t
        /\ \A m \in Names \ {"messages"} : table'[m] = table[m]
        BY <1>6, <1>7, Changing DEF IInv, Names
  <1>9. Upward
        BY <1>3, <1>7, <1>8 DEF Upward, Names
  <1>10. SetAside => There("accounts")' /\ There("messages")'
        BY <1>3, <1>7, <1>8 DEF There, Names
  <1>11. Quiet(p, s)
        BY <1>1, <1>3, <1>9, <1>10 DEF Quiet
  <1>12. Processes = {p} /\ marker => ~proc[p].legacy
        BY <1>2 DEF IInv, Alone
  <1>13. removed' = removed
        BY <1>5 DEF IInv, Typed
  <1>. QED  BY <1>1, <1>2, <1>11, <1>12, <1>13, QuietSteps

LEMMA ColumnsKeeps ==
    ASSUME IInv, NEW p \in Processes, Columns(p)
    PROVE  IInv'
  <1>1. proc[p].at = "columns" /\ UNCHANGED <<removed, known, marker>>
        BY DEF Columns
  <1>2. PICK s \in Locals : Moves(p, s) /\ s.at = IF proc[p].legacy THEN "restore" ELSE "sent"
    <2>. DEFINE s == [proc[p] EXCEPT !.at = IF proc[p].legacy THEN "restore" ELSE "sent",
                                     !.regroup = table["messages"].schema = "unthreaded"]
    <2>1. s \in Locals /\ s.at = IF proc[p].legacy THEN "restore" ELSE "sent"
      <3>1. proc[p] \in Locals
            BY DEF IInv, Typed
      <3>. QED  BY <3>1 DEF Locals, Places
    <2>2. Becomes(p, s)
          BY DEF Columns
    <2>. HIDE DEF s
    <2>. QED  BY <2>1, <2>2, Becoming DEF IInv
  <1>3. ~Old /\ (SetAside => There("accounts") /\ There("messages"))
        BY <1>1, PastCreate DEF IInv
  <1>. DEFINE t == [table["messages"] EXCEPT !.schema = "current"]
  <1>4. table' = [table EXCEPT !["messages"] = t]
        BY DEF Columns
  <1>5. t \in Tables /\ t.schema = "current" /\ t.rows = table["messages"].rows
    <2>1. table["messages"] \in Tables
          BY DEF IInv, Typed, Names
    <2>. QED  BY <2>1 DEF Tables, Schemas
  <1>. HIDE DEF t
  <1>6. /\ table' \in [Names -> Tables] /\ table'["messages"] = t
        /\ \A m \in Names \ {"messages"} : table'[m] = table[m]
        BY <1>4, <1>5, Changing DEF IInv, Names
  <1>7. Upward
        BY <1>3, <1>5, <1>6 DEF Upward, Names
  <1>8. SetAside => There("accounts")' /\ There("messages")'
        BY <1>3, <1>5, <1>6 DEF There, Names
  <1>9. Quiet(p, s)
        BY <1>2, <1>3, <1>7, <1>8 DEF Quiet
  <1>10. Processes = {p} /\ marker => ~proc[p].legacy
        BY <1>1 DEF IInv, Alone
  <1>. QED  BY <1>1, <1>2, <1>9, <1>10, QuietSteps

-----------------------------------------------------------------------------
(* The rename                                                               *)

LEMMA RenamedTables ==
    /\ Renamed["accounts"] = Absent /\ Renamed["messages"] = Absent
    /\ Renamed["legacy_accounts"] =
          IF There("accounts") THEN table["accounts"] ELSE table["legacy_accounts"]
    /\ Renamed["legacy_messages"] =
          IF There("messages") THEN table["messages"] ELSE table["legacy_messages"]
    /\ Renamed = [n \in Names |-> Renamed[n]]
  <1>1. DOMAIN Aside = {"accounts", "messages"}
        BY DEF Aside
  <1>2. Aside["accounts"] = "legacy_accounts" /\ Aside["messages"] = "legacy_messages"
        BY DEF Aside
  <1>3. /\ (CHOOSE m \in DOMAIN Aside : Aside[m] = "legacy_accounts") = "accounts"
        /\ (CHOOSE m \in DOMAIN Aside : Aside[m] = "legacy_messages") = "messages"
        BY <1>1, <1>2
  <1>4. Renamed = [n \in Names |-> Renamed[n]]
        BY DEF Renamed
  <1>5. Renamed["accounts"] = Absent /\ Renamed["messages"] = Absent
        BY <1>1 DEF Renamed, Names
  <1>6. Renamed["legacy_accounts"] =
          IF There("accounts") THEN table["accounts"] ELSE table["legacy_accounts"]
        BY <1>1, <1>3 DEF Renamed, Names
  <1>7. Renamed["legacy_messages"] =
          IF There("messages") THEN table["messages"] ELSE table["legacy_messages"]
    <2>1. "legacy_messages" \in Names /\ "legacy_messages" \notin DOMAIN Aside
          BY <1>1 DEF Names
    <2>2. Renamed["legacy_messages"] =
            LET of == CHOOSE m \in DOMAIN Aside : Aside[m] = "legacy_messages"
            IN  IF There(of) THEN table[of] ELSE table["legacy_messages"]
          BY <2>1 DEF Renamed
    <2>. QED  BY <1>3, <2>2
  <1>. QED  BY <1>4, <1>5, <1>6, <1>7

LEMMA RenameKeeps ==
    ASSUME IInv, NEW p \in Processes, Rename(p)
    PROVE  IInv'
  <1>1. proc[p].at = "rename" /\ UNCHANGED <<removed, known, marker>>
        BY DEF Rename
  <1>2. CASE Clash
    <2>1. Fails(p) /\ table' = table
          BY <1>2 DEF Rename
    <2>. QED  BY <1>1, <2>1, OffTyped, FailingKeeps DEF Fails
  <1>3. CASE ~Clash
    <2>. DEFINE s == [proc[p] EXCEPT !.at = "create", !.legacy = TRUE]
    <2>1. Becomes(p, s) /\ table' = Renamed
          BY <1>3 DEF Rename
    <2>2. s \in Locals /\ s.at = "create"
      <3>1. proc[p] \in Locals
            BY DEF IInv, Typed
      <3>. QED  BY <3>1 DEF Locals, Places
    <2>. HIDE DEF s
    <2>3. Moves(p, s)
          BY <2>1, <2>2, Becoming DEF IInv
    <2>4. /\ table'["accounts"] = Absent /\ table'["messages"] = Absent
          /\ table'["legacy_accounts"] =
                IF There("accounts") THEN table["accounts"] ELSE table["legacy_accounts"]
          /\ table'["legacy_messages"] =
                IF There("messages") THEN table["messages"] ELSE table["legacy_messages"]
          BY <2>1, RenamedTables
    <2>5. table' \in [Names -> Tables]
      <3>1. Absent \in Tables
            BY DEF Absent, Tables, Schemas
      <3>2. table \in [Names -> Tables]
            BY DEF IInv, Typed
      <3>3. table' = [n \in Names |-> table'[n]]
            BY <2>1, RenamedTables
      <3>4. \A n \in Names : table'[n] \in Tables
            BY <2>4, <3>1, <3>2 DEF Names
      <3>. QED  BY <3>3, <3>4
    <2>6. Typed'
          BY <1>1, <2>3, <2>5 DEF IInv, Typed, Moves
    <2>7. /\ ~(There("accounts") /\ There("legacy_accounts"))
          /\ ~(There("messages") /\ There("legacy_messages"))
          BY <1>3 DEF Clash, Aside
    <2>8. \A x \in Processes : Dropping(x)' => Dropping(x)
          BY <2>2, <2>3 DEF Moves, Dropping
    <2>9. ~There("accounts")' /\ ~There("messages")'
          BY <2>4 DEF There, Absent
    <2>10. /\ table'["accounts"].schema = "none" /\ table'["accounts"].rows = {}
           /\ table'["messages"].schema = "none" /\ table'["messages"].rows = {}
          BY <2>4 DEF Absent
    <2>11. ASSUME Old PROVE Stage'
      <3>1. \A x \in Processes : /\ proc'[x].at \in {"off", "look", "rename", "create"}
                                 /\ ~Dropping(x)' /\ proc'[x].at # "accounts"
            BY <2>2, <2>3, <2>8, <2>11 DEF Moves, Old, Dropping
      <3>2. There("accounts") /\ There("messages")
            BY <2>11 DEF Old, There, Table
      <3>3. /\ table'["legacy_accounts"] = Table("electron", Accounts)
            /\ table'["legacy_messages"] = Table("electron", Messages)
            BY <2>4, <2>11, <3>2 DEF Old
      <3>4. SetAside'
            BY <2>9, <2>10, <3>1, <3>3 DEF SetAside
      <3>. QED  BY <3>4 DEF Stage
    <2>12. ASSUME SetAside PROVE Stage'
      <3>1. ~There("accounts") /\ ~There("messages")
            BY <2>7, <2>12 DEF SetAside, There, Table
      <3>2. \A x \in Processes : /\ proc'[x].at \in {"off", "look", "rename", "create"}
                                 /\ ~Dropping(x)' /\ proc'[x].at # "accounts"
            BY <2>2, <2>3, <2>8, <2>12, <3>1 DEF Moves, SetAside
      <3>3. /\ table'["legacy_accounts"] = Table("electron", Accounts)
            /\ table'["legacy_messages"] = Table("electron", Messages)
            BY <2>4, <2>12, <3>1 DEF SetAside
      <3>4. SetAside'
            BY <2>9, <2>10, <3>2, <3>3 DEF SetAside
      <3>. QED  BY <3>4 DEF Stage
    <2>13. ASSUME Carried \/ Back PROVE Stage'
      <3>1. \A x \in Processes : ~Dropping(x)'
        <4>1. CASE Carried
          <5>1. There("accounts") /\ ~There("legacy_accounts")
                BY <2>7, <4>1 DEF Carried, There, Table
          <5>2. table["legacy_accounts"] # Table("electron", Accounts)
                BY <5>1 DEF There, Table
          <5>. QED  BY <2>8, <4>1, <5>2 DEF Carried
        <4>2. CASE Back
              BY <2>8, <4>2 DEF Back
        <4>. QED  BY <2>13, <4>1, <4>2
      <3>2. /\ table'["legacy_accounts"].schema = "current"
            /\ table'["legacy_accounts"].rows = Accounts
            /\ table'["legacy_messages"].schema \in {"unthreaded", "current"}
            /\ table'["legacy_messages"].rows = Messages
        <4>1. CASE Carried
          <5>1. There("accounts") /\ There("messages")
                BY <4>1 DEF Carried, There, Table
          <5>. QED  BY <2>4, <4>1, <5>1 DEF Carried, Table
        <4>2. CASE Back
          <5>1. ~There("accounts") /\ ~There("messages")
                BY <2>7, <4>2 DEF Back, There
          <5>. QED  BY <2>4, <4>2, <5>1 DEF Back
        <4>. QED  BY <2>13, <4>1, <4>2
      <3>3. Back'
            BY <2>10, <3>1, <3>2 DEF Back
      <3>. QED  BY <3>3 DEF Stage
    <2>14. Stage'
          BY <2>11, <2>12, <2>13 DEF IInv, Stage
    <2>15. Alone(p)'
          BY <1>1 DEF IInv, Alone
    <2>. QED  BY <2>6, <2>14, <2>15, AloneKeeps DEF IInv
  <1>. QED  BY <1>2, <1>3

-----------------------------------------------------------------------------
(* What is carried over                                                     *)

LEMMA RestoreAccountKeeps ==
    ASSUME IInv, NEW p \in Processes, Usable(p), RestoreAccount(p)
    PROVE  IInv'
  <1>1. proc[p].at = "accounts" /\ UNCHANGED <<removed, known, marker>>
        BY DEF RestoreAccount
  <1>2. There("accounts") /\ There("messages")
        BY <1>1 DEF Usable
  <1>3. PICK a \in proc[p].todo :
            /\ table' = [table EXCEPT !["accounts"].rows = @ \cup {a}]
            /\ Becomes(p, [proc[p] EXCEPT !.todo = @ \ {a}])
        BY DEF RestoreAccount, IInv, Typed
  <1>4. proc[p] \in Locals
        BY DEF IInv, Typed
  <1>5. a \in Accounts
        BY <1>4 DEF Locals
  <1>. DEFINE s == [proc[p] EXCEPT !.todo = @ \ {a}]
  <1>. DEFINE t == [table["accounts"] EXCEPT !.rows = @ \cup {a}]
  <1>6. Becomes(p, s) /\ table' = [table EXCEPT !["accounts"] = t]
        BY <1>3
  <1>7. s \in Locals /\ s.at = "accounts" /\ s.todo = proc[p].todo \ {a}
        BY <1>1, <1>4 DEF Locals
  <1>8. t \in Tables /\ t.schema = table["accounts"].schema /\ t.rows = table["accounts"].rows \cup {a}
    <2>1. table["accounts"] \in Tables
          BY DEF IInv, Typed, Names
    <2>. QED  BY <1>5, <2>1 DEF Tables
  <1>. HIDE DEF s, t
  <1>9. /\ table' \in [Names -> Tables] /\ table'["accounts"] = t
        /\ \A m \in Names \ {"accounts"} : table'[m] = table[m]
        BY <1>6, <1>8, Changing DEF IInv, Names
  <1>10. Moves(p, s)
        BY <1>6, <1>7, Becoming DEF IInv
  <1>11. Typed'
        BY <1>1, <1>9, <1>10 DEF IInv, Typed, Moves
  <1>12. /\ table'["messages"] = table["messages"]
         /\ table'["legacy_accounts"] = table["legacy_accounts"]
         /\ table'["legacy_messages"] = table["legacy_messages"]
        BY <1>9 DEF Names
  <1>13. \A x \in Processes : proc'[x].at = proc[x].at
        BY <1>1, <1>7, <1>10 DEF Moves
  <1>14. \A x \in Processes : Dropping(x)' <=> Dropping(x)
        BY <1>13 DEF Dropping
  <1>15. ~Old /\ t.rows \subseteq Accounts \cup table["accounts"].rows
        BY <1>1, <1>5, <1>8 DEF Old
  <1>16. ASSUME SetAside PROVE Stage'
    <2>1. There("accounts")' /\ There("messages")'
          BY <1>2, <1>8, <1>9, <1>12 DEF There
    <2>2. ASSUME NEW x \in Processes, proc'[x].at = "accounts"
          PROVE  Accounts \ proc'[x].todo \subseteq table'["accounts"].rows
      <3>1. Accounts \ proc[x].todo \subseteq table["accounts"].rows
            BY <1>13, <1>16, <2>2 DEF SetAside
      <3>2. CASE x = p
            BY <1>7, <1>8, <1>9, <1>10, <3>1, <3>2 DEF Moves
      <3>3. CASE x # p
            BY <1>8, <1>9, <1>10, <3>1, <3>3 DEF Moves
      <3>. QED  BY <3>2, <3>3
    <2>3. \A x \in Processes : ~Dropping(x)'
          BY <1>14, <1>16 DEF SetAside
    <2>4. /\ table'["accounts"].schema \in {"none", "current"}
          /\ table'["accounts"].rows \subseteq Accounts
          BY <1>8, <1>9, <1>15, <1>16 DEF SetAside
    <2>5. /\ table'["legacy_accounts"] = Table("electron", Accounts)
          /\ table'["legacy_messages"] = Table("electron", Messages)
          /\ table'["messages"].schema \in {"none", "current"} /\ table'["messages"].rows = {}
          BY <1>12, <1>16 DEF SetAside
    <2>6. SetAside'
          BY <2>1, <2>2, <2>3, <2>4, <2>5 DEF SetAside
    <2>. QED  BY <2>6 DEF Stage
  <1>17. ASSUME Carried PROVE Stage'
    <2>1. table'["accounts"] = table["accounts"]
      <3>1. t.schema = "current" /\ t.rows = Accounts /\ table["accounts"] = Table("current", Accounts)
            BY <1>5, <1>8, <1>17 DEF Carried, Table
      <3>2. t = [schema |-> t.schema, rows |-> t.rows]
            BY <1>8 DEF Tables
      <3>. QED  BY <1>9, <3>1, <3>2 DEF Table
    <2>2. \A x, y \in Processes : Dropping(x)' /\ Dropping(y)' => x = y
          BY <1>14, <1>17 DEF Carried
    <2>3. \A x \in Processes : proc'[x].at = "drop_accounts" => ~There("legacy_messages")
          BY <1>13, <1>17 DEF Carried
    <2>4. \/ ~There("legacy_accounts") /\ ~There("legacy_messages")
             /\ \A x \in Processes : ~Dropping(x)'
          \/ table["legacy_accounts"] = Table("electron", Accounts)
          BY <1>14, <1>17 DEF Carried
    <2>5. There("legacy_accounts")' = There("legacy_accounts")
          /\ There("legacy_messages")' = There("legacy_messages")
          BY <1>12 DEF There
    <2>6. Carried'
          BY <1>12, <1>17, <2>1, <2>2, <2>3, <2>4, <2>5 DEF Carried
    <2>. QED  BY <2>6 DEF Stage
  <1>18. ASSUME Back PROVE Stage'
    <2>1. \A x \in Processes : ~Dropping(x)'
          BY <1>14, <1>18 DEF Back
    <2>2. table'["accounts"].schema \in {"none", "current"}
          BY <1>8, <1>9, <1>18 DEF Back
    <2>3. Back'
          BY <1>12, <1>18, <2>1, <2>2 DEF Back
    <2>. QED  BY <2>3 DEF Stage
  <1>19. Stage'
        BY <1>15, <1>16, <1>17, <1>18 DEF IInv, Stage
  <1>20. Alone(p)'
        BY <1>1 DEF IInv, Alone
  <1>. QED  BY <1>11, <1>19, <1>20, AloneKeeps DEF IInv

(* The messages come once: when they are there already, inserting them      *)
(* fails.                                                                   *)
LEMMA RestoreMessagesKeeps ==
    ASSUME UpgradeAssumption, Messages # {},
           IInv, NEW p \in Processes, Usable(p), RestoreMessages(p)
    PROVE  IInv'
  <1>1. proc[p].at = "accounts" /\ proc[p].todo = {} /\ UNCHANGED <<removed, known, marker>>
        BY DEF RestoreMessages
  <1>2. CASE ~Insertable
    <2>1. Fails(p) /\ table' = table
          BY <1>2 DEF RestoreMessages
    <2>. QED  BY <1>1, <2>1, OffTyped, FailingKeeps DEF Fails
  <1>3. CASE Insertable
    <2>1. /\ Electron("legacy_accounts") /\ Electron("legacy_messages")
          /\ table["legacy_messages"].rows = Messages
          BY <1>3, AsideHoldsAll DEF Insertable, IInv
    <2>2. SetAside
      <3>1. ~Carried
            BY <1>3, <2>1 DEF Insertable, Carried
      <3>. QED  BY <2>1, <3>1, AsideHoldsAll DEF IInv
    <2>3. /\ table["accounts"].rows = Accounts /\ table["accounts"].schema = "current"
          /\ There("accounts") /\ There("messages")
      <3>1. Accounts = table["accounts"].rows /\ There("accounts") /\ There("messages")
            BY <1>1, <2>2 DEF SetAside
      <3>2. table["accounts"].schema = "current"
            BY <2>2, <3>1 DEF SetAside, There
      <3>. QED  BY <3>1, <3>2
    <2>4. PICK s \in Locals : Moves(p, s) /\ s.at = "drop_messages"
      <3>1. Goes(p, "drop_messages") /\ "drop_messages" \in Places
            BY <1>3 DEF RestoreMessages, Places
      <3>. QED  BY <3>1, Going DEF IInv
    <2>. DEFINE t == [table["messages"] EXCEPT !.rows = @ \cup table["legacy_messages"].rows]
    <2>5. table' = [table EXCEPT !["messages"] = t]
          BY <1>3 DEF RestoreMessages
    <2>6. t \in Tables /\ t.schema = "current" /\ t.rows = Messages
      <3>1. table["messages"] \in Tables
            BY DEF IInv, Typed, Names
      <3>2. table["messages"].rows = {} /\ table["messages"].schema = "current"
            BY <2>2, <2>3 DEF SetAside, There
      <3>. QED  BY <2>1, <3>1, <3>2 DEF Tables
    <2>. HIDE DEF t
    <2>7. /\ table' \in [Names -> Tables] /\ table'["messages"] = t
          /\ \A m \in Names \ {"messages"} : table'[m] = table[m]
          BY <2>5, <2>6, Changing DEF IInv, Names
    <2>8. Typed'
          BY <1>1, <2>4, <2>7 DEF IInv, Typed, Moves
    <2>9. table'["accounts"] = Table("current", Accounts)
      <3>1. table["accounts"] = [schema |-> table["accounts"].schema, rows |-> table["accounts"].rows]
            BY DEF IInv, Typed, Names, Tables
      <3>. QED  BY <2>3, <2>7, <3>1 DEF Names, Table
    <2>10. /\ table'["legacy_accounts"] = Table("electron", Accounts)
           /\ table'["legacy_messages"] = Table("electron", Messages)
          BY <2>2, <2>7 DEF SetAside, Names
    <2>11. \A x \in Processes : /\ Dropping(x)' => x = p
                                /\ proc'[x].at # "drop_accounts"
          BY <2>2, <2>4 DEF SetAside, Moves, Dropping
    <2>12. Carried'
          BY <2>6, <2>7, <2>9, <2>10, <2>11 DEF Carried
    <2>13. Alone(p)'
          BY <1>1 DEF IInv, Alone
    <2>. QED  BY <2>8, <2>12, <2>13, AloneKeeps DEF IInv, Stage
  <1>. QED  BY <1>2, <1>3

(* The old tables go, the messages first.                                   *)
DropMessages(p) == Drop(p, "drop_messages", "legacy_messages", "drop_accounts")
DropAccounts(p) == Drop(p, "drop_accounts", "legacy_accounts", "sent")

LEMMA DropMessagesKeeps ==
    ASSUME IInv, NEW p \in Processes, DropMessages(p)
    PROVE  IInv'
  <1>1. proc[p].at = "drop_messages" /\ UNCHANGED <<removed, known, marker>>
        BY DEF DropMessages, Drop
  <1>2. Carried /\ table["legacy_accounts"] = Table("electron", Accounts)
        BY <1>1 DEF IInv, Stage, Old, SetAside, Carried, Back, Dropping
  <1>3. PICK s \in Locals : Moves(p, s) /\ s.at = "drop_accounts"
    <2>1. Goes(p, "drop_accounts") /\ "drop_accounts" \in Places
          BY DEF DropMessages, Drop, Places
    <2>. QED  BY <2>1, Going DEF IInv
  <1>4. Absent \in Tables /\ Absent.schema = "none"
        BY DEF Absent, Tables, Schemas
  <1>5. /\ table' \in [Names -> Tables] /\ table'["legacy_messages"] = Absent
        /\ \A m \in Names \ {"legacy_messages"} : table'[m] = table[m]
        BY <1>4, Changing DEF DropMessages, Drop, IInv, Names
  <1>6. Typed'
        BY <1>1, <1>3, <1>5 DEF IInv, Typed, Moves
  <1>7. \A x \in Processes : Dropping(x)' => x = p
        BY <1>1, <1>2, <1>3 DEF Carried, Moves, Dropping
  <1>8. /\ table'["accounts"] = table["accounts"] /\ table'["messages"] = table["messages"]
        /\ table'["legacy_accounts"] = table["legacy_accounts"]
        /\ ~There("legacy_messages")'
        BY <1>4, <1>5 DEF Names, There
  <1>9. Carried'
        BY <1>2, <1>7, <1>8 DEF Carried
  <1>10. Alone(p)'
    <2>1. Alone(p)
          BY DEF IInv
    <2>. QED  BY <1>1, <1>3, <1>8, <2>1, SureKeeps
  <1>. QED  BY <1>6, <1>9, <1>10, AloneKeeps DEF IInv, Stage

LEMMA DropAccountsKeeps ==
    ASSUME IInv, NEW p \in Processes, DropAccounts(p)
    PROVE  IInv'
  <1>1. proc[p].at = "drop_accounts" /\ UNCHANGED <<removed, known, marker>>
        BY DEF DropAccounts, Drop
  <1>2. Carried /\ ~There("legacy_messages")
        BY <1>1 DEF IInv, Stage, Old, SetAside, Carried, Back, Dropping
  <1>3. PICK s \in Locals : Moves(p, s) /\ s.at = "sent"
    <2>1. Goes(p, "sent") /\ "sent" \in Places
          BY DEF DropAccounts, Drop, Places
    <2>. QED  BY <2>1, Going DEF IInv
  <1>4. Absent \in Tables /\ Absent.schema = "none"
        BY DEF Absent, Tables, Schemas
  <1>5. /\ table' \in [Names -> Tables] /\ table'["legacy_accounts"] = Absent
        /\ \A m \in Names \ {"legacy_accounts"} : table'[m] = table[m]
        BY <1>4, Changing DEF DropAccounts, Drop, IInv, Names
  <1>6. Typed'
        BY <1>1, <1>3, <1>5 DEF IInv, Typed, Moves
  <1>7. \A x \in Processes : ~Dropping(x)' /\ proc'[x].at # "drop_accounts"
        BY <1>1, <1>2, <1>3 DEF Carried, Moves, Dropping
  <1>8. /\ table'["accounts"] = table["accounts"] /\ table'["messages"] = table["messages"]
        /\ ~There("legacy_accounts")' /\ ~There("legacy_messages")'
        BY <1>2, <1>4, <1>5 DEF Names, There
  <1>9. Carried'
        BY <1>2, <1>7, <1>8 DEF Carried
  <1>10. Alone(p)'
    <2>1. Alone(p)
          BY DEF IInv
    <2>. QED  BY <1>1, <1>3, <1>8, <2>1, SureKeeps
  <1>. QED  BY <1>6, <1>9, <1>10, AloneKeeps DEF IInv, Stage

LEMMA SentKeeps ==
    ASSUME UpgradeAssumption, IInv, NEW p \in Processes, Usable(p), Sent(p)
    PROVE  IInv'
  <1>1. proc[p].at = "sent" /\ UNCHANGED <<table, removed>> /\ marker' = TRUE /\ Upward
        BY SameTables DEF Sent, IInv
  <1>2. PICK s \in Locals : Moves(p, s) /\ s.at = "regroup"
    <2>1. Goes(p, "regroup") /\ "regroup" \in Places
          BY DEF Sent, Places
    <2>. QED  BY <2>1, Going DEF IInv
  <1>3. ~Old /\ (SetAside => There("accounts") /\ There("messages"))
        BY <1>1, PastCreate DEF IInv
  <1>4. There("accounts")' = There("accounts") /\ There("messages")' = There("messages")
        BY <1>1 DEF There
  <1>5. Quiet(p, s)
        BY <1>1, <1>2, <1>3, <1>4 DEF Quiet
  <1>6. table["messages"].rows \subseteq Messages
        BY <1>3 DEF IInv, Stage, SetAside, Carried, Back
  <1>7. Typed'
        BY <1>1, <1>2, <1>6 DEF IInv, Typed, Moves, Sent
  <1>8. Processes = {p} => table'["messages"].rows \subseteq known'
    <2>1. CASE marker
          BY <1>1, <2>1 DEF IInv, Alone, Sent
    <2>2. CASE ~marker
          BY <1>1, <2>2 DEF Sent
    <2>. QED  BY <2>1, <2>2
  <1>9. Alone(p)'
        BY <1>2, <1>8 DEF Alone, Moves
  <1>10. Stage'
        BY <1>5, QuietKeeps DEF IInv
  <1>. QED  BY <1>7, <1>9, <1>10, AloneKeeps DEF IInv

-----------------------------------------------------------------------------
(* The invariant holds, and is enough *)

LEMMA Inits ==
    ASSUME UpgradeAssumption, Init
    PROVE  IInv
  <1>1. PICK profile \in Profiles :
            /\ table = [n \in Names |->
                  CASE n = "accounts" ->
                         Table(IF profile = "electron" THEN "electron" ELSE "current", Accounts)
                    [] n = "messages" -> Table(profile, Messages)
                    [] OTHER -> Absent]
            /\ grouped = (profile = "electron")
        BY DEF Init
  <1>2. profile \in {"electron", "unthreaded"}
        BY DEF UpgradeAssumption
  <1>3. /\ table["accounts"] = Table(IF profile = "electron" THEN "electron" ELSE "current", Accounts)
        /\ table["messages"] = Table(profile, Messages)
        /\ table["legacy_accounts"] = Absent /\ table["legacy_messages"] = Absent
        BY <1>1 DEF Names
  <1>4. /\ removed = {} /\ known = {} /\ marker = FALSE
        /\ proc = [x \in Processes |-> Off]
        BY DEF Init
  <1>5. \A x \in Processes : proc[x].at = "off" /\ ~Dropping(x)
        BY <1>4, OffTyped DEF Dropping
  <1>6. Typed
    <2>1. table = [n \in Names |-> table[n]]
          BY <1>1
    <2>2. Absent \in Tables /\ Table(profile, Messages) \in Tables
          BY <1>2 DEF Absent, Table, Tables, Schemas
    <2>3. Table(IF profile = "electron" THEN "electron" ELSE "current", Accounts) \in Tables
          BY DEF Table, Tables, Schemas
    <2>4. \A n \in Names : table[n] \in Tables
          BY <1>3, <2>2, <2>3 DEF Names
    <2>. QED  BY <1>4, <2>1, <2>4, OffTyped DEF Typed
  <1>7. ~There("legacy_accounts") /\ ~There("legacy_messages")
        BY <1>3 DEF There, Absent
  <1>8. CASE profile = "electron"
    <2>1. Old
          BY <1>3, <1>4, <1>5, <1>7, <1>8 DEF Old
    <2>. QED  BY <1>4, <1>6, <2>1 DEF IInv, Stage, Alone
  <1>9. CASE profile = "unthreaded"
    <2>1. /\ table["accounts"] = Table("current", Accounts)
          /\ table["messages"].schema = "unthreaded" /\ table["messages"].rows = Messages
          BY <1>3, <1>9 DEF Table
    <2>2. Carried
          BY <1>5, <1>7, <2>1 DEF Carried
    <2>. QED  BY <1>4, <1>6, <2>2 DEF IInv, Stage, Alone
  <1>. QED  BY <1>2, <1>8, <1>9

LEMMA NextKeeps ==
    ASSUME UpgradeAssumption, Messages # {}, IInv, [Next]_vars
    PROVE  IInv'
  <1>1. CASE UNCHANGED vars
    <2>1. Old' = Old
          BY <1>1 DEF vars, Old, There
    <2>2. SetAside' = SetAside
          BY <1>1 DEF vars, SetAside, There, Dropping
    <2>3. Carried' = Carried
          BY <1>1 DEF vars, Carried, There, Dropping
    <2>4. Back' = Back
          BY <1>1 DEF vars, Back, Dropping
    <2>5. \A x \in Processes : Alone(x)' = Alone(x)
          BY <1>1 DEF vars, Alone
    <2>6. Typed'
          BY <1>1 DEF vars, Typed, IInv
    <2>. QED  BY <2>1, <2>2, <2>3, <2>4, <2>5, <2>6 DEF IInv, Stage
  <1>2. ASSUME NEW p \in Processes, Open(p) \/ Migrate(p) \/ Interrupted(p)
        PROVE  IInv'
    <2>1. CASE Open(p)
          BY <2>1, OpenKeeps
    <2>2. CASE Interrupted(p)
          BY <2>2, InterruptedKeeps
    <2>3. CASE Look(p)
          BY <2>3, LookKeeps
    <2>4. CASE Rename(p)
          BY <2>4, RenameKeeps
    <2>5. CASE Create(p)
          BY <2>5, CreateKeeps
    <2>6. CASE Restore(p)
          BY <2>6, RestoreKeeps
    <2>7. CASE Missing(p)
          BY <2>7, MissingKeeps
    <2>8. CASE Clean(p)
          BY <2>8, CleanKeeps
    <2>9. CASE Columns(p)
          BY <2>9, ColumnsKeeps
    <2>10. CASE Usable(p) /\ RestoreAccount(p)
          BY <2>10, RestoreAccountKeeps
    <2>11. CASE Usable(p) /\ RestoreMessages(p)
          BY <2>11, RestoreMessagesKeeps
    <2>12. CASE DropMessages(p)
          BY <2>12, DropMessagesKeeps
    <2>13. CASE DropAccounts(p)
          BY <2>13, DropAccountsKeeps
    <2>14. CASE Usable(p) /\ Sent(p)
          BY <2>14, SentKeeps
    <2>15. CASE Regroup(p)
          BY <2>15, RegroupKeeps
    <2>. QED  BY <1>2, <2>1, <2>2, <2>3, <2>4, <2>5, <2>6, <2>7, <2>8, <2>9, <2>10, <2>11,
                 <2>12, <2>13, <2>14, <2>15 DEF Migrate, DropMessages, DropAccounts
  <1>. QED  BY <1>1, <1>2 DEF Next

LEMMA Implies ==
    ASSUME UpgradeAssumption, IInv
    PROVE  NothingLost /\ MarkerMeansKnown
  <1>1. NothingLost
    <2>1. \/ Accounts \cup Messages \subseteq table["accounts"].rows \cup table["messages"].rows
          \/ Accounts \cup Messages \subseteq
                table["legacy_accounts"].rows \cup table["legacy_messages"].rows
          BY DEF IInv, Stage, Old, SetAside, Carried, Back, Table
    <2>2. \A n \in Names : table[n].rows \subseteq Everywhere
          BY DEF Everywhere
    <2>. QED  BY <2>1, <2>2 DEF NothingLost, Names
  <1>2. MarkerMeansKnown
    <2>1. SUFFICES ASSUME marker, Cardinality(Processes) = 1
                   PROVE  table["messages"].rows \subseteq known
          BY DEF MarkerMeansKnown
    <2>2. PICK p : Processes = {p}
          BY <2>1, FS_Singleton DEF UpgradeAssumption
    <2>. QED  BY <2>1, <2>2 DEF IInv, Alone
  <1>. QED  BY <1>1, <1>2

(* Whatever interrupts an upgrade, and however many processes try it, every *)
(* account and message of the old profile is in one table or another, and a *)
(* process alone takes the correspondents to be known only when they are    *)
(* (Store::migrate).  An old profile without any message is left out: there *)
(* a second process that carries the accounts over finds nothing to fail    *)
(* on, and may drop what a third has just set aside.                        *)
THEOREM UpgradeLosesNothing ==
    ASSUME UpgradeAssumption, Messages # {}
    PROVE  Spec => [](NothingLost /\ MarkerMeansKnown)
  <1>1. Init => IInv
        BY Inits
  <1>2. IInv /\ [Next]_vars => IInv'
        BY NextKeeps
  <1>3. IInv => NothingLost /\ MarkerMeansKnown
        BY Implies
  <1>. QED  BY <1>1, <1>2, <1>3, PTL DEF Spec

-----------------------------------------------------------------------------
(* The key *)

KeyPlaces == {"off", "link", "read", "lock", "look", "steal", "held", "owned", "exists", "again",
              "rename", "release", "unlink", "open", "failed"}
Results   == {"none", "denied", "ok", "exists"}
Openers   == [at : KeyPlaces, key : Nat, mem : Nat, res : Results]
Locks     == [token : Nat, old : BOOLEAN]

(* On the way that takes the lock.                                          *)
Publishing == {"lock", "look", "steal", "held", "owned", "exists", "again", "rename", "release",
               "unlink"}

Shape ==
    /\ links \in HardLinks /\ robbed \in BOOLEAN
    /\ file \in Nat /\ keys \in Nat
    /\ lock \in Locks
    /\ locker \in [Processes -> Openers]

(* Each opening has a key of its own, and so a token of its own.            *)
FreshKeys ==
    /\ lock.token <= keys
    /\ \A p \in Processes : locker[p].key <= keys
    /\ \A p \in Processes : locker[p].at \in Publishing \cup {"link"} => locker[p].key > 0
    /\ \A p, q \in Processes : p # q /\ locker[p].key > 0 => locker[p].key # locker[q].key

(* The lock is taken only without hard links.                               *)
LinksFree == links => \A p \in Processes : locker[p].at \notin Publishing

(* What a process that is at r has learned still holds: before its rename   *)
(* the lock is its own, and there is no key file while its lock is.         *)
Learned(r) ==
    /\ r.at = "rename" => lock.token = r.key
    /\ r.at \in {"again", "rename"} /\ lock.token = r.key => file = 0
    /\ r.at = "release" => r.res # "none"
    /\ r.at = "release" /\ r.res = "denied" => lock.token # r.key
    /\ r.at = "unlink" => r.res \in {"ok", "exists"}
    /\ r.at \in {"release", "unlink"} /\ r.res \in {"ok", "exists"} =>
          file # 0 /\ (r.res = "ok" => file = r.key)
    /\ r.at = "read" => file # 0
    /\ r.at = "open" => file # 0 /\ r.mem = file

AllLearned == ~robbed => \A p \in Processes : Learned(locker[p])

KeyInv == Shape /\ FreshKeys /\ LinksFree /\ AllLearned

-----------------------------------------------------------------------------
LEMMA InitHolds == ASSUME Key!VaultAssumption, Key!Init PROVE KeyInv
  <1>1. Key!Off \in Openers /\ Key!Off.at = "off" /\ Key!Off.key = 0
        BY DEF Key!Off, KeyPlaces, Results, Openers
  <1>2. Key!NoLock \in Locks /\ Key!NoLock.token = 0
        BY DEF Key!NoLock, Locks
  <1>3. locker = [p \in Processes |-> Key!Off] /\ \A p \in Processes : locker[p] = Key!Off
        BY DEF Key!Init
  <1>4. Shape
        BY <1>1, <1>2, <1>3 DEF Key!Init, Shape
  <1>5. FreshKeys
        BY <1>1, <1>2, <1>3 DEF Key!Init, FreshKeys, Publishing
  <1>6. LinksFree /\ AllLearned
        BY <1>1, <1>3 DEF LinksFree, AllLearned, Learned, Publishing
  <1>. QED  BY <1>4, <1>5, <1>6 DEF KeyInv

(* A step of one process that generates no key: each key is still one       *)
(* process's.                                                               *)
LEMMA SameKeys ==
    ASSUME KeyInv, NEW p \in Processes, NEW r \in Openers, r.key = locker[p].key,
           r.at \in Publishing \cup {"link"} =>
              locker[p].at \in Publishing \cup {"link"},
           r.at \in Publishing => ~links,
           locker' = [locker EXCEPT ![p] = r],
           file' \in Nat, robbed' \in BOOLEAN, lock' \in Locks,
           lock'.token \in {0, lock.token, r.key},
           UNCHANGED <<links, keys>>
    PROVE  /\ Shape' /\ FreshKeys' /\ LinksFree'
           /\ locker'[p] = r /\ \A q \in Processes : q # p => locker'[q] = locker[q]
  <1>1. locker'[p] = r /\ \A q \in Processes : q # p => locker'[q] = locker[q]
        BY DEF KeyInv, Shape
  <1>2. Shape'
        BY DEF KeyInv, Shape
  <1>3. FreshKeys'
    <2>1. \A q \in Processes : locker'[q].key = locker[q].key
          BY <1>1
    <2>2. lock'.token <= keys'
          BY DEF KeyInv, Shape, FreshKeys
    <2>3. \A q \in Processes : locker'[q].at \in Publishing \cup {"link"}
                                => locker[q].at \in Publishing \cup {"link"}
          BY <1>1
    <2>. QED  BY <2>1, <2>2, <2>3 DEF KeyInv, FreshKeys
  <1>4. LinksFree'
        BY <1>1 DEF KeyInv, LinksFree
  <1>. QED  BY <1>1, <1>2, <1>3, <1>4

(* A step of one process that leaves the token and the key file alone: it   *)
(* is enough to look at what this process then knows.                       *)
LEMMA LocalStep ==
    ASSUME KeyInv, NEW p \in Processes, NEW r \in Openers, r.key = locker[p].key,
           r.at \in Publishing \cup {"link"} =>
              locker[p].at \in Publishing \cup {"link"},
           r.at \in Publishing => ~links,
           locker' = [locker EXCEPT ![p] = r],
           UNCHANGED <<links, file, lock, keys, robbed>>,
           ~robbed => Learned(r)
    PROVE  KeyInv'
  <1>1. /\ Shape' /\ FreshKeys' /\ LinksFree'
        /\ locker'[p] = r /\ \A q \in Processes : q # p => locker'[q] = locker[q]
    <2>1. file' \in Nat /\ robbed' \in BOOLEAN /\ lock' \in Locks /\ lock'.token = lock.token
          BY DEF KeyInv, Shape
    <2>. QED  BY <2>1, SameKeys
  <1>2. AllLearned'
        BY <1>1 DEF KeyInv, AllLearned, Learned
  <1>. QED  BY <1>1, <1>2 DEF KeyInv

(* A process that only moves on, with what it must know there.              *)
LEMMA MoveStep ==
    ASSUME KeyInv, NEW p \in Processes, NEW at \in KeyPlaces, Key!Go(p, at),
           at \in Publishing \cup {"link"} =>
              locker[p].at \in Publishing \cup {"link"},
           at \in Publishing => ~links,
           UNCHANGED <<links, file, lock, keys, robbed>>,
           ~robbed => Learned([locker[p] EXCEPT !.at = at])
    PROVE  KeyInv'
  <1>. DEFINE r == [locker[p] EXCEPT !.at = at]
  <1>1. locker' = [locker EXCEPT ![p] = r] /\ r.key = locker[p].key /\ r.at = at
        BY DEF Key!Go, KeyInv, Shape, Openers
  <1>2. r \in Openers
        BY DEF KeyInv, Shape, Openers
  <1>. HIDE DEF r
  <1>3. ~robbed => Learned(r)
        BY DEF r
  <1>. QED  BY <1>1, <1>2, <1>3, LocalStep

(* A process that goes where nothing is to be known.                        *)
Unaware == {"lock", "look", "steal", "held", "owned", "exists", "failed"}

LEMMA BlindStep ==
    ASSUME KeyInv, NEW p \in Processes, NEW at \in Unaware, Key!Go(p, at),
           at \in Publishing =>
              ~links /\ locker[p].at \in Publishing \cup {"link"},
           UNCHANGED <<links, file, lock, keys, robbed>>
    PROVE  KeyInv'
  <1>. DEFINE r == [locker[p] EXCEPT !.at = at]
  <1>1. r.at = at
        BY DEF KeyInv, Shape, Openers
  <1>. HIDE DEF r
  <1>2. Learned(r)
        BY <1>1 DEF Learned, Unaware
  <1>3. at \in KeyPlaces /\ at # "link"
        BY DEF Unaware, KeyPlaces
  <1>. QED  BY <1>2, <1>3, MoveStep DEF r

(* A process that begins to use the published key.                          *)
LEMMA UseStep ==
    ASSUME KeyInv, NEW p \in Processes, Key!Use(p, file), ~robbed => file # 0,
           UNCHANGED <<links, file, lock, keys, robbed>>
    PROVE  KeyInv'
  <1>. DEFINE r == [locker[p] EXCEPT !.at = "open", !.mem = file]
  <1>1. /\ locker' = [locker EXCEPT ![p] = r]
        /\ r.key = locker[p].key /\ r.at = "open" /\ r.mem = file
        BY DEF Key!Use, KeyInv, Shape, Openers
  <1>2. r \in Openers
        BY DEF KeyInv, Shape, Openers, KeyPlaces
  <1>. HIDE DEF r
  <1>3. ~robbed => Learned(r)
        BY <1>1 DEF Learned
  <1>. QED  BY <1>1, <1>2, <1>3, LocalStep DEF Publishing

-----------------------------------------------------------------------------
(* One lemma per kind of step *)

LEMMA OpenStep == ASSUME KeyInv, NEW p \in Processes, Key!Open(p) PROVE KeyInv'
  <1>1. CASE file # 0 /\ Key!Use(p, file) /\ UNCHANGED keys
        BY <1>1, UseStep DEF Key!Open
  <1>2. CASE /\ keys' = keys + 1
             /\ locker' = [locker EXCEPT ![p] = Key!Opening(keys + 1)]
    <2>1. UNCHANGED <<links, file, lock, robbed>>
          BY DEF Key!Open
    <2>2. /\ locker'[p].at = "link" /\ locker'[p].key = keys + 1
          /\ \A q \in Processes : q # p => locker'[q] = locker[q]
          BY <1>2 DEF KeyInv, Shape, Key!Opening
    <2>3. Shape'
      <3>1. Key!Opening(keys + 1) \in Openers
            BY DEF KeyInv, Shape, Key!Opening, KeyPlaces, Openers, Results
      <3>. QED  BY <1>2, <2>1, <3>1 DEF KeyInv, Shape
    <2>4. FreshKeys'
      <3>1. /\ \A q \in Processes : locker[q].key <= keys /\ locker[q].key \in Nat
            /\ keys \in Nat /\ keys' = keys + 1
            BY <1>2 DEF KeyInv, Shape, FreshKeys, Openers
      <3>2. \A q \in Processes : locker'[q].key <= keys'
            BY <2>2, <3>1
      <3>3. \A q \in Processes : locker'[q].at \in Publishing \cup {"link"} => locker'[q].key > 0
            BY <2>2, <3>1 DEF KeyInv, FreshKeys
      <3>4. ASSUME NEW q1 \in Processes, NEW q2 \in Processes, q1 # q2, locker'[q1].key > 0
            PROVE  locker'[q1].key # locker'[q2].key
            BY <2>2, <3>1, <3>4 DEF KeyInv, FreshKeys
      <3>5. lock'.token <= keys'
            BY <2>1, <3>1 DEF KeyInv, Shape, FreshKeys, Locks
      <3>. QED  BY <3>2, <3>3, <3>4, <3>5 DEF FreshKeys
    <2>5. LinksFree'
          BY <2>1, <2>2 DEF KeyInv, LinksFree, Publishing
    <2>6. AllLearned'
          BY <2>1, <2>2 DEF KeyInv, AllLearned, Learned
    <2>. QED  BY <2>3, <2>4, <2>5, <2>6 DEF KeyInv
  <1>. QED  BY <1>1, <1>2 DEF Key!Open

LEMMA LinkStep == ASSUME KeyInv, NEW p \in Processes, Key!Link(p) PROVE KeyInv'
  <1>1. locker[p].key > 0 /\ locker[p].at = "link" /\ UNCHANGED <<links, lock, keys, robbed>>
        BY DEF Key!Link, Key!At, KeyInv, Shape, FreshKeys
  <1>2. CASE links /\ file = 0 /\ file' = locker[p].key /\ Key!Use(p, locker[p].key)
    <2>. DEFINE r == [locker[p] EXCEPT !.at = "open", !.mem = locker[p].key]
    <2>1. /\ locker' = [locker EXCEPT ![p] = r]
          /\ r.key = locker[p].key /\ r.at = "open" /\ r.mem = file'
          BY <1>2 DEF Key!Use, KeyInv, Shape, Openers
    <2>2. r \in Openers
          BY DEF KeyInv, Shape, Openers, KeyPlaces
    <2>. HIDE DEF r
    <2>3. file' \in Nat /\ file' # 0 /\ lock' \in Locks /\ robbed' \in BOOLEAN
          BY <1>1, <1>2 DEF KeyInv, Shape, Openers
    <2>4. /\ Shape' /\ FreshKeys' /\ LinksFree'
          /\ locker'[p] = r /\ \A q \in Processes : q # p => locker'[q] = locker[q]
          BY <1>1, <2>1, <2>2, <2>3, SameKeys DEF Publishing
    <2>5. ASSUME ~robbed', NEW q \in Processes PROVE Learned(locker[q])' 
      <3>1. CASE q = p
            BY <2>1, <2>3, <2>4, <3>1 DEF Learned
      <3>2. CASE q # p
        <4>1. locker'[q] = locker[q] /\ locker[q].at \notin Publishing /\ Learned(locker[q])
              BY <1>1, <1>2, <2>4, <2>5, <3>2 DEF KeyInv, LinksFree, AllLearned
        <4>. QED  BY <1>2, <4>1 DEF Learned, Publishing
      <3>. QED  BY <3>1, <3>2
    <2>. QED  BY <2>4, <2>5 DEF KeyInv, AllLearned
  <1>3. CASE links /\ file # 0 /\ Key!Go(p, "read") /\ UNCHANGED file
    <2>1. Learned([locker[p] EXCEPT !.at = "read"])
          BY <1>3 DEF Learned, KeyInv, Shape, Openers
    <2>. QED  BY <1>1, <1>3, <2>1, MoveStep DEF KeyPlaces, Publishing
  <1>4. CASE ~links /\ Key!Go(p, "lock") /\ UNCHANGED file
        BY <1>1, <1>4, BlindStep DEF Unaware
  <1>. QED  BY <1>2, <1>3, <1>4 DEF Key!Link

LEMMA ReadStep == ASSUME KeyInv, NEW p \in Processes, Key!Read(p) PROVE KeyInv'
  <1>1. ~robbed => file # 0
        BY DEF Key!Read, Key!At, KeyInv, AllLearned, Learned
  <1>. QED  BY <1>1, UseStep DEF Key!Read

(* One that is on the way that takes the lock has a key, and no hard links. *)
LEMMA OnTheWay ==
    ASSUME KeyInv, NEW p \in Processes, locker[p].at \in Publishing
    PROVE  locker[p].key > 0 /\ locker[p].key \in Nat /\ locker[p] \in Openers /\ ~links
    BY DEF KeyInv, Shape, FreshKeys, LinksFree, Openers

(* No two processes have a token.                                           *)
LEMMA OneOwner ==
    ASSUME KeyInv, NEW p \in Processes, NEW q \in Processes, p # q, locker[p].at \in Publishing
    PROVE  locker[q].key # locker[p].key
    BY OnTheWay DEF KeyInv, FreshKeys

LEMMA LockStep == ASSUME KeyInv, NEW p \in Processes, Key!Lock(p) PROVE KeyInv'
  <1>1. locker[p].at = "lock" /\ locker[p].at \in Publishing /\ UNCHANGED <<links, file, keys, robbed>>
        BY DEF Key!Lock, Key!At, Publishing
  <1>2. CASE lock # Key!NoLock
        BY <1>1, <1>2, OnTheWay, BlindStep DEF Key!Lock, Unaware
  <1>3. CASE lock = Key!NoLock
    <2>. DEFINE r == [locker[p] EXCEPT !.at = "held"]
    <2>1. /\ locker' = [locker EXCEPT ![p] = r] /\ r \in Openers
          /\ r.key = locker[p].key /\ r.at = "held"
          BY <1>1, <1>3, OnTheWay DEF Key!Lock, Key!Go, Openers, KeyPlaces
    <2>. HIDE DEF r
    <2>2. lock' = [token |-> locker[p].key, old |-> FALSE]
          BY <1>3 DEF Key!Lock
    <2>3. lock' \in Locks /\ lock'.token = r.key /\ lock.token = 0
          BY <1>1, <1>3, <2>1, <2>2, OnTheWay DEF Locks, Key!NoLock
    <2>4. file' \in Nat /\ robbed' \in BOOLEAN
          BY <1>1 DEF KeyInv, Shape
    <2>5. /\ Shape' /\ FreshKeys' /\ LinksFree'
          /\ locker'[p] = r /\ \A q \in Processes : q # p => locker'[q] = locker[q]
          BY <1>1, <2>1, <2>3, <2>4, OnTheWay, SameKeys
    <2>6. ASSUME ~robbed', NEW q \in Processes PROVE Learned(locker[q])'
      <3>1. CASE q = p
            BY <2>1, <2>5, <3>1 DEF Learned
      <3>2. CASE q # p
        <4>1. locker'[q] = locker[q] /\ Learned(locker[q]) /\ lock'.token # locker[q].key
              BY <1>1, <2>1, <2>3, <2>5, <2>6, <3>2, OneOwner DEF KeyInv, AllLearned
        <4>2. locker[q].at # "rename"
              BY <2>3, <4>1, OnTheWay DEF Learned, Publishing
        <4>. QED  BY <1>1, <4>1, <4>2 DEF Learned
      <3>. QED  BY <3>1, <3>2
    <2>. QED  BY <2>5, <2>6 DEF KeyInv, AllLearned
  <1>. QED  BY <1>2, <1>3

LEMMA LookStep == ASSUME KeyInv, NEW p \in Processes, Key!Look(p) PROVE KeyInv'
  <1>1. /\ locker[p].at = "look" /\ locker[p].at \in Publishing
        /\ UNCHANGED <<links, file, lock, keys, robbed>>
        BY DEF Key!Look, Key!At, Publishing
  <1>2. CASE file # 0 /\ Key!Go(p, "read")
    <2>1. Learned([locker[p] EXCEPT !.at = "read"])
          BY <1>1, <1>2, OnTheWay DEF Learned, Openers
    <2>. QED  BY <1>1, <1>2, <2>1, MoveStep DEF KeyPlaces, Publishing
  <1>3. CASE Key!Go(p, "steal") \/ Key!Go(p, "lock") \/ Key!Go(p, "failed")
        BY <1>1, <1>3, OnTheWay, BlindStep DEF Unaware
  <1>. QED  BY <1>2, <1>3 DEF Key!Look

(* A lock that is moved aside or removed, when nobody is about to rename    *)
(* under it.                                                                *)
LEMMA LockGoes ==
    ASSUME KeyInv, lock' = Key!NoLock, file' = file, ~robbed' => ~robbed,
           NEW q \in Processes, ~robbed', locker'[q] = locker[q],
           ~(locker[q].at = "rename" /\ lock.token = locker[q].key)
    PROVE  Learned(locker[q])'
  <1>1. Learned(locker[q]) /\ lock'.token = 0
        BY DEF KeyInv, AllLearned, Key!NoLock
  <1>2. locker[q].at \in Publishing => lock'.token # locker[q].key
        BY <1>1, OnTheWay
  <1>3. locker[q].at # "rename"
        BY <1>1 DEF Learned
  <1>. QED  BY <1>1, <1>2, <1>3 DEF Learned, Publishing

LEMMA StealStep == ASSUME KeyInv, NEW p \in Processes, Key!Steal(p) PROVE KeyInv'
  <1>1. /\ locker[p].at = "steal" /\ locker[p].at \in Publishing /\ UNCHANGED <<links, file, keys>>
        /\ lock' = Key!NoLock
        BY DEF Key!Steal, Key!At, Publishing
  <1>. DEFINE r == [locker[p] EXCEPT !.at = "lock"]
  <1>2. /\ locker' = [locker EXCEPT ![p] = r] /\ r \in Openers
        /\ r.key = locker[p].key /\ r.at = "lock"
        BY <1>1, OnTheWay DEF Key!Steal, Key!Go, Openers, KeyPlaces
  <1>. HIDE DEF r
  <1>3. lock' \in Locks /\ lock'.token = 0 /\ file' \in Nat
        BY <1>1 DEF KeyInv, Shape, Key!NoLock, Locks
  <1>4. /\ robbed' \in BOOLEAN
        /\ ~robbed' => ~robbed /\ \A q \in Processes :
                          ~(locker[q].at = "rename" /\ lock.token = locker[q].key)
    <2>1. robbed' = (robbed \/ \E q \in Processes : Key!At(q, "rename") /\ Key!Owned(q))
          BY DEF Key!Steal
    <2>2. robbed \in BOOLEAN
          BY DEF KeyInv, Shape
    <2>. QED  BY <2>1, <2>2 DEF Key!At, Key!Owned
  <1>5. /\ Shape' /\ FreshKeys' /\ LinksFree'
        /\ locker'[p] = r /\ \A q \in Processes : q # p => locker'[q] = locker[q]
        BY <1>1, <1>2, <1>3, <1>4, OnTheWay, SameKeys
  <1>6. ASSUME ~robbed', NEW q \in Processes PROVE Learned(locker[q])'
    <2>1. CASE q = p
          BY <1>2, <1>5, <2>1 DEF Learned
    <2>2. CASE q # p
          BY <1>1, <1>4, <1>5, <1>6, <2>2, LockGoes
    <2>. QED  BY <2>1, <2>2
  <1>. QED  BY <1>5, <1>6 DEF KeyInv, AllLearned

LEMMA SettleStep == ASSUME KeyInv, NEW p \in Processes, Key!Settle(p) PROVE KeyInv'
  <1>1. locker[p].at = "held" /\ locker[p].at \in Publishing
        BY DEF Key!Settle, Key!At, Publishing
  <1>. QED  BY <1>1, OnTheWay, BlindStep DEF Key!Settle, Unaware

(* A process that gives up or is done, and goes to remove its lock.         *)
LEMMA FailStep ==
    ASSUME KeyInv, NEW p \in Processes, NEW res \in {"denied", "exists"}, Key!Fails(p, res),
           locker[p].at \in Publishing, UNCHANGED <<links, file, lock, keys, robbed>>,
           res = "denied" => lock.token # locker[p].key, res = "exists" => file # 0
    PROVE  KeyInv'
  <1>. DEFINE r == [locker[p] EXCEPT !.at = "release", !.res = res]
  <1>1. /\ locker' = [locker EXCEPT ![p] = r] /\ r \in Openers
        /\ r.key = locker[p].key /\ r.at = "release" /\ r.res = res
        BY OnTheWay DEF Key!Fails, Openers, KeyPlaces, Results
  <1>. HIDE DEF r
  <1>2. Learned(r)
        BY <1>1 DEF Learned
  <1>. QED  BY <1>1, <1>2, OnTheWay, LocalStep

LEMMA CheckOwnedStep == ASSUME KeyInv, NEW p \in Processes, Key!CheckOwned(p) PROVE KeyInv'
  <1>1. /\ locker[p].at \in {"owned", "again"} /\ locker[p].at \in Publishing
        /\ UNCHANGED <<links, file, lock, keys, robbed>>
        BY DEF Key!CheckOwned, Publishing
  <1>2. CASE ~Key!Owned(p)
        BY <1>1, <1>2, FailStep DEF Key!CheckOwned, Key!Owned
  <1>3. CASE Key!Owned(p) /\ locker[p].at = "owned"
        BY <1>1, <1>3, OnTheWay, BlindStep DEF Key!CheckOwned, Key!At, Unaware
  <1>4. CASE Key!Owned(p) /\ locker[p].at = "again"
    <2>. DEFINE r == [locker[p] EXCEPT !.at = "rename"]
    <2>1. r.at = "rename" /\ r.key = locker[p].key
          BY <1>1, OnTheWay DEF Openers
    <2>2. ~robbed => file = 0
          BY <1>4 DEF KeyInv, AllLearned, Learned, Key!Owned
    <2>3. ~robbed => Learned(r)
          <3>. HIDE DEF r
          <3>. QED  BY <1>4, <2>1, <2>2 DEF Learned, Key!Owned
    <2>4. Key!Go(p, "rename")
          BY <1>4 DEF Key!CheckOwned, Key!At
    <2>. QED  BY <1>1, <2>3, <2>4, OnTheWay, MoveStep DEF KeyPlaces
  <1>. QED  BY <1>1, <1>2, <1>3, <1>4

LEMMA CheckFileStep == ASSUME KeyInv, NEW p \in Processes, Key!CheckFile(p) PROVE KeyInv'
  <1>1. /\ locker[p].at = "exists" /\ locker[p].at \in Publishing
        /\ UNCHANGED <<links, file, lock, keys, robbed>>
        BY DEF Key!CheckFile, Key!At, Publishing
  <1>2. CASE file # 0
        BY <1>1, <1>2, FailStep DEF Key!CheckFile, Key!Published
  <1>3. CASE file = 0
    <2>. DEFINE r == [locker[p] EXCEPT !.at = "again"]
    <2>1. r.at = "again"
          BY <1>1, OnTheWay DEF Openers
    <2>2. Learned(r)
          <3>. HIDE DEF r
          <3>. QED  BY <1>3, <2>1 DEF Learned
    <2>3. Key!Go(p, "again")
          BY <1>3 DEF Key!CheckFile, Key!Published
    <2>. QED  BY <1>1, <2>2, <2>3, OnTheWay, MoveStep DEF KeyPlaces
  <1>. QED  BY <1>2, <1>3

(* The rename: nobody else has the lock, and so nobody has anything else.   *)
LEMMA RenameStep == ASSUME KeyInv, NEW p \in Processes, Key!Rename(p) PROVE KeyInv'
  <1>1. /\ locker[p].at = "rename" /\ locker[p].at \in Publishing
        /\ file' = locker[p].key /\ UNCHANGED <<links, lock, keys, robbed>>
        BY DEF Key!Rename, Key!At, Publishing
  <1>. DEFINE r == [locker[p] EXCEPT !.at = "release", !.res = "ok"]
  <1>2. /\ locker' = [locker EXCEPT ![p] = r] /\ r \in Openers
        /\ r.key = locker[p].key /\ r.at = "release" /\ r.res = "ok"
        BY <1>1, OnTheWay DEF Key!Rename, Key!Fails, Openers, KeyPlaces, Results
  <1>. HIDE DEF r
  <1>3. file' \in Nat /\ file' # 0 /\ robbed' \in BOOLEAN /\ lock' \in Locks
        BY <1>1, OnTheWay DEF KeyInv, Shape
  <1>4. /\ Shape' /\ FreshKeys' /\ LinksFree'
        /\ locker'[p] = r /\ \A q \in Processes : q # p => locker'[q] = locker[q]
        BY <1>1, <1>2, <1>3, OnTheWay, SameKeys
  <1>5. ASSUME ~robbed', NEW q \in Processes PROVE Learned(locker[q])'
    <2>1. CASE q = p
          BY <1>1, <1>2, <1>3, <1>4, <2>1 DEF Learned
    <2>2. CASE q # p
      <3>1. lock.token = locker[p].key /\ file = 0 /\ Learned(locker[q])
            BY <1>1, <1>5 DEF KeyInv, AllLearned, Learned
      <3>2. lock.token # locker[q].key /\ locker'[q] = locker[q]
            BY <1>1, <1>4, <2>2, <3>1, OneOwner
      <3>. QED  BY <1>1, <1>3, <3>1, <3>2 DEF Learned
    <2>. QED  BY <2>1, <2>2
  <1>. QED  BY <1>4, <1>5 DEF KeyInv, AllLearned

(* What a process does once it has given the lock back, or lost it.         *)
LEMMA AfterLearns ==
    ASSUME KeyInv, NEW p \in Processes, Key!After(p), locker[p].at \in {"release", "unlink"}
    PROVE  \E r \in Openers :
              /\ locker' = [locker EXCEPT ![p] = r] /\ r.key = locker[p].key
              /\ r.at \in {"open", "read", "failed"}
              /\ ~robbed => (r.at = "open" => file # 0 /\ r.mem = file) /\ (r.at = "read" => file # 0)
  <1>1. locker[p] \in Openers
        BY DEF KeyInv, Shape
  <1>2. CASE locker[p].res = "ok"
    <2>. DEFINE r == [locker[p] EXCEPT !.at = "open", !.mem = locker[p].key]
    <2>1. r \in Openers /\ r.key = locker[p].key /\ r.at = "open" /\ r.mem = locker[p].key
          BY <1>1 DEF Openers, KeyPlaces
    <2>2. locker' = [locker EXCEPT ![p] = r]
          BY <1>2 DEF Key!After, Key!Use, KeyInv, Shape
    <2>3. ~robbed => file # 0 /\ file = locker[p].key
          BY <1>2 DEF KeyInv, AllLearned, Learned
    <2>. HIDE DEF r
    <2>. QED  BY <2>1, <2>2, <2>3
  <1>3. ASSUME NEW at \in {"read", "failed"}, Key!Go(p, at), ~robbed => (at = "read" => file # 0)
        PROVE  \E r \in Openers :
                  /\ locker' = [locker EXCEPT ![p] = r] /\ r.key = locker[p].key
                  /\ r.at \in {"open", "read", "failed"}
                  /\ ~robbed => (r.at = "open" => file # 0 /\ r.mem = file)
                                   /\ (r.at = "read" => file # 0)
    <2>. DEFINE r == [locker[p] EXCEPT !.at = at]
    <2>1. r \in Openers /\ r.key = locker[p].key /\ r.at = at
          BY <1>1 DEF Openers, KeyPlaces
    <2>2. locker' = [locker EXCEPT ![p] = r]
          BY <1>3 DEF Key!Go, KeyInv, Shape
    <2>. HIDE DEF r
    <2>. QED  BY <1>3, <2>1, <2>2
  <1>4. CASE locker[p].res = "exists"
    <2>1. ~robbed => file # 0
          BY <1>4 DEF KeyInv, AllLearned, Learned
    <2>2. Key!Go(p, "read")
          BY <1>4 DEF Key!After
    <2>. QED  BY <1>3, <2>1, <2>2
  <1>5. CASE locker[p].res \notin {"ok", "exists"}
    <2>1. Key!Go(p, "failed")
          BY <1>5 DEF Key!After
    <2>. QED  BY <1>3, <2>1
  <1>. QED  BY <1>2, <1>4, <1>5

LEMMA ReleaseStep == ASSUME KeyInv, NEW p \in Processes, Key!Release(p) PROVE KeyInv'
  <1>1. /\ locker[p].at = "release" /\ locker[p].at \in Publishing
        /\ UNCHANGED <<links, file, lock, keys, robbed>>
        BY DEF Key!Release, Key!At, Publishing
  <1>2. CASE Key!Owned(p)
    <2>. DEFINE r == [locker[p] EXCEPT !.at = "unlink"]
    <2>1. r.at = "unlink" /\ r.key = locker[p].key /\ r.res = locker[p].res /\ r.res \in Results
          BY <1>1, OnTheWay DEF Openers
    <2>2. ~robbed => Learned(locker[p])
          BY DEF KeyInv, AllLearned
    <2>3. ~robbed => Learned(r)
          <3>. HIDE DEF r
          <3>. QED  BY <1>1, <1>2, <2>1, <2>2 DEF Learned, Key!Owned, Results
    <2>4. Key!Go(p, "unlink")
          BY <1>2 DEF Key!Release
    <2>. QED  BY <1>1, <2>3, <2>4, OnTheWay, MoveStep DEF KeyPlaces
  <1>3. CASE ~Key!Owned(p)
    <2>1. PICK r \in Openers :
              /\ locker' = [locker EXCEPT ![p] = r] /\ r.key = locker[p].key
              /\ r.at \in {"open", "read", "failed"}
              /\ ~robbed => (r.at = "open" => file # 0 /\ r.mem = file) /\ (r.at = "read" => file # 0)
          BY <1>1, <1>3, AfterLearns DEF Key!Release
    <2>2. ~robbed => Learned(r)
          BY <2>1 DEF Learned
    <2>. QED  BY <1>1, <2>1, <2>2, LocalStep DEF Publishing
  <1>. QED  BY <1>2, <1>3

LEMMA UnlinkStep == ASSUME KeyInv, NEW p \in Processes, Key!Unlink(p) PROVE KeyInv'
  <1>1. /\ locker[p].at = "unlink" /\ locker[p].at \in Publishing
        /\ UNCHANGED <<links, file, keys, robbed>> /\ lock' = Key!NoLock /\ Key!After(p)
        BY DEF Key!Unlink, Key!At, Publishing
  <1>2. PICK r \in Openers :
            /\ locker' = [locker EXCEPT ![p] = r] /\ r.key = locker[p].key
            /\ r.at \in {"open", "read", "failed"}
            /\ ~robbed => (r.at = "open" => file # 0 /\ r.mem = file) /\ (r.at = "read" => file # 0)
        BY <1>1, AfterLearns
  <1>3. lock' \in Locks /\ lock'.token = 0 /\ file' \in Nat /\ robbed' \in BOOLEAN
        BY <1>1 DEF KeyInv, Shape, Key!NoLock, Locks
  <1>4. /\ Shape' /\ FreshKeys' /\ LinksFree'
        /\ locker'[p] = r /\ \A q \in Processes : q # p => locker'[q] = locker[q]
        BY <1>1, <1>2, <1>3, SameKeys DEF Publishing
  <1>5. ASSUME ~robbed', NEW q \in Processes PROVE Learned(locker[q])'
    <2>1. CASE q = p
          BY <1>1, <1>2, <1>4, <1>5, <2>1 DEF Learned
    <2>2. CASE q # p
      <3>1. file # 0 /\ Learned(locker[q])
            BY <1>1, <1>5 DEF KeyInv, AllLearned, Learned
      <3>2. ~(locker[q].at = "rename" /\ lock.token = locker[q].key)
            BY <3>1 DEF Learned
      <3>. QED  BY <1>1, <1>4, <1>5, <2>2, <3>2, LockGoes
    <2>. QED  BY <2>1, <2>2
  <1>. QED  BY <1>4, <1>5 DEF KeyInv, AllLearned

LEMMA CrashStep == ASSUME KeyInv, NEW p \in Processes, Key!Crash(p) PROVE KeyInv'
  <1>1. locker' = [locker EXCEPT ![p] = Key!Off] /\ UNCHANGED <<links, file, lock, keys, robbed>>
        BY DEF Key!Crash
  <1>2. locker'[p] = Key!Off /\ \A q \in Processes : q # p => locker'[q] = locker[q]
        BY <1>1 DEF KeyInv, Shape
  <1>3. Shape'
        BY <1>1 DEF KeyInv, Shape, Key!Off, KeyPlaces, Openers, Results
  <1>4. FreshKeys'
        BY <1>1, <1>2 DEF KeyInv, Shape, FreshKeys, Key!Off, Publishing
  <1>5. LinksFree'
        BY <1>1, <1>2 DEF KeyInv, LinksFree, Key!Off, Publishing
  <1>6. AllLearned'
        BY <1>1, <1>2 DEF KeyInv, AllLearned, Learned, Key!Off
  <1>. QED  BY <1>3, <1>4, <1>5, <1>6 DEF KeyInv

(* Time stamps say nothing of whose lock it is.                             *)
LEMMA StampStep ==
    ASSUME KeyInv, NEW old \in BOOLEAN, lock' = [lock EXCEPT !.old = old],
           UNCHANGED <<links, file, locker, keys, robbed>>
    PROVE  KeyInv'
  <1>1. lock' \in Locks /\ lock'.token = lock.token
        BY DEF KeyInv, Shape, Locks
  <1>. QED  BY <1>1 DEF KeyInv, Shape, FreshKeys, LinksFree, AllLearned, Learned

-----------------------------------------------------------------------------
(* Every process that has the profile open uses the published key, with or  *)
(* without hard links, whoever crashes, stands still or takes a lock over:  *)
(* unless a contender moved a lock aside between its holder's last check    *)
(* and its rename (load_or_create_vault_key, publish_vault_key).            *)
THEOREM KeysAlwaysAgree ==
    ASSUME Key!VaultAssumption
    PROVE  Key!Spec => []Key!KeysAgree
  <1>1. ASSUME KeyInv, [Key!Next]_(Key!vars) PROVE KeyInv'
    <2>1. ASSUME NEW p \in Processes,
                 Key!Open(p) \/ Key!Link(p) \/ Key!Read(p) \/ Key!Lock(p) \/ Key!Look(p)
          PROVE  KeyInv'
          BY <1>1, <2>1, OpenStep, LinkStep, ReadStep, LockStep, LookStep
    <2>2. ASSUME NEW p \in Processes,
                 Key!Steal(p) \/ Key!Settle(p) \/ Key!CheckOwned(p) \/ Key!CheckFile(p)
          PROVE  KeyInv'
          BY <1>1, <2>2, StealStep, SettleStep, CheckOwnedStep, CheckFileStep
    <2>3. ASSUME NEW p \in Processes,
                 Key!Rename(p) \/ Key!Release(p) \/ Key!Unlink(p) \/ Key!Crash(p)
          PROVE  KeyInv'
          BY <1>1, <2>3, RenameStep, ReleaseStep, UnlinkStep, CrashStep
    <2>4. ASSUME NEW p \in Processes, Key!Beat(p) PROVE KeyInv'
          BY <1>1, <2>4, StampStep DEF Key!Beat
    <2>5. CASE Key!Age
          BY <1>1, <2>5, StampStep DEF Key!Age
    <2>6. CASE UNCHANGED Key!vars
          BY <1>1, <2>6
             DEF Key!vars, KeyInv, Shape, FreshKeys, LinksFree, AllLearned, Learned
    <2>. QED  BY <1>1, <2>1, <2>2, <2>3, <2>4, <2>5, <2>6 DEF Key!Next
  <1>2. KeyInv => Key!KeysAgree
        BY DEF KeyInv, AllLearned, Learned, Key!KeysAgree, Key!At
  <1>. QED  BY <1>1, <1>2, InitHolds, PTL DEF Key!Spec

-----------------------------------------------------------------------------
(* Accounts: the invariant *)

Kinds    == {"none", "password", "oauth"}
Secrets  == [kind : Kinds, v : Nat]
Undoing == {"secret", "row", "undo"}
AccPlaces   == {"idle", "update", "convert", "forget", "delete"} \cup Undoing
AccLocals   == [at : AccPlaces \cup {"expired", "store"}, id : Ids, new : Secrets, old : Secrets]

AccTyped ==
    /\ row \in [Ids -> Kinds] /\ buried \in SUBSET Ids /\ vault \in [Ids -> Secrets]
    /\ holder \in [Ids -> Acc!Tasks \cup {Acc!NoTask}]
    /\ task \in [Acc!Tasks -> AccLocals]
    /\ \A t \in Commands : task[t].at \in AccPlaces
    /\ \A t \in Readers : task[t].at \in {"idle", "expired", "store"}
    /\ grant \in Nat /\ breaks \in Nat /\ paused \in SUBSET Ids /\ torn \in SUBSET Ids

(* A command holds the lock of its account, *)
Holds(t) == task[t].at # "idle" => holder[Acc!Of(t)] = t

(* which keeps the row as it found it: one that changes the password has    *)
(* what undoes the change,                                                  *)
Reversible(t) ==
    task[t].at \in Undoing =>
       /\ task[t].new.kind = "password"
       /\ row[Acc!Of(t)] # "oauth"
       /\ row[Acc!Of(t)] = "none" => task[t].old = Acc!NoSecret
       /\ Acc!Of(t) \notin torn => task[t].old.kind = row[Acc!Of(t)]
       /\ task[t].at # "secret" => vault[Acc!Of(t)].kind = "password"

(* and the others work on an account that is there.                         *)
Present(t) == /\ task[t].at \in {"update", "forget", "delete"} => row[Acc!Of(t)] # "none"
              /\ task[t].at = "convert" => row[Acc!Of(t)] = "oauth"

(* What is refreshed are tokens.                                            *)
Refreshed(t) == task[t].at = "store" => task[t].new.kind = "oauth"

(* A row has its credential unless a removal has taken it; without a row    *)
(* only an account that is being added has one.                             *)
Fits(i) ==
    i \notin torn =>
       /\ row[i] # "none" => vault[i].kind = row[i] \/ Acc!Working(i, {"delete"})
       /\ row[i] = "none" /\ i \notin buried => vault[i] = Acc!NoSecret \/ Acc!Working(i, {"row", "undo"})

AccInv == /\ AccTyped
          /\ \A t \in Commands : Holds(t) /\ Reversible(t) /\ Present(t)
          /\ \A t \in Readers : Refreshed(t)
          /\ \A i \in Ids : Fits(i)

-----------------------------------------------------------------------------
(* Accounts: types *)

LEMMA SecretKinds ==
    /\ Acc!NoSecret \in Secrets /\ Acc!NoSecret.kind = "none"
    /\ \A v \in Nat : /\ Acc!Password(v) \in Secrets /\ Acc!Password(v).kind = "password"
                       /\ Acc!Token(v) \in Secrets /\ Acc!Token(v).kind = "oauth"
  BY DEF Acc!NoSecret, Acc!Password, Acc!Token, Secrets, Kinds

LEMMA IdleTyped ==
    ASSUME Acc!AccountsAssumption
    PROVE  Acc!Idle \in AccLocals /\ Acc!Idle.at = "idle" /\ Acc!Idle.id = First
  BY SecretKinds DEF Acc!AccountsAssumption, Acc!Idle, AccLocals, AccPlaces

(* Where a task of a kind may be. *)
Role(t) == IF t \in Commands THEN AccPlaces ELSE {"idle", "expired", "store"}

(* The types but those of the tasks. *)
Stored ==
    /\ row \in [Ids -> Kinds] /\ buried \in SUBSET Ids /\ vault \in [Ids -> Secrets]
    /\ holder \in [Ids -> Acc!Tasks \cup {Acc!NoTask}]
    /\ grant \in Nat /\ breaks \in Nat /\ paused \in SUBSET Ids /\ torn \in SUBSET Ids

(* A step of one task. *)
OnlyMoves(t, l) == /\ \A x \in Acc!Tasks \ {t} : task'[x] = task[x]
                   /\ task'[t] = l

LEMMA Moved ==
    ASSUME Acc!AccountsAssumption, AccTyped, Stored', NEW t \in Acc!Tasks, NEW l \in AccLocals,
           l.at \in Role(t), task' = [task EXCEPT ![t] = l]
    PROVE  AccTyped' /\ OnlyMoves(t, l)
  <1>1. task' \in [Acc!Tasks -> AccLocals] /\ OnlyMoves(t, l)
        BY DEF AccTyped, OnlyMoves
  <1>2. ASSUME NEW x \in Commands PROVE task'[x].at \in AccPlaces
        BY <1>1 DEF AccTyped, OnlyMoves, Role, Acc!Tasks
  <1>3. ASSUME NEW x \in Readers PROVE task'[x].at \in {"idle", "expired", "store"}
        BY <1>1 DEF AccTyped, OnlyMoves, Role, Acc!Tasks, Acc!AccountsAssumption
  <1>. QED  BY <1>1, <1>2, <1>3 DEF AccTyped, Stored

(* It goes on, *)
LEMMA StepsTo ==
    ASSUME Acc!AccountsAssumption, AccTyped, Stored', NEW t \in Acc!Tasks, NEW at \in Role(t), Acc!Go(t, at)
    PROVE  /\ AccTyped' /\ \A x \in Acc!Tasks \ {t} : task'[x] = task[x]
           /\ task'[t].at = at /\ task'[t].id = task[t].id
           /\ task'[t].new = task[t].new /\ task'[t].old = task[t].old
  <1>. DEFINE l == [task[t] EXCEPT !.at = at]
  <1>1. task[t] \in AccLocals /\ at \in AccPlaces \cup {"expired", "store"}
        BY DEF AccTyped, Role, AccPlaces
  <1>2. /\ l \in AccLocals /\ l.at = at /\ l.id = task[t].id
        /\ l.new = task[t].new /\ l.old = task[t].old
        BY <1>1 DEF AccLocals
  <1>3. task' = [task EXCEPT ![t] = l]
        BY DEF Acc!Go
  <1>. HIDE DEF l
  <1>. QED  BY <1>2, <1>3, Moved DEF OnlyMoves

(* or ends, and gives its locks back.                                       *)
LEMMA Freed ==
    ASSUME AccTyped, NEW t \in Acc!Tasks, Acc!Free(t)
    PROVE  /\ holder' \in [Ids -> Acc!Tasks \cup {Acc!NoTask}]
           /\ \A j \in Ids : holder'[j] = holder[j] \/ holder[j] = t
  BY DEF AccTyped, Acc!Free

LEMMA Ends ==
    ASSUME Acc!AccountsAssumption, AccTyped, Stored', NEW t \in Acc!Tasks, Acc!End(t)
    PROVE  AccTyped' /\ OnlyMoves(t, Acc!Idle)
  BY IdleTyped, Moved DEF Acc!End, Role, AccPlaces

-----------------------------------------------------------------------------
(* What a step leaves to the others *)

(* A step of command t on account i, which no other command works on. *)
Local(t, i) ==
    /\ AccTyped' /\ \A x \in Acc!Tasks \ {t} : task'[x] = task[x]
    /\ \A j \in Ids \ {i} : row'[j] = row[j] /\ vault'[j] = vault[j]
    /\ \A j \in Ids : holder'[j] = holder[j] \/ j = i \/ holder[j] = t
    /\ torn \subseteq torn' /\ buried \subseteq buried'
    /\ \A x \in Commands \ {t} : task[x].at # "idle" => Acc!Of(x) # i
    /\ task[t].at = "idle" \/ Acc!Of(t) = i
    /\ task'[t].at = "idle" \/ task'[t].id = i

LEMMA LocalKeeps ==
    ASSUME Acc!AccountsAssumption, AccInv, NEW t \in Commands, NEW i \in Ids, Local(t, i),
           Holds(t)', Reversible(t)', Present(t)', Fits(i)'
    PROVE  AccInv'
  <1>1. t \in Acc!Tasks /\ t \notin Readers /\ Commands \subseteq Acc!Tasks /\ Readers \subseteq Acc!Tasks
        BY DEF Acc!Tasks, Acc!AccountsAssumption
  <1>2. ASSUME NEW x \in Commands PROVE Holds(x)' /\ Reversible(x)' /\ Present(x)'
    <2>1. CASE x = t
          BY <2>1
    <2>2. CASE x # t
      <3>1. task'[x] = task[x] /\ Holds(x) /\ Reversible(x) /\ Present(x) /\ Acc!Of(x) \in Ids
            BY <1>1, <2>2 DEF Local, AccInv, AccTyped, AccLocals, Acc!Of
      <3>2. CASE task[x].at = "idle"
            BY <3>1, <3>2 DEF Holds, Reversible, Present, Undoing
      <3>3. CASE task[x].at # "idle"
        <4>1. /\ holder[Acc!Of(x)] = x /\ Acc!Of(x) # i /\ Acc!Of(x)' = Acc!Of(x)
              /\ row'[Acc!Of(x)] = row[Acc!Of(x)] /\ vault'[Acc!Of(x)] = vault[Acc!Of(x)]
              BY <2>2, <3>1, <3>3 DEF Local, Holds, Acc!Of
        <4>2. holder'[Acc!Of(x)] = x
              BY <2>2, <3>1, <4>1 DEF Local
        <4>3. Acc!Of(x) \in torn => Acc!Of(x) \in torn'
              BY DEF Local
        <4>. QED  BY <3>1, <4>1, <4>2, <4>3 DEF Holds, Reversible, Present
      <3>. QED  BY <3>2, <3>3
    <2>. QED  BY <2>1, <2>2
  <1>3. ASSUME NEW x \in Readers PROVE Refreshed(x)'
        BY <1>1 DEF Local, AccInv, Refreshed
  <1>4. ASSUME NEW j \in Ids PROVE Fits(j)'
    <2>1. CASE j = i
          BY <2>1
    <2>2. CASE j # i
      <3>1. ASSUME NEW at \in {{"delete"}, {"row", "undo"}}, Acc!Working(j, at)
            PROVE  Acc!Working(j, at)'
        <4>1. PICK x \in Acc!Tasks : Acc!Of(x) = j /\ task[x].at \in at
              BY <3>1 DEF Acc!Working
        <4>2. x # t
              BY <2>2, <3>1, <4>1 DEF Local
        <4>. QED  BY <4>1, <4>2 DEF Acc!Working, Local, Acc!Of
      <3>2. Fits(j) /\ row'[j] = row[j] /\ vault'[j] = vault[j]
            BY <2>2 DEF AccInv, Local
      <3>3. (j \in torn => j \in torn') /\ (j \in buried => j \in buried')
            BY DEF Local
      <3>. QED  BY <3>1, <3>2, <3>3 DEF Fits
    <2>. QED  BY <2>1, <2>2
  <1>. QED  BY <1>2, <1>3, <1>4 DEF AccInv, Local

(* A step that only concerns a task that uses the account. *)
UseOnly(t) ==
    /\ AccTyped' /\ \A x \in Acc!Tasks \ {t} : task'[x] = task[x]
    /\ \A j \in Ids : holder'[j] = holder[j] \/ holder[j] = t
    /\ UNCHANGED <<row, buried>> /\ torn \subseteq torn'

LEMMA AsideKeeps ==
    ASSUME Acc!AccountsAssumption, AccInv, NEW t \in Readers, UseOnly(t), Refreshed(t)',
           \A j \in Ids : \/ vault'[j] = vault[j]
                          \/ row[j] = "oauth" /\ vault'[j].kind = "oauth"
    PROVE  AccInv'
  <1>1. t \in Acc!Tasks /\ t \notin Commands /\ Commands \subseteq Acc!Tasks /\ Readers \subseteq Acc!Tasks
        BY DEF Acc!Tasks, Acc!AccountsAssumption
  <1>2. ASSUME NEW x \in Commands PROVE Holds(x)' /\ Reversible(x)' /\ Present(x)'
    <2>1. /\ task'[x] = task[x] /\ Acc!Of(x)' = Acc!Of(x) /\ Acc!Of(x) \in Ids /\ x # t
          /\ Holds(x) /\ Reversible(x) /\ Present(x)
          BY <1>1 DEF UseOnly, AccInv, AccTyped, AccLocals, Acc!Of
    <2>2. /\ Acc!Of(x) \in torn => Acc!Of(x) \in torn'
          /\ row' = row
          /\ vault'[Acc!Of(x)] = vault[Acc!Of(x)] \/ row[Acc!Of(x)] = "oauth"
          BY <2>1 DEF UseOnly
    <2>3. Holds(x)'
          BY <2>1 DEF UseOnly, Holds
    <2>. QED  BY <2>1, <2>2, <2>3 DEF Reversible, Present
  <1>3. ASSUME NEW x \in Readers PROVE Refreshed(x)'
        BY <1>1 DEF UseOnly, AccInv, Refreshed
  <1>4. ASSUME NEW j \in Ids PROVE Fits(j)'
    <2>1. ASSUME NEW at \in {{"delete"}, {"row", "undo"}}, Acc!Working(j, at)
          PROVE  Acc!Working(j, at)'
      <3>1. PICK x \in Acc!Tasks : Acc!Of(x) = j /\ task[x].at \in at
            BY <2>1 DEF Acc!Working
      <3>2. x # t
            BY <2>1, <3>1 DEF AccInv, AccTyped
      <3>. QED  BY <3>1, <3>2 DEF Acc!Working, UseOnly, Acc!Of
    <2>2. Fits(j) /\ row'[j] = row[j] /\ (j \in torn => j \in torn') /\ buried' = buried
          BY DEF AccInv, UseOnly
    <2>. QED  BY <2>1, <2>2 DEF Fits
  <1>. QED  BY <1>2, <1>3, <1>4 DEF AccInv, UseOnly

-----------------------------------------------------------------------------
(* Every step keeps the invariant *)

(* Two commands never work on one account.                                  *)
LEMMA Apart ==
    ASSUME Acc!AccountsAssumption, AccInv, NEW t \in Commands, task[t].at # "idle"
    PROVE  /\ t \in Acc!Tasks /\ Acc!Of(t) \in Ids /\ Acc!Of(t) = task[t].id /\ holder[Acc!Of(t)] = t
           /\ Reversible(t) /\ Present(t) /\ Fits(Acc!Of(t))
           /\ \A x \in Commands \ {t} : task[x].at # "idle" => Acc!Of(x) # Acc!Of(t)
  BY DEF AccInv, Holds, AccTyped, AccLocals, Acc!Of, Acc!Tasks

(* What no other task does is done where t itself is at.                    *)
LEMMA Nowhere ==
    ASSUME Acc!AccountsAssumption, AccInv, NEW t \in Commands, task[t].at # "idle",
           NEW at \in {{"delete"}, {"row", "undo"}}, Acc!Working(Acc!Of(t), at)
    PROVE  task[t].at \in at
  <1>1. PICK x \in Acc!Tasks : Acc!Of(x) = Acc!Of(t) /\ task[x].at \in at
        BY DEF Acc!Working
  <1>2. x \in Commands
        BY <1>1 DEF AccInv, AccTyped, Acc!Tasks
  <1>. QED  BY <1>1, <1>2, Apart

LEMMA Here ==
    ASSUME NEW t \in Acc!Tasks, NEW i \in Ids, NEW at, task'[t].id = i, task'[t].at \in at
    PROVE  Acc!Working(i, at)'
  BY DEF Acc!Working, Acc!Of

LEMMA AddStarts ==
    ASSUME Acc!AccountsAssumption, AccInv, NEW t \in Commands, NEW i \in Ids, Acc!StartAdd(t, i)
    PROVE  AccInv'
  <1>. DEFINE l == [at |-> "secret", id |-> i, new |-> Acc!Password(2), old |-> Acc!NoSecret]
  <1>1. /\ task' = [task EXCEPT ![t] = l] /\ holder' = [holder EXCEPT ![i] = t]
        /\ UNCHANGED <<row, buried, vault, grant, paused, breaks, torn>>
        /\ task[t].at = "idle" /\ row[i] = "none" /\ vault[i] = Acc!NoSecret
        /\ \A x \in Acc!Tasks : task[x].at = "idle" \/ Acc!Of(x) # i
        BY DEF Acc!StartAdd, Acc!At, Acc!Connected
  <1>2. t \in Acc!Tasks /\ Stored' /\ AccTyped
        BY <1>1 DEF Acc!Tasks, AccInv, AccTyped, Stored
  <1>3. l \in AccLocals /\ l.at \in Role(t)
        BY SecretKinds DEF AccLocals, AccPlaces, Undoing, Role
  <1>4. /\ l.at = "secret" /\ l.id = i /\ l.old = Acc!NoSecret /\ l.new.kind = "password"
        /\ l.old.kind = "none"
        BY SecretKinds
  <1>. HIDE DEF l
  <1>5. AccTyped' /\ OnlyMoves(t, l)
        BY <1>1, <1>2, <1>3, Moved
  <1>6. Local(t, i)
        BY <1>1, <1>2, <1>4, <1>5 DEF Local, OnlyMoves, AccTyped, Acc!Tasks
  <1>7. Holds(t)' /\ Reversible(t)' /\ Present(t)'
        BY <1>1, <1>2, <1>4, <1>5 DEF OnlyMoves, Holds, Reversible, Present, Acc!Of, AccTyped
  <1>8. Fits(i)'
        BY <1>1 DEF Fits
  <1>. QED  BY <1>6, <1>7, <1>8, LocalKeeps

(* A command takes the lock of an account that is there.                    *)
LEMMA LockTaken ==
    ASSUME Acc!AccountsAssumption, AccInv, NEW t \in Commands, NEW i \in Ids,
           NEW at \in {"update", "forget"}, Acc!Acquire(t, i, at)
    PROVE  AccInv'
  <1>. DEFINE l == [Acc!Idle EXCEPT !.at = at, !.id = i]
  <1>1. /\ task' = [task EXCEPT ![t] = l] /\ holder' = [holder EXCEPT ![i] = t]
        /\ UNCHANGED <<row, buried, vault, grant, paused, breaks, torn>>
        /\ task[t].at = "idle" /\ row[i] # "none" /\ holder[i] = Acc!NoTask
        BY DEF Acc!Acquire, Acc!At
  <1>2. t \in Acc!Tasks /\ Stored' /\ AccTyped
        BY <1>1 DEF Acc!Tasks, AccInv, AccTyped, Stored
  <1>3. l \in AccLocals /\ l.at \in Role(t) /\ l.at = at /\ l.id = i
        BY IdleTyped DEF AccLocals, AccPlaces, Role
  <1>. HIDE DEF l
  <1>4. AccTyped' /\ OnlyMoves(t, l)
        BY <1>1, <1>2, <1>3, Moved
  <1>5. ASSUME NEW x \in Commands \ {t}, task[x].at # "idle" PROVE Acc!Of(x) # i
        BY <1>1, <1>5, Apart DEF Acc!AccountsAssumption
  <1>6. Local(t, i)
        BY <1>1, <1>2, <1>3, <1>4, <1>5 DEF Local, OnlyMoves, AccTyped
  <1>7. Holds(t)' /\ Reversible(t)' /\ Present(t)'
        BY <1>1, <1>2, <1>3, <1>4 DEF OnlyMoves, Holds, Reversible, Present, Acc!Of, AccTyped, Undoing
  <1>8. Fits(i)'
    <2>1. ~Acc!Working(i, {"delete"})
      <3>. SUFFICES ASSUME NEW x \in Acc!Tasks, Acc!Of(x) = i, task[x].at = "delete" PROVE FALSE
           BY DEF Acc!Working
      <3>1. x \in Commands /\ x # t
            BY <1>1, <1>2 DEF AccTyped, Acc!Tasks
      <3>. QED  BY <1>5, <3>1
    <2>. QED  BY <1>1, <2>1 DEF AccInv, Fits
  <1>. QED  BY <1>6, <1>7, <1>8, LocalKeeps

(* A command that goes on.                                                  *)
LEMMA GoesOn ==
    ASSUME Acc!AccountsAssumption, AccInv, NEW t \in Commands, task[t].at # "idle",
           Stored', NEW at \in AccPlaces, Acc!Go(t, at), holder' = holder,
           UNCHANGED <<row, buried, torn>>, NEW i \in Ids, i = Acc!Of(t),
           \A j \in Ids \ {i} : vault'[j] = vault[j]
    PROVE  /\ Local(t, i) /\ Holds(t)'
           /\ task'[t].at = at /\ task'[t].id = i
           /\ task'[t].new = task[t].new /\ task'[t].old = task[t].old
  <1>1. t \in Acc!Tasks /\ at \in Role(t) /\ AccTyped
        BY DEF Acc!Tasks, Role, AccInv
  <1>2. /\ AccTyped' /\ \A x \in Acc!Tasks \ {t} : task'[x] = task[x]
        /\ task'[t].at = at /\ task'[t].id = task[t].id
        /\ task'[t].new = task[t].new /\ task'[t].old = task[t].old
        BY <1>1, StepsTo
  <1>. QED  BY <1>1, <1>2, Apart DEF Local, Holds, Acc!Of

(* A command that ends.                                                     *)
LEMMA EndsHere ==
    ASSUME Acc!AccountsAssumption, AccInv, NEW t \in Commands, task[t].at # "idle",
           Stored', Acc!End(t), torn \subseteq torn', buried \subseteq buried',
           NEW i \in Ids, i = Acc!Of(t), Fits(i)',
           \A j \in Ids \ {i} : row'[j] = row[j] /\ vault'[j] = vault[j]
    PROVE  AccInv'
  <1>1. t \in Acc!Tasks /\ AccTyped
        BY DEF Acc!Tasks, AccInv
  <1>2. AccTyped' /\ OnlyMoves(t, Acc!Idle) /\ Acc!Idle.at = "idle"
        BY <1>1, Ends, IdleTyped
  <1>3. \A j \in Ids : holder'[j] = holder[j] \/ holder[j] = t
        BY <1>1, Freed DEF Acc!End
  <1>4. Local(t, i)
        BY <1>1, <1>2, <1>3, Apart DEF Local, OnlyMoves
  <1>5. Holds(t)' /\ Reversible(t)' /\ Present(t)'
        BY <1>2 DEF OnlyMoves, Holds, Reversible, Present, Undoing
  <1>. QED  BY <1>4, <1>5, LocalKeeps

LEMMA SecretWritten ==
    ASSUME Acc!AccountsAssumption, AccInv, NEW t \in Commands, Acc!WriteSecret(t)
    PROVE  AccInv'
  <1>1. PICK i \in Ids : i = Acc!Of(t)
        BY DEF Acc!WriteSecret, Acc!At, AccInv, AccTyped, AccLocals, Acc!Of, Acc!Tasks
  <1>2. /\ task[t].at = "secret" /\ task[t] \in AccLocals /\ task[t].new \in Secrets
        /\ UNCHANGED <<row, buried, grant, paused, torn>> /\ AccTyped
        BY DEF Acc!WriteSecret, Acc!At, AccInv, AccTyped, AccLocals, Acc!Tasks
  <1>3. /\ Reversible(t) /\ Fits(i) /\ ~Acc!Working(i, {"delete"}) /\ ~Acc!Working(i, {"row", "undo"})
        /\ task[t].new.kind = "password" /\ row[i] # "oauth"
        BY <1>1, <1>2, Apart, Nowhere DEF Reversible, Undoing
  <1>4. CASE Acc!Put(i, task[t].new) /\ Acc!Go(t, "row") /\ UNCHANGED <<holder, breaks>>
    <2>1. Stored' /\ vault'[i] = task[t].new /\ \A j \in Ids \ {i} : vault'[j] = vault[j]
          BY <1>2, <1>4 DEF Acc!Put, Stored, AccTyped
    <2>2. "row" \in AccPlaces
          BY DEF AccPlaces, Undoing
    <2>3. /\ Local(t, i) /\ Holds(t)' /\ task'[t].at = "row" /\ task'[t].id = i
          /\ task'[t].new = task[t].new /\ task'[t].old = task[t].old
          BY <1>1, <1>2, <1>4, <2>1, <2>2, GoesOn
    <2>4. Reversible(t)' /\ Present(t)'
          BY <1>1, <1>2, <1>3, <2>1, <2>3 DEF Reversible, Present, Undoing, Acc!Of
    <2>5. Fits(i)'
      <3>1. Acc!Working(i, {"row", "undo"})'
            BY <2>3, Here DEF Acc!Tasks
      <3>2. row[i] # "none" => row[i] = "password"
            BY <1>2, <1>3 DEF AccTyped, Kinds
      <3>. QED  BY <1>2, <1>3, <2>1, <3>1, <3>2 DEF Fits
    <2>. QED  BY <2>3, <2>4, <2>5, LocalKeeps
  <1>5. CASE Acc!Fault /\ Acc!End(t) /\ UNCHANGED vault
    <2>1. Stored'
          BY <1>2, <1>5, Freed DEF Acc!End, Acc!Fault, Stored, AccTyped, Acc!Tasks
    <2>2. Fits(i)'
          BY <1>2, <1>3, <1>5 DEF Fits
    <2>. QED  BY <1>1, <1>2, <1>5, <2>1, <2>2, EndsHere
  <1>. QED  BY <1>1, <1>4, <1>5 DEF Acc!WriteSecret

LEMMA RowWritten ==
    ASSUME Acc!AccountsAssumption, AccInv, NEW t \in Commands, Acc!WriteRow(t)
    PROVE  AccInv'
  <1>1. PICK i \in Ids : i = Acc!Of(t)
        BY DEF Acc!WriteRow, Acc!At, AccInv, AccTyped, AccLocals, Acc!Of, Acc!Tasks
  <1>2. /\ task[t].at = "row" /\ task[t] \in AccLocals
        /\ UNCHANGED <<buried, vault, grant, paused, torn>> /\ AccTyped
        BY DEF Acc!WriteRow, Acc!At, AccInv, AccTyped, AccLocals, Acc!Tasks
  <1>3. /\ Reversible(t) /\ Fits(i) /\ ~Acc!Working(i, {"delete"}) /\ vault[i].kind = "password"
        BY <1>1, <1>2, Apart, Nowhere DEF Reversible, Undoing
  <1>4. CASE row' = [row EXCEPT ![i] = "password"] /\ Acc!End(t) /\ UNCHANGED breaks
    <2>1. /\ Stored' /\ row'[i] = "password" /\ \A j \in Ids \ {i} : row'[j] = row[j]
          BY <1>2, <1>4, Freed DEF Acc!End, Stored, AccTyped, Acc!Tasks, Kinds
    <2>2. Fits(i)'
          BY <1>2, <1>3, <2>1 DEF Fits
    <2>. QED  BY <1>1, <1>2, <1>4, <2>1, <2>2, EndsHere
  <1>5. CASE Acc!Go(t, "undo") /\ UNCHANGED <<row, holder>> /\ (UNCHANGED breaks \/ Acc!Fault)
    <2>1. Stored'
          BY <1>2, <1>5 DEF Acc!Fault, Stored, AccTyped
    <2>2. "undo" \in AccPlaces
          BY DEF AccPlaces, Undoing
    <2>3. /\ Local(t, i) /\ Holds(t)' /\ task'[t].at = "undo" /\ task'[t].id = i
          /\ task'[t].new = task[t].new /\ task'[t].old = task[t].old
          BY <1>1, <1>2, <1>5, <2>1, <2>2, GoesOn
    <2>4. Reversible(t)' /\ Present(t)'
          BY <1>1, <1>2, <1>3, <1>5, <2>3 DEF Reversible, Present, Undoing, Acc!Of
    <2>5. Acc!Working(i, {"row", "undo"})'
          BY <2>3, Here DEF Acc!Tasks
    <2>6. Fits(i)'
          BY <1>2, <1>3, <1>5, <2>5 DEF Fits
    <2>. QED  BY <2>3, <2>4, <2>6, LocalKeeps
  <1>. QED  BY <1>1, <1>4, <1>5 DEF Acc!WriteRow

LEMMA RolledBack ==
    ASSUME Acc!AccountsAssumption, AccInv, NEW t \in Commands, Acc!RollBack(t)
    PROVE  AccInv'
  <1>1. PICK i \in Ids : i = Acc!Of(t)
        BY DEF Acc!RollBack, Acc!At, AccInv, AccTyped, AccLocals, Acc!Of, Acc!Tasks
  <1>2. /\ task[t].at = "undo" /\ task[t].old \in Secrets
        /\ UNCHANGED <<row, buried, grant, paused>> /\ Acc!End(t) /\ AccTyped
        BY DEF Acc!RollBack, Acc!At, AccInv, AccTyped, AccLocals, Acc!Tasks
  <1>3. Reversible(t) /\ Fits(i) /\ ~Acc!Working(i, {"delete"})
        BY <1>1, <1>2, Apart, Nowhere
  <1>4. CASE Acc!Put(i, task[t].old) /\ UNCHANGED <<breaks, torn>>
    <2>1. /\ Stored' /\ vault'[i] = task[t].old
          /\ \A j \in Ids \ {i} : vault'[j] = vault[j]
          BY <1>2, <1>4, Freed DEF Acc!End, Acc!Put, Stored, AccTyped, Acc!Tasks
    <2>2. Fits(i)'
          BY <1>1, <1>2, <1>3, <1>4, <2>1 DEF Reversible, Undoing, Fits
    <2>. QED  BY <1>1, <1>2, <1>4, <2>1, <2>2, EndsHere
  <1>5. CASE Acc!Fault /\ torn' = torn \cup {i} /\ UNCHANGED vault
    <2>1. Stored'
          BY <1>2, <1>5, Freed DEF Acc!End, Acc!Fault, Stored, AccTyped, Acc!Tasks
    <2>2. Fits(i)'
          BY <1>5 DEF Fits
    <2>. QED  BY <1>1, <1>2, <1>5, <2>1, <2>2, EndsHere
  <1>. QED  BY <1>1, <1>4, <1>5 DEF Acc!RollBack, Acc!Before

LEMMA OldRead ==
    ASSUME Acc!AccountsAssumption, AccInv, NEW t \in Commands, Acc!ReadOld(t)
    PROVE  AccInv'
  <1>1. PICK i \in Ids : i = Acc!Of(t)
        BY DEF Acc!ReadOld, Acc!At, AccInv, AccTyped, AccLocals, Acc!Of, Acc!Tasks
  <1>2. /\ task[t].at = "update" /\ task[t] \in AccLocals /\ t \in Acc!Tasks
        /\ UNCHANGED <<row, buried, vault, grant, paused, breaks, torn>> /\ AccTyped
        BY DEF Acc!ReadOld, Acc!At, AccInv, AccTyped, AccLocals, Acc!Tasks
  <1>3. /\ Fits(i) /\ ~Acc!Working(i, {"delete"}) /\ row[i] # "none" /\ holder[i] = t
        BY <1>1, <1>2, Apart, Nowhere DEF Present
  <1>4. Fits(i)'
        BY <1>2, <1>3 DEF Fits
  <1>5. CASE Acc!End(t)
    <2>1. Stored'
          BY <1>2, <1>5, Freed DEF Acc!End, Stored, AccTyped
    <2>. QED  BY <1>1, <1>2, <1>4, <1>5, <2>1, EndsHere
  <1>6. CASE row[i] = "oauth" /\ Acc!Go(t, "convert") /\ UNCHANGED holder
    <2>1. Stored' /\ "convert" \in AccPlaces
          BY <1>2, <1>6 DEF Stored, AccTyped, AccPlaces
    <2>2. Local(t, i) /\ Holds(t)' /\ task'[t].at = "convert" /\ task'[t].id = i
          BY <1>1, <1>2, <1>6, <2>1, GoesOn
    <2>3. Reversible(t)' /\ Present(t)'
          BY <1>2, <1>6, <2>2 DEF Reversible, Present, Undoing, Acc!Of
    <2>. QED  BY <1>4, <2>2, <2>3, LocalKeeps
  <1>7. CASE /\ row[i] # "oauth" /\ UNCHANGED holder
             /\ task' = [task EXCEPT ![t].at = "secret", ![t].new = Acc!Password(2),
                                     ![t].old = vault[i]]
    <2>1. PICK pw \in Secrets : pw = Acc!Password(2) /\ pw.kind = "password"
          BY SecretKinds
    <2>. DEFINE l == [task[t] EXCEPT !.at = "secret", !.new = pw, !.old = vault[i]]
    <2>2. task' = [task EXCEPT ![t] = l]
          BY <1>2, <1>7, <2>1 DEF AccTyped
    <2>3. /\ l \in AccLocals /\ l.at = "secret" /\ l.id = i /\ l.new = pw /\ l.old = vault[i]
          BY <1>1, <1>2 DEF AccTyped, AccLocals, AccPlaces, Undoing, Acc!Of
    <2>4. Stored' /\ "secret" \in Role(t)
          BY <1>2, <1>7 DEF Stored, AccTyped, Role, AccPlaces, Undoing
    <2>. HIDE DEF l
    <2>5. AccTyped' /\ OnlyMoves(t, l)
          BY <1>2, <2>2, <2>3, <2>4, Moved
    <2>6. /\ task'[t].at = "secret" /\ task'[t].id = i /\ task'[t].new = pw
          /\ task'[t].old = vault[i] /\ \A x \in Acc!Tasks \ {t} : task'[x] = task[x]
          BY <2>3, <2>5 DEF OnlyMoves
    <2>7. row[i] # "oauth" /\ holder' = holder
          BY <1>7
    <2>8. Local(t, i)
      <3>1. \A x \in Commands \ {t} : task[x].at # "idle" => Acc!Of(x) # i
            BY <1>1, <1>2, Apart
      <3>. QED  BY <1>1, <1>2, <2>5, <2>6, <2>7, <3>1 DEF Local
    <2>9. Holds(t)' /\ Present(t)'
          BY <1>3, <2>6, <2>7 DEF Holds, Present, Acc!Of
    <2>10. Reversible(t)'
      <3>1. i \notin torn => vault[i].kind = row[i]
            BY <1>3 DEF Fits
      <3>. QED  BY <1>2, <1>3, <2>1, <2>6, <2>7, <3>1 DEF Reversible, Acc!Of
    <2>. QED  BY <1>4, <2>8, <2>9, <2>10, LocalKeeps
  <1>. QED  BY <1>1, <1>5, <1>6, <1>7 DEF Acc!ReadOld

LEMMA Converted ==
    ASSUME Acc!AccountsAssumption, AccInv, NEW t \in Commands, Acc!Convert(t)
    PROVE  AccInv'
  <1>1. PICK i \in Ids : i = Acc!Of(t)
        BY DEF Acc!Convert, Acc!At, AccInv, AccTyped, AccLocals, Acc!Of, Acc!Tasks
  <1>2. /\ task[t].at = "convert" /\ UNCHANGED <<buried, grant, torn>> /\ Acc!End(t) /\ AccTyped
        BY DEF Acc!Convert, Acc!At, AccInv
  <1>3. Fits(i) /\ ~Acc!Working(i, {"delete"}) /\ row[i] = "oauth"
        BY <1>1, <1>2, Apart, Nowhere DEF Present
  <1>4. CASE /\ row' = [row EXCEPT ![i] = "password"] /\ Acc!Put(i, Acc!Password(2))
             /\ paused' = paused \ {i} /\ UNCHANGED breaks
    <2>1. PICK pw \in Secrets : pw = Acc!Password(2) /\ pw.kind = "password"
          BY SecretKinds
    <2>2. /\ vault' = [vault EXCEPT ![i] = pw]
          BY <1>4, <2>1 DEF Acc!Put
    <2>3. /\ Stored' /\ row'[i] = "password" /\ vault'[i] = pw
          /\ \A j \in Ids \ {i} : row'[j] = row[j] /\ vault'[j] = vault[j]
          BY <1>2, <1>4, <2>2, Freed DEF Acc!End, Stored, AccTyped, Acc!Tasks, Kinds
    <2>4. Fits(i)'
          BY <2>1, <2>3 DEF Fits
    <2>. QED  BY <1>1, <1>2, <2>3, <2>4, EndsHere
  <1>5. CASE Acc!Fault /\ UNCHANGED <<row, vault, paused>>
    <2>1. Stored'
          BY <1>2, <1>5, Freed DEF Acc!End, Acc!Fault, Stored, AccTyped, Acc!Tasks
    <2>2. Fits(i)'
          BY <1>2, <1>3, <1>5 DEF Fits
    <2>. QED  BY <1>1, <1>2, <1>5, <2>1, <2>2, EndsHere
  <1>. QED  BY <1>1, <1>4, <1>5 DEF Acc!Convert

LEMMA SecretDeleted ==
    ASSUME Acc!AccountsAssumption, AccInv, NEW t \in Commands, Acc!DeleteSecret(t)
    PROVE  AccInv'
  <1>1. PICK i \in Ids : i = Acc!Of(t)
        BY DEF Acc!DeleteSecret, Acc!At, AccInv, AccTyped, AccLocals, Acc!Of, Acc!Tasks
  <1>2. /\ task[t].at = "forget" /\ UNCHANGED <<row, buried, grant, paused>> /\ AccTyped
        BY DEF Acc!DeleteSecret, Acc!At, AccInv
  <1>3. Fits(i) /\ ~Acc!Working(i, {"delete"}) /\ row[i] # "none"
        BY <1>1, <1>2, Apart, Nowhere DEF Present
  <1>4. CASE Acc!Put(i, Acc!NoSecret) /\ Acc!Go(t, "delete") /\ UNCHANGED <<holder, breaks, torn>>
    <2>1. PICK no \in Secrets : no = Acc!NoSecret
          BY SecretKinds
    <2>2. vault' = [vault EXCEPT ![i] = no]
          BY <1>4, <2>1 DEF Acc!Put
    <2>3. Stored' /\ \A j \in Ids \ {i} : vault'[j] = vault[j]
          BY <1>2, <1>4, <2>2 DEF Stored, AccTyped
    <2>4. "delete" \in AccPlaces
          BY DEF AccPlaces
    <2>5. Local(t, i) /\ Holds(t)' /\ task'[t].at = "delete" /\ task'[t].id = i
          BY <1>1, <1>2, <1>4, <2>3, <2>4, GoesOn
    <2>6. Reversible(t)' /\ Present(t)'
          BY <1>2, <1>3, <2>5 DEF Reversible, Present, Undoing, Acc!Of
    <2>7. Acc!Working(i, {"delete"})'
          BY <2>5, Here DEF Acc!Tasks
    <2>8. Fits(i)'
          BY <1>2, <1>3, <2>7 DEF Fits
    <2>. QED  BY <2>5, <2>6, <2>8, LocalKeeps
  <1>5. CASE Acc!Fault /\ Acc!End(t) /\ UNCHANGED <<vault, torn>>
    <2>1. Stored'
          BY <1>2, <1>5, Freed DEF Acc!End, Acc!Fault, Stored, AccTyped, Acc!Tasks
    <2>2. Fits(i)'
          BY <1>2, <1>3, <1>5 DEF Fits
    <2>. QED  BY <1>1, <1>2, <1>5, <2>1, <2>2, EndsHere
  <1>. QED  BY <1>1, <1>4, <1>5 DEF Acc!DeleteSecret

LEMMA RowDeleted ==
    ASSUME Acc!AccountsAssumption, AccInv, NEW t \in Commands, Acc!DeleteRow(t)
    PROVE  AccInv'
  <1>1. PICK i \in Ids : i = Acc!Of(t)
        BY DEF Acc!DeleteRow, Acc!At, AccInv, AccTyped, AccLocals, Acc!Of, Acc!Tasks
  <1>2. /\ task[t].at = "delete" /\ UNCHANGED <<vault, grant, paused>> /\ Acc!End(t) /\ AccTyped
        BY DEF Acc!DeleteRow, Acc!At, AccInv
  <1>3. CASE /\ row' = [row EXCEPT ![i] = "none"] /\ buried' = buried \cup {i}
             /\ UNCHANGED <<breaks, torn>>
    <2>1. Stored' /\ row'[i] = "none" /\ \A j \in Ids \ {i} : row'[j] = row[j]
          BY <1>2, <1>3, Freed DEF Acc!End, Stored, AccTyped, Acc!Tasks, Kinds
    <2>2. Fits(i)'
          BY <1>3, <2>1 DEF Fits
    <2>. QED  BY <1>1, <1>2, <1>3, <2>1, <2>2, EndsHere
  <1>4. CASE Acc!Fault /\ torn' = torn \cup {i} /\ UNCHANGED <<row, buried>>
    <2>1. Stored'
          BY <1>2, <1>4, Freed DEF Acc!End, Acc!Fault, Stored, AccTyped, Acc!Tasks
    <2>2. Fits(i)'
          BY <1>4 DEF Fits
    <2>. QED  BY <1>1, <1>2, <1>4, <2>1, <2>2, EndsHere
  <1>. QED  BY <1>1, <1>3, <1>4 DEF Acc!DeleteRow

(* A reader loads the tokens.                                               *)
LEMMA UseStarts ==
    ASSUME Acc!AccountsAssumption, AccInv, NEW t \in Readers, NEW i \in Ids, Acc!StartUse(t, i)
    PROVE  AccInv'
  <1>1. /\ t \in Acc!Tasks /\ t \notin Commands /\ AccTyped
        /\ UNCHANGED <<row, buried, vault, holder, grant, paused, breaks, torn>>
        BY DEF Acc!StartUse, Acc!Tasks, Acc!AccountsAssumption, AccInv
  <1>2. PICK s \in Secrets : s = vault[i]
        BY <1>1 DEF AccTyped
  <1>. DEFINE l == [Acc!Idle EXCEPT !.at = "expired", !.id = i, !.old = s]
  <1>3. l \in AccLocals /\ l.at = "expired" /\ l.at \in Role(t)
        BY <1>1, IdleTyped DEF AccLocals, Role
  <1>4. task' = [task EXCEPT ![t] = l] /\ Stored'
        BY <1>1, <1>2 DEF Acc!StartUse, AccTyped, Stored
  <1>. HIDE DEF l
  <1>5. AccTyped' /\ OnlyMoves(t, l)
        BY <1>1, <1>3, <1>4, Moved
  <1>6. UseOnly(t) /\ Refreshed(t)'
        BY <1>1, <1>3, <1>5 DEF UseOnly, Refreshed, OnlyMoves
  <1>. QED  BY <1>1, <1>6, AsideKeeps

LEMMA Refreshes ==
    ASSUME Acc!AccountsAssumption, AccInv, NEW t \in Readers, Acc!Refresh(t)
    PROVE  AccInv'
  <1>1. /\ t \in Acc!Tasks /\ t \notin Commands /\ AccTyped /\ task[t] \in AccLocals
        /\ Acc!Of(t) \in Ids
        /\ UNCHANGED <<row, buried, vault, breaks, torn>>
        BY DEF Acc!Refresh, Acc!Tasks, Acc!AccountsAssumption, AccInv, AccTyped, AccLocals, Acc!Of
  <1>2. CASE /\ grant' \in {grant} \cup {grant + 1}
             /\ task' = [task EXCEPT ![t].at = "store", ![t].new = Acc!Token(grant')]
             /\ UNCHANGED <<paused, holder>>
    <2>1. grant' \in Nat
          BY <1>1, <1>2 DEF AccTyped
    <2>2. PICK n \in Secrets : n = Acc!Token(grant') /\ n.kind = "oauth"
          BY <2>1, SecretKinds
    <2>. DEFINE l == [task[t] EXCEPT !.at = "store", !.new = n]
    <2>3. l \in AccLocals /\ l.at = "store" /\ l.new = n /\ l.at \in Role(t)
          BY <1>1 DEF AccLocals, Role
    <2>4. task' = [task EXCEPT ![t] = l] /\ Stored'
          BY <1>1, <1>2, <2>1, <2>2 DEF AccTyped, Stored
    <2>. HIDE DEF l
    <2>5. AccTyped' /\ OnlyMoves(t, l)
          BY <1>1, <2>3, <2>4, Moved
    <2>6. UseOnly(t) /\ Refreshed(t)'
          BY <1>1, <1>2, <2>2, <2>3, <2>5 DEF UseOnly, Refreshed, OnlyMoves
    <2>. QED  BY <1>1, <2>6, AsideKeeps
  <1>3. CASE paused' = paused \cup {Acc!Of(t)} /\ Acc!End(t) /\ UNCHANGED grant
    <2>1. Stored'
          BY <1>1, <1>3, Freed DEF Acc!End, AccTyped, Stored
    <2>2. AccTyped' /\ OnlyMoves(t, Acc!Idle) /\ Acc!Idle.at = "idle"
          BY <1>1, <1>3, <2>1, Ends, IdleTyped
    <2>3. \A j \in Ids : holder'[j] = holder[j] \/ holder[j] = t
          BY <1>1, <1>3, Freed DEF Acc!End
    <2>4. UseOnly(t) /\ Refreshed(t)'
          BY <1>1, <2>2, <2>3 DEF UseOnly, Refreshed, OnlyMoves
    <2>. QED  BY <1>1, <2>4, AsideKeeps
  <1>. QED  BY <1>2, <1>3 DEF Acc!Refresh

LEMMA TokensStored ==
    ASSUME Acc!AccountsAssumption, AccInv, NEW t \in Readers, Acc!StoreTokens(t)
    PROVE  AccInv'
  <1>1. /\ t \in Acc!Tasks /\ t \notin Commands /\ AccTyped /\ task[t] \in AccLocals
        /\ task[t].at = "store" /\ Acc!End(t)
        /\ UNCHANGED <<row, buried, grant, paused>>
        BY DEF Acc!StoreTokens, Acc!At, Acc!Tasks, Acc!AccountsAssumption, AccInv, AccTyped
  <1>2. PICK i \in Ids : i = Acc!Of(t)
        BY <1>1 DEF AccLocals, Acc!Of
  <1>3. PICK n \in Secrets : n = task[t].new /\ n.kind = "oauth"
        BY <1>1 DEF AccInv, Refreshed, AccLocals
  <1>4. \/ vault' = vault
        \/ row[i] = "oauth" /\ vault' = [vault EXCEPT ![i] = n]
        BY <1>2, <1>3 DEF Acc!StoreTokens, Acc!StillOAuth, Acc!Put
  <1>5. /\ vault' \in [Ids -> Secrets]
        /\ \A j \in Ids : \/ vault'[j] = vault[j]
                          \/ row[j] = "oauth" /\ vault'[j].kind = "oauth"
    <2>1. vault \in [Ids -> Secrets]
          BY <1>1 DEF AccTyped
    <2>2. CASE vault' = vault
          BY <2>1, <2>2
    <2>3. CASE row[i] = "oauth" /\ vault' = [vault EXCEPT ![i] = n]
          BY <1>3, <2>1, <2>3
    <2>. QED  BY <1>4, <2>2, <2>3
  <1>6. torn \subseteq torn' /\ torn' \in SUBSET Ids /\ breaks' \in Nat
        BY <1>1, <1>2 DEF Acc!StoreTokens, Acc!Fault, AccTyped
  <1>7. Stored'
        BY <1>1, <1>5, <1>6, Freed DEF Acc!End, AccTyped, Stored
  <1>8. AccTyped' /\ OnlyMoves(t, Acc!Idle) /\ Acc!Idle.at = "idle"
        BY <1>1, <1>7, Ends, IdleTyped
  <1>9. \A j \in Ids : holder'[j] = holder[j] \/ holder[j] = t
        BY <1>1, Freed DEF Acc!End
  <1>10. UseOnly(t) /\ Refreshed(t)'
        BY <1>1, <1>6, <1>8, <1>9 DEF UseOnly, Refreshed, OnlyMoves
  <1>. QED  BY <1>5, <1>10, AsideKeeps

LEMMA RevokedKeeps ==
    ASSUME AccInv, Acc!Revoke
    PROVE  AccInv'
  <1>1. /\ UNCHANGED <<row, buried, vault, holder, task, paused, breaks, torn>>
        /\ grant' = 0 /\ AccTyped
        BY DEF Acc!Revoke, AccInv
  <1>2. AccTyped'
        BY <1>1 DEF AccTyped
  <1>. QED  BY <1>1, <1>2 DEF AccInv, Holds, Reversible, Present, Refreshed, Fits, Acc!Working, Acc!Of

(* A crash counts everything that was going on as torn.                     *)
LEMMA CrashKeeps ==
    ASSUME Acc!AccountsAssumption, AccInv, Acc!Crash
    PROVE  AccInv'
  <1>1. /\ AccTyped /\ Acc!Idle \in AccLocals /\ Acc!Idle.at = "idle"
        /\ UNCHANGED <<row, buried, vault, grant>>
        /\ task' = [t \in Acc!Tasks |-> Acc!Idle] /\ holder' = [i \in Ids |-> Acc!NoTask]
        /\ paused' = {} /\ breaks' \in Nat
        BY IdleTyped DEF Acc!Crash, Acc!Fault, AccInv, AccTyped
  <1>2. \A t \in Acc!Tasks : task[t].at # "idle" => Acc!Of(t) \in torn'
        BY DEF Acc!Crash, Acc!At
  <1>3. torn' \in SUBSET Ids /\ torn \subseteq torn'
        BY <1>1 DEF Acc!Crash, AccTyped, Acc!Of, AccLocals
  <1>4. \A t \in Acc!Tasks : task'[t].at = "idle"
        BY <1>1
  <1>5. AccTyped'
    <2>1. task' \in [Acc!Tasks -> AccLocals] /\ holder' \in [Ids -> Acc!Tasks \cup {Acc!NoTask}]
          BY <1>1
    <2>2. /\ \A t \in Commands : task'[t].at \in AccPlaces
          /\ \A t \in Readers : task'[t].at \in {"idle", "expired", "store"}
          BY <1>4 DEF Acc!Tasks, AccPlaces
    <2>. QED  BY <1>1, <1>3, <2>1, <2>2 DEF AccTyped
  <1>6. ASSUME NEW t \in Commands PROVE Holds(t)' /\ Reversible(t)' /\ Present(t)'
        BY <1>4 DEF Acc!Tasks, Holds, Reversible, Present, Undoing
  <1>7. ASSUME NEW t \in Readers PROVE Refreshed(t)'
        BY <1>4 DEF Acc!Tasks, Refreshed
  <1>8. ASSUME NEW i \in Ids PROVE Fits(i)'
    <2>1. ASSUME i \notin torn', NEW at \in {{"delete"}, {"row", "undo"}}
          PROVE  ~Acc!Working(i, at)
          BY <1>2, <2>1 DEF Acc!Working
    <2>2. Fits(i) /\ (i \notin torn' => i \notin torn)
          BY <1>3 DEF AccInv
    <2>. QED  BY <1>1, <2>1, <2>2 DEF Fits
  <1>. QED  BY <1>5, <1>6, <1>7, <1>8 DEF AccInv

-----------------------------------------------------------------------------
(* The theorems *)

LEMMA StartsSound ==
    ASSUME Acc!AccountsAssumption, Acc!Init
    PROVE  AccInv
  <1>1. PICK auth \in {"password", "oauth"} :
           /\ row = [i \in Ids |-> IF i = First THEN auth ELSE "none"]
           /\ vault = [i \in Ids |-> IF i = First THEN [kind |-> auth, v |-> 1] ELSE Acc!NoSecret]
           /\ buried = {} /\ holder = [i \in Ids |-> Acc!NoTask]
           /\ task = [t \in Acc!Tasks |-> Acc!Idle]
           /\ grant = 1 /\ paused = {} /\ breaks = 0 /\ torn = {}
        BY DEF Acc!Init
  <1>2. PICK s \in Secrets : s = [kind |-> auth, v |-> 1] /\ s.kind = auth
    <2>1. [kind |-> auth, v |-> 1] \in Secrets
          BY DEF Secrets, Kinds
    <2>. QED  BY <2>1
  <1>3. vault = [i \in Ids |-> IF i = First THEN s ELSE Acc!NoSecret] /\ vault \in [Ids -> Secrets]
        BY <1>1, <1>2, SecretKinds
  <1>4. Acc!Idle \in AccLocals /\ \A t \in Acc!Tasks : task[t].at = "idle"
        BY <1>1, IdleTyped
  <1>5. AccTyped
    <2>1. task \in [Acc!Tasks -> AccLocals] /\ row \in [Ids -> Kinds]
          BY <1>1, <1>4 DEF Kinds
    <2>. QED  BY <1>1, <1>3, <1>4, <2>1 DEF AccTyped, Acc!Tasks, AccPlaces
  <1>6. /\ \A t \in Commands : Holds(t) /\ Reversible(t) /\ Present(t)
        /\ \A t \in Readers : Refreshed(t)
        BY <1>4 DEF Acc!Tasks, Holds, Reversible, Present, Refreshed, Undoing
  <1>7. \A i \in Ids : Fits(i)
        BY <1>1, <1>2, <1>3 DEF Fits
  <1>. QED  BY <1>5, <1>6, <1>7 DEF AccInv

LEMMA StepKeeps ==
    ASSUME Acc!AccountsAssumption, AccInv, [Acc!Next]_(Acc!vars)
    PROVE  AccInv'
  <1>1. CASE UNCHANGED Acc!vars
        BY <1>1 DEF Acc!vars, AccInv, AccTyped, Holds, Reversible, Present, Refreshed, Fits,
           Acc!Working, Acc!Of
  <1>2. CASE \E t \in Commands, i \in Ids :
               Acc!StartAdd(t, i) \/ Acc!StartUpdate(t, i) \/ Acc!StartRemove(t, i)
        BY <1>2, AddStarts, LockTaken DEF Acc!StartUpdate, Acc!StartRemove
  <1>3. CASE \E t \in Commands :
               \/ Acc!WriteSecret(t) \/ Acc!WriteRow(t) \/ Acc!RollBack(t) \/ Acc!ReadOld(t)
               \/ Acc!Convert(t) \/ Acc!DeleteSecret(t) \/ Acc!DeleteRow(t)
        BY <1>3, SecretWritten, RowWritten, RolledBack, OldRead, Converted, SecretDeleted,
           RowDeleted
  <1>4. CASE \E t \in Readers, i \in Ids : Acc!StartUse(t, i)
        BY <1>4, UseStarts
  <1>5. CASE \E t \in Readers : Acc!Refresh(t) \/ Acc!StoreTokens(t)
        BY <1>5, Refreshes, TokensStored
  <1>6. CASE Acc!Revoke \/ Acc!Crash
        BY <1>6, RevokedKeeps, CrashKeeps
  <1>. QED  BY <1>1, <1>2, <1>3, <1>4, <1>5, <1>6 DEF Acc!Next

LEMMA AlwaysSound == ASSUME Acc!AccountsAssumption PROVE Acc!Spec => []AccInv
  <1>1. Acc!Init => AccInv
        BY StartsSound
  <1>2. AccInv /\ [Acc!Next]_(Acc!vars) => AccInv'
        BY StepKeeps
  <1>. QED  BY <1>1, <1>2, PTL DEF Acc!Spec

(* An account has a credential of its own kind, whatever fails while it is  *)
(* added or updated, and whatever refreshes are in flight when it turns to  *)
(* an app password (update_account, set_oauth_secret_if_current).  And a    *)
(* credential without an account is left by a crash, by a clean-up that     *)
(* failed or by a removal, never by an addition that was refused            *)
(* (add_account).                                                           *)
THEOREM CredentialsAlwaysMatch ==
    ASSUME Acc!AccountsAssumption PROVE Acc!Spec => []Acc!CredentialsMatch
  <1>1. AccInv => Acc!CredentialFits
        BY DEF AccInv, Fits, Acc!CredentialFits
  <1>2. AccInv => Acc!NoOrphan
    <2>1. ASSUME NEW i \in Ids, Acc!Working(i, {"row", "undo"})
          PROVE  Acc!Using(i)
          BY <2>1 DEF Acc!Working, Acc!Using
    <2>. QED  BY <2>1 DEF AccInv, Fits, Acc!NoOrphan
  <1>3. AccInv => Acc!CredentialsMatch
        BY <1>1, <1>2 DEF Acc!CredentialsMatch
  <1>. QED  BY <1>3, AlwaysSound, PTL
=============================================================================
