-------------------------- MODULE MailRebuildProofs --------------------------
(* What TLAPS proves of MailRebuild, for every value of its constants.      *)
EXTENDS MailRebuild, TLAPS

-----------------------------------------------------------------------------
(* The inductive invariant *)

(* The locals of a task, with any namespace number as a snapshot.           *)
Locals ==
    [op : {"none", "sync", "rebuild", "update", "remove", "reconcile", "startup"},
     at : Places, reset : BOOLEAN,
     change : {"none", "settings", "namespace", "conversion"}, snap : Nat,
     then : {"idle", "resume", "leave"}, stopped : BOOLEAN,
     end : {"none", "ok", "failed", "rejected", "cancelled"}, keep : BOOLEAN]

Shape ==
    /\ account \in Nat
    /\ lock \in Seq(Tasks)
    /\ task \in [Tasks -> Locals]
    /\ job \in Jobs /\ mem \in Jobs

(* Where a task relies on the account it has read under the operation lock. *)
Rebuilding == {"check", "begin", "sync", "settle"}
Committing == {"commit"}
Deleting   == {"delete"}

(* These places are only reached, and only left, by the holder of the lock. *)
LockHeld ==
    \A t \in Tasks :
        task[t].at \in Rebuilding \cup Committing \cup Deleting => Holds(t)

(* The account a rebuild or an update works on is not removed under it.     *)
AccountStays ==
    \A t \in Tasks : task[t].at \in Rebuilding \cup Committing => account # 0

IInv == Shape /\ LockHeld /\ AccountStays /\ RemovedIsForgotten

-----------------------------------------------------------------------------
(* The operation lock *)

(* One task at a time holds the operation lock. *)
LEMMA OneHolder ==
    ASSUME NEW t \in Tasks, NEW u \in Tasks, Holds(t), Holds(u) PROVE t = u
  BY DEF Holds

(* Queueing for the lock, and releasing it, leave every other holder alone. *)
LEMMA LockIsFifo ==
    ASSUME NEW t \in Tasks, NEW u \in Tasks, lock \in Seq(Tasks), t # u, Holds(u),
           lock' = Append(lock, t) \/ Unlock(t)
    PROVE  Holds(u)'
  <1>1. CASE lock' = Append(lock, t)
        BY <1>1 DEF Holds
  <1>2. CASE Unlock(t)
        BY <1>2 DEF Holds, Unlock
  <1>. QED  BY <1>1, <1>2

(* A step of one task keeps what the others rely on, if it leaves their     *)
(* locals and their hold on the lock alone and only removes the account     *)
(* with the lock; its own place must be justified.                          *)
LEMMA OneTaskMoves ==
    ASSUME LockHeld, AccountStays, NEW t \in Tasks,
           \A u \in Tasks \ {t} : task'[u] = task[u],
           \A u \in Tasks \ {t} : Holds(u) => Holds(u)',
           account' # 0 \/ account' = account \/ Holds(t),
           task'[t].at \in Rebuilding \cup Committing \cup Deleting => Holds(t)',
           task'[t].at \in Rebuilding \cup Committing => account' # 0
    PROVE  LockHeld' /\ AccountStays'
  <1>1. LockHeld'
        BY DEF LockHeld
  <1>2. ASSUME NEW u \in Tasks \ {t}, task'[u].at \in Rebuilding \cup Committing
        PROVE  account' # 0
    <2>1. Holds(u) /\ account # 0
          BY <1>2 DEF LockHeld, AccountStays
    <2>. QED  BY <2>1, OneHolder
  <1>3. AccountStays'
        BY <1>2 DEF AccountStays
  <1>. QED  BY <1>1, <1>3

(* The start of the process satisfies the invariant. *)
LEMMA InitIInv == Init => IInv
  <1>. SUFFICES ASSUME Init PROVE IInv
       OBVIOUS
  <1>1. PICK s \in Tasks :
            task = [t \in Tasks |-> IF t = s THEN [Idle EXCEPT !.op = "startup",
                                                              !.at = "startup"]
                                    ELSE Idle]
        BY DEF Init
  <1>2. task \in [Tasks -> Locals]
        BY <1>1 DEF Idle, Locals, Places
  <1>3. Shape
        BY <1>2, RebuildAssumption DEF Init, Shape, Jobs
  <1>4. \A t \in Tasks : task[t].at \in {"idle", "startup"}
        BY <1>1 DEF Idle
  <1>5. LockHeld /\ AccountStays
        BY <1>4 DEF LockHeld, AccountStays, Rebuilding, Committing, Deleting
  <1>. QED  BY <1>3, <1>5 DEF Init, IInv, RemovedIsForgotten

(* The task moves on to a place, with locals of their types. *)
Moves(t, p) == \E l \in Locals : l.at = p /\ Now(t, l)

(* What the actions do to the locals of a task makes locals again. *)
LEMMA LocalsUpdates ==
    ASSUME NEW l \in Locals, NEW p \in Places
    PROVE  /\ [l EXCEPT !.at = p] \in Locals
           /\ \A b \in BOOLEAN : /\ [l EXCEPT !.reset = b, !.at = p] \in Locals
                                 /\ [l EXCEPT !.keep = b, !.at = p] \in Locals
                                 /\ [l EXCEPT !.stopped = b, !.at = p] \in Locals
           /\ \A e \in {"none", "ok", "failed", "rejected", "cancelled"} :
                [l EXCEPT !.end = e, !.at = p] \in Locals
           /\ \A n \in Nat : [l EXCEPT !.snap = n, !.at = p] \in Locals
           /\ \A next \in {"idle", "resume", "leave"} :
                [l EXCEPT !.at = p, !.then = next] \in Locals
           /\ [l EXCEPT !.op = "rebuild", !.at = p] \in Locals
  <1>1. [l EXCEPT !.at = p] \in Locals
        BY DEF Locals
  <1>2. ASSUME NEW b \in BOOLEAN PROVE [l EXCEPT !.reset = b, !.at = p] \in Locals
        BY DEF Locals
  <1>3. ASSUME NEW b \in BOOLEAN PROVE [l EXCEPT !.keep = b, !.at = p] \in Locals
        BY DEF Locals
  <1>4. ASSUME NEW b \in BOOLEAN PROVE [l EXCEPT !.stopped = b, !.at = p] \in Locals
        BY DEF Locals
  <1>5. ASSUME NEW e \in {"none", "ok", "failed", "rejected", "cancelled"}
        PROVE  [l EXCEPT !.end = e, !.at = p] \in Locals
        BY DEF Locals
  <1>6. ASSUME NEW n \in Nat PROVE [l EXCEPT !.snap = n, !.at = p] \in Locals
        BY DEF Locals
  <1>7. ASSUME NEW next \in {"idle", "resume", "leave"}
        PROVE  [l EXCEPT !.at = p, !.then = next] \in Locals
        BY DEF Locals
  <1>8. [l EXCEPT !.op = "rebuild", !.at = p] \in Locals
        BY DEF Locals
  <1>. QED  BY <1>1, <1>2, <1>3, <1>4, <1>5, <1>6, <1>7, <1>8

(* The place they come to is p. *)
LEMMA MovesTo ==
    ASSUME NEW t \in Tasks, NEW p \in Places, NEW l \in Locals, l.at = p, Now(t, l)
    PROVE  Moves(t, p)
  BY DEF Moves

(* A plain change of place is a move.                                       *)
LEMMA GoMoves ==
    ASSUME task \in [Tasks -> Locals], NEW t \in Tasks, NEW p \in Places, Go(t, p)
    PROVE  Moves(t, p)
  <1>. DEFINE l == [task[t] EXCEPT !.at = p]
  <1>1. task[t] \in Locals
        OBVIOUS
  <1>2. l \in Locals
        BY <1>1, LocalsUpdates
  <1>3. l.at = p
        BY <1>1 DEF Locals
  <1>4. Now(t, l)
        BY DEF Go
  <1>. HIDE DEF l
  <1>. QED  BY <1>2, <1>3, <1>4, MovesTo

(* So does a change of place with a boolean local. *)
LEMMA BooleanMoves ==
    ASSUME task \in [Tasks -> Locals], NEW t \in Tasks, NEW p \in Places,
           NEW b \in BOOLEAN,
           \/ Now(t, [task[t] EXCEPT !.reset = b, !.at = p])
           \/ Now(t, [task[t] EXCEPT !.keep = b, !.at = p])
           \/ Now(t, [task[t] EXCEPT !.stopped = b, !.at = p])
    PROVE  Moves(t, p)
  <1>0. task[t] \in Locals
        OBVIOUS
  <1>1. CASE Now(t, [task[t] EXCEPT !.reset = b, !.at = p])
    <2>. DEFINE l == [task[t] EXCEPT !.reset = b, !.at = p]
    <2>1. l \in Locals
          BY <1>0, LocalsUpdates
    <2>2. l.at = p
          BY <1>0 DEF Locals
    <2>3. Now(t, l)
          BY <1>1
    <2>. HIDE DEF l
    <2>. QED  BY <2>1, <2>2, <2>3, MovesTo
  <1>2. CASE Now(t, [task[t] EXCEPT !.keep = b, !.at = p])
    <2>. DEFINE l == [task[t] EXCEPT !.keep = b, !.at = p]
    <2>1. l \in Locals
          BY <1>0, LocalsUpdates
    <2>2. l.at = p
          BY <1>0 DEF Locals
    <2>3. Now(t, l)
          BY <1>2
    <2>. HIDE DEF l
    <2>. QED  BY <2>1, <2>2, <2>3, MovesTo
  <1>3. CASE Now(t, [task[t] EXCEPT !.stopped = b, !.at = p])
    <2>. DEFINE l == [task[t] EXCEPT !.stopped = b, !.at = p]
    <2>1. l \in Locals
          BY <1>0, LocalsUpdates
    <2>2. l.at = p
          BY <1>0 DEF Locals
    <2>3. Now(t, l)
          BY <1>3
    <2>. HIDE DEF l
    <2>. QED  BY <2>1, <2>2, <2>3, MovesTo
  <1>. QED  BY <1>1, <1>2, <1>3

(* So does a change of place with an outcome, a snapshot, a continuation    *)
(* or a new role.                                                           *)
LEMMA ValueMoves ==
    ASSUME task \in [Tasks -> Locals], NEW t \in Tasks, NEW p \in Places,
           \/ \E e \in {"none", "ok", "failed", "rejected", "cancelled"} :
                 Now(t, [task[t] EXCEPT !.end = e, !.at = p])
           \/ \E n \in Nat : Now(t, [task[t] EXCEPT !.snap = n, !.at = p])
           \/ \E next \in {"idle", "resume", "leave"} : Then(t, p, next)
           \/ Now(t, [task[t] EXCEPT !.op = "rebuild", !.at = p])
    PROVE  Moves(t, p)
  <1>0. task[t] \in Locals
        OBVIOUS
  <1>1. ASSUME NEW e \in {"none", "ok", "failed", "rejected", "cancelled"},
               Now(t, [task[t] EXCEPT !.end = e, !.at = p])
        PROVE  Moves(t, p)
    <2>. DEFINE l == [task[t] EXCEPT !.end = e, !.at = p]
    <2>1. l \in Locals
          BY <1>0, LocalsUpdates
    <2>2. l.at = p
          BY <1>0 DEF Locals
    <2>3. Now(t, l)
          BY <1>1
    <2>. HIDE DEF l
    <2>. QED  BY <2>1, <2>2, <2>3, MovesTo
  <1>2. ASSUME NEW n \in Nat, Now(t, [task[t] EXCEPT !.snap = n, !.at = p])
        PROVE  Moves(t, p)
    <2>. DEFINE l == [task[t] EXCEPT !.snap = n, !.at = p]
    <2>1. l \in Locals
          BY <1>0, LocalsUpdates
    <2>2. l.at = p
          BY <1>0 DEF Locals
    <2>3. Now(t, l)
          BY <1>2
    <2>. HIDE DEF l
    <2>. QED  BY <2>1, <2>2, <2>3, MovesTo
  <1>3. ASSUME NEW next \in {"idle", "resume", "leave"}, Then(t, p, next)
        PROVE  Moves(t, p)
    <2>. DEFINE l == [task[t] EXCEPT !.at = p, !.then = next]
    <2>1. l \in Locals
          BY <1>0, LocalsUpdates
    <2>2. l.at = p
          BY <1>0 DEF Locals
    <2>3. Now(t, l)
          BY <1>3 DEF Then
    <2>. HIDE DEF l
    <2>. QED  BY <2>1, <2>2, <2>3, MovesTo
  <1>4. CASE Now(t, [task[t] EXCEPT !.op = "rebuild", !.at = p])
    <2>. DEFINE l == [task[t] EXCEPT !.op = "rebuild", !.at = p]
    <2>1. l \in Locals
          BY <1>0, LocalsUpdates
    <2>2. l.at = p
          BY <1>0 DEF Locals
    <2>3. Now(t, l)
          BY <1>4
    <2>. HIDE DEF l
    <2>. QED  BY <2>1, <2>2, <2>3, MovesTo
  <1>. QED  BY <1>1, <1>2, <1>3, <1>4

(* So does a task that starts, or ends, an operation. *)
LEMMA IdleMoves ==
    ASSUME NEW t \in Tasks, NEW p \in Places,
           \/ Now(t, [Idle EXCEPT !.op = "sync", !.at = p])
           \/ \E b \in BOOLEAN :
                 Now(t, [Idle EXCEPT !.op = "rebuild", !.at = p, !.reset = b])
           \/
                 Now(t, [Idle EXCEPT !.op = "reconcile", !.at = p, !.then = "leave"])
           \/ \E c \in {"none", "settings", "namespace", "conversion"},
                op \in {"update", "remove"} :
                 Now(t, [Idle EXCEPT !.op = op, !.at = p, !.change = c])
           \/ p = "idle" /\ Done(t)
    PROVE  Moves(t, p)
  BY DEF Moves, Idle, Done, Locals

(* A move changes the locals of one task only. *)
LEMMA MovesTyped ==
    ASSUME task \in [Tasks -> Locals], NEW t \in Tasks, NEW p, Moves(t, p)
    PROVE  /\ task' \in [Tasks -> Locals]
           /\ task'[t].at = p
           /\ \A u \in Tasks \ {t} : task'[u] = task[u]
  BY DEF Moves, Now

(* Every step of a task keeps the invariant. *)
LEMMA StepIInv ==
    ASSUME IInv, NEW t \in Tasks,
           Step(t) \/ SyncAccount(t) \/ StartUpdate(t) \/ StartRemove(t)
             \/ StartReconcile(t)
    PROVE  IInv'
  <1>. USE
     DEF IInv, Shape, RemovedIsForgotten, Jobs, Rebuilding, Committing, Deleting,
              durable, shared
  <1>0. task[t] \in Locals /\ Idle \in Locals
        BY DEF Idle, Locals, Places
  <1>1. CASE Resume(t)
    <2>1. {"leave", "entry"} \subseteq Places
          BY DEF Places
    <2>2. Moves(t, "leave") \/ Moves(t, "entry")
          BY <1>1, <1>0, <2>1, GoMoves, BooleanMoves DEF Resume
    <2>3. lock' \in Seq(Tasks)
          BY <1>1 DEF Resume
    <2>4. account' \in Nat /\ job' \in Jobs /\ mem' \in Jobs
          BY <1>1 DEF Resume
    <2>5. account' = 0 => job' = "none"
          BY <1>1 DEF Resume
    <2>6. LockHeld' /\ AccountStays'
          BY <1>1, <2>2, MovesTyped, OneTaskMoves DEF Resume, Holds
    <2>. QED  BY <2>2, <2>3, <2>4, <2>5, <2>6, MovesTyped
  <1>2. CASE ReserveChannel(t)
    <2>0. task[t].reset \in BOOLEAN
          BY <1>0 DEF Locals
    <2>1. {"lookup", "register"} \subseteq Places
          BY DEF Places
    <2>2. Moves(t, "lookup") \/ Moves(t, "register")
          BY <1>2, <1>0, <2>0, <2>1, GoMoves, IdleMoves DEF ReserveChannel
    <2>3. lock' \in Seq(Tasks)
          BY <1>2 DEF ReserveChannel, Unlock, Holds
    <2>4. account' \in Nat /\ job' \in Jobs /\ mem' \in Jobs
          BY <1>2 DEF ReserveChannel
    <2>5. account' = 0 => job' = "none"
          BY <1>2 DEF ReserveChannel
    <2>6. LockHeld' /\ AccountStays'
          BY <1>2, <2>2, MovesTyped, OneTaskMoves, LockIsFifo
             DEF ReserveChannel, Holds, Unlock
    <2>. QED  BY <2>2, <2>3, <2>4, <2>5, <2>6, MovesTyped
  <1>3. CASE Lookup(t)
    <2>1. {"release", "schedule"} \subseteq Places
          BY DEF Places
    <2>2. Moves(t, "release") \/ Moves(t, "schedule")
          BY <1>3, <1>0, <2>1, GoMoves, BooleanMoves DEF Lookup
    <2>3. lock' \in Seq(Tasks)
          BY <1>3 DEF Lookup
    <2>4. account' \in Nat /\ job' \in Jobs /\ mem' \in Jobs
          BY <1>3 DEF Lookup
    <2>5. account' = 0 => job' = "none"
          BY <1>3 DEF Lookup
    <2>6. LockHeld' /\ AccountStays'
          BY <1>3, <2>2, MovesTyped, OneTaskMoves DEF Lookup, Holds
    <2>. QED  BY <2>2, <2>3, <2>4, <2>5, <2>6, MovesTyped
  <1>4. CASE Schedule(t)
    <2>1. {"register", "release"} \subseteq Places
          BY DEF Places
    <2>2. Moves(t, "register") \/ Moves(t, "release")
          BY <1>4, <1>0, <2>1, GoMoves, ValueMoves DEF Schedule
    <2>3. lock' \in Seq(Tasks)
          BY <1>4 DEF Schedule
    <2>4. account' \in Nat /\ job' \in Jobs /\ mem' \in Jobs
          BY <1>4 DEF Schedule, Kind
    <2>5. account' = 0 => job' = "none"
          BY <1>4 DEF Schedule, Kind, AccountExists
    <2>6. LockHeld' /\ AccountStays'
          BY <1>4, <2>2, MovesTyped, OneTaskMoves DEF Schedule, Holds
    <2>. QED  BY <2>2, <2>3, <2>4, <2>5, <2>6, MovesTyped
  <1>5. CASE Register(t)
    <2>1. {"wait"} \subseteq Places
          BY DEF Places
    <2>2. Moves(t, "wait")
          BY <1>5, <1>0, <2>1, GoMoves DEF Register
    <2>3. lock' \in Seq(Tasks)
          BY <1>5 DEF Register
    <2>4. account' \in Nat /\ job' \in Jobs /\ mem' \in Jobs
          BY <1>5 DEF Register
    <2>5. account' = 0 => job' = "none"
          BY <1>5 DEF Register
    <2>6. LockHeld' /\ AccountStays'
          BY <1>5, <2>2, MovesTyped, OneTaskMoves, LockIsFifo
             DEF Register, Holds
    <2>. QED  BY <2>2, <2>3, <2>4, <2>5, <2>6, MovesTyped
  <1>6. CASE Enter(t)
    <2>1. {"clear", "check"} \subseteq Places
          BY DEF Places
    <2>2. Moves(t, "clear") \/ (account # 0 /\ Moves(t, "check"))
          BY <1>6, <1>0, <2>1, GoMoves, BooleanMoves DEF Enter
    <2>3. lock' \in Seq(Tasks)
          BY <1>6 DEF Enter
    <2>4. account' \in Nat /\ job' \in Jobs /\ mem' \in Jobs
          BY <1>6 DEF Enter
    <2>5. account' = 0 => job' = "none"
          BY <1>6 DEF Enter
    <2>6. LockHeld' /\ AccountStays'
      <3>1. Holds(t) /\ Holds(t)' /\ account' = account
            BY <1>6 DEF Enter, Holds
      <3>2. \A u \in Tasks : Holds(u) => Holds(u)'
            BY <1>6 DEF Enter, Holds
      <3>3. CASE Moves(t, "clear")
            BY <3>2, <3>3, <3>1, MovesTyped, OneTaskMoves
      <3>4. ASSUME account # 0, Moves(t, "check") PROVE LockHeld' /\ AccountStays'
            BY <3>1, <3>2, <3>4, MovesTyped, OneTaskMoves
      <3>. QED  BY <2>2, <3>3, <3>4
    <2>. QED  BY <2>2, <2>3, <2>4, <2>5, <2>6, MovesTyped
  <1>7. CASE Check(t)
    <2>1. {"settle", "begin"} \subseteq Places
          BY DEF Places
    <2>2. Moves(t, "settle") \/ Moves(t, "begin")
          BY <1>7, <1>0, <2>1, BooleanMoves, ValueMoves DEF Check
    <2>3. lock' \in Seq(Tasks)
          BY <1>7 DEF Check
    <2>4. account' \in Nat /\ job' \in Jobs /\ mem' \in Jobs
          BY <1>7 DEF Check
    <2>5. account' = 0 => job' = "none"
          BY <1>7 DEF Check
    <2>6. LockHeld' /\ AccountStays'
          BY <1>7, <2>2, MovesTyped, OneTaskMoves
             DEF Check, At, Holds, LockHeld, AccountStays
    <2>. QED  BY <2>2, <2>3, <2>4, <2>5, <2>6, MovesTyped
  <1>8. CASE Begin(t)
    <2>1. {"sync", "settle"} \subseteq Places
          BY DEF Places
    <2>2. Moves(t, "sync") \/ Moves(t, "settle")
          BY <1>8, <1>0, <2>1, GoMoves, ValueMoves DEF Begin
    <2>3. lock' \in Seq(Tasks)
          BY <1>8 DEF Begin
    <2>4. account' \in Nat /\ job' \in Jobs /\ mem' \in Jobs
          BY <1>8 DEF Begin, Kind
    <2>5. account' = 0 => job' = "none"
          BY <1>8 DEF Begin, Kind, At, AccountStays
    <2>6. LockHeld' /\ AccountStays'
          BY <1>8, <2>2, MovesTyped, OneTaskMoves
             DEF Begin, At, Holds, LockHeld, AccountStays
    <2>. QED  BY <2>2, <2>3, <2>4, <2>5, <2>6, MovesTyped
  <1>9. CASE Rebuild(t)
    <2>1. {"settle"} \subseteq Places
          BY DEF Places
    <2>2. Moves(t, "settle")
          BY <1>9, <1>0, <2>1, ValueMoves DEF Rebuild
    <2>3. lock' \in Seq(Tasks)
          BY <1>9 DEF Rebuild
    <2>4. account' \in Nat /\ job' \in Jobs /\ mem' \in Jobs
          BY <1>9 DEF Rebuild
    <2>5. account' = 0 => job' = "none"
          BY <1>9 DEF Rebuild
    <2>6. LockHeld' /\ AccountStays'
          BY <1>9, <2>2, MovesTyped, OneTaskMoves
             DEF Rebuild, At, Holds, LockHeld, AccountStays
    <2>. QED  BY <2>2, <2>3, <2>4, <2>5, <2>6, MovesTyped
  <1>10. CASE Settle(t)
    <2>1. {"restart"} \subseteq Places
          BY DEF Places
    <2>2. Moves(t, "restart")
          BY <1>10, <1>0, <2>1, BooleanMoves DEF Settle
    <2>3. lock' \in Seq(Tasks)
          BY <1>10 DEF Settle
    <2>4. account' \in Nat /\ job' \in Jobs /\ mem' \in Jobs
          BY <1>10 DEF Settle, Kind
    <2>5. account' = 0 => job' = "none"
          BY <1>10 DEF Settle, Kind, At, AccountStays
    <2>6. LockHeld' /\ AccountStays'
          BY <1>10, <2>2, MovesTyped, OneTaskMoves
             DEF Settle, At, Holds, LockHeld, AccountStays
    <2>. QED  BY <2>2, <2>3, <2>4, <2>5, <2>6, MovesTyped
  <1>11. CASE Restart(t)
    <2>1. {"clear"} \subseteq Places
          BY DEF Places
    <2>2. Moves(t, "clear")
          BY <1>11, <1>0, <2>1, GoMoves DEF Restart
    <2>3. lock' \in Seq(Tasks)
          BY <1>11 DEF Restart
    <2>4. account' \in Nat /\ job' \in Jobs /\ mem' \in Jobs
          BY <1>11 DEF Restart
    <2>5. account' = 0 => job' = "none"
          BY <1>11 DEF Restart
    <2>6. LockHeld' /\ AccountStays'
          BY <1>11, <2>2, MovesTyped, OneTaskMoves DEF Restart, Holds
    <2>. QED  BY <2>2, <2>3, <2>4, <2>5, <2>6, MovesTyped
  <1>12. CASE Clear(t)
    <2>1. {"release"} \subseteq Places
          BY DEF Places
    <2>2. Moves(t, "release")
          BY <1>12, <1>0, <2>1, GoMoves DEF Clear
    <2>3. lock' \in Seq(Tasks)
          BY <1>12 DEF Clear
    <2>4. account' \in Nat /\ job' \in Jobs /\ mem' \in Jobs
          BY <1>12 DEF Clear
    <2>5. account' = 0 => job' = "none"
          BY <1>12 DEF Clear
    <2>6. LockHeld' /\ AccountStays'
          BY <1>12, <2>2, MovesTyped, OneTaskMoves DEF Clear, Holds
    <2>. QED  BY <2>2, <2>3, <2>4, <2>5, <2>6, MovesTyped
  <1>13. CASE Release(t)
    <2>1. {"unreserve"} \subseteq Places
          BY DEF Places
    <2>2. Moves(t, "unreserve")
          BY <1>13, <1>0, <2>1, GoMoves DEF Release
    <2>3. lock' \in Seq(Tasks)
          BY <1>13 DEF Release
    <2>4. account' \in Nat /\ job' \in Jobs /\ mem' \in Jobs
          BY <1>13 DEF Release
    <2>5. account' = 0 => job' = "none"
          BY <1>13 DEF Release
    <2>6. LockHeld' /\ AccountStays'
          BY <1>13, <2>2, MovesTyped, OneTaskMoves DEF Release, Holds
    <2>. QED  BY <2>2, <2>3, <2>4, <2>5, <2>6, MovesTyped
  <1>14. CASE Unreserve(t)
    <2>1. {"idle"} \subseteq Places
          BY DEF Places
    <2>2. Moves(t, "idle")
          BY <1>14, <1>0, <2>1, IdleMoves DEF Unreserve
    <2>3. lock' \in Seq(Tasks)
          BY <1>14 DEF Unreserve, Unlock, Holds
    <2>4. account' \in Nat /\ job' \in Jobs /\ mem' \in Jobs
          BY <1>14 DEF Unreserve
    <2>5. account' = 0 => job' = "none"
          BY <1>14 DEF Unreserve
    <2>6. LockHeld' /\ AccountStays'
          BY <1>14, <2>2, MovesTyped, OneTaskMoves, LockIsFifo
             DEF Unreserve, Holds, Unlock
    <2>. QED  BY <2>2, <2>3, <2>4, <2>5, <2>6, MovesTyped
  <1>15. CASE Queue(t)
    <2>1. {"wait"} \subseteq Places
          BY DEF Places
    <2>2. Moves(t, "wait")
          BY <1>15, <1>0, <2>1, GoMoves DEF Queue
    <2>3. lock' \in Seq(Tasks)
          BY <1>15 DEF Queue
    <2>4. account' \in Nat /\ job' \in Jobs /\ mem' \in Jobs
          BY <1>15 DEF Queue
    <2>5. account' = 0 => job' = "none"
          BY <1>15 DEF Queue
    <2>6. LockHeld' /\ AccountStays'
          BY <1>15, <2>2, MovesTyped, OneTaskMoves, LockIsFifo DEF Queue, Holds
    <2>. QED  BY <2>2, <2>3, <2>4, <2>5, <2>6, MovesTyped
  <1>16. CASE EnterUpdate(t)
    <2>1. {"leave", "resume", "commit"} \subseteq Places
          BY DEF Places
    <2>2. \/ Moves(t, "leave") \/ Moves(t, "resume")
          \/ (account # 0 /\ Moves(t, "commit"))
          BY <1>16, <1>0, <2>1, GoMoves DEF EnterUpdate
    <2>3. lock' \in Seq(Tasks)
          BY <1>16 DEF EnterUpdate
    <2>4. account' \in Nat /\ job' \in Jobs /\ mem' \in Jobs
          BY <1>16 DEF EnterUpdate
    <2>5. account' = 0 => job' = "none"
          BY <1>16 DEF EnterUpdate
    <2>6. LockHeld' /\ AccountStays'
      <3>1. Holds(t) /\ Holds(t)' /\ account' = account
            BY <1>16 DEF EnterUpdate, Holds
      <3>2. \A u \in Tasks : Holds(u) => Holds(u)'
            BY <1>16 DEF EnterUpdate, Holds
      <3>3. CASE Moves(t, "leave") \/ Moves(t, "resume")
            BY <3>2, <3>3, <3>1, MovesTyped, OneTaskMoves
      <3>4. ASSUME account # 0, Moves(t, "commit") PROVE LockHeld' /\ AccountStays'
            BY <3>1, <3>2, <3>4, MovesTyped, OneTaskMoves
      <3>. QED  BY <2>2, <3>3, <3>4
    <2>. QED  BY <2>2, <2>3, <2>4, <2>5, <2>6, MovesTyped
  <1>17. CASE Commit(t)
    <2>1. {"resume", "sweep", "leave"} \subseteq Places
          BY DEF Places
    <2>2. Moves(t, "resume") \/ Moves(t, "sweep") \/ Moves(t, "leave")
          BY <1>17, <1>0, <2>1, GoMoves, ValueMoves DEF Commit
    <2>3. lock' \in Seq(Tasks)
          BY <1>17 DEF Commit
    <2>4. account' \in Nat /\ job' \in Jobs /\ mem' \in Jobs
          BY <1>17 DEF Commit, Kind
    <2>5. account' = 0 => job' = "none"
          BY <1>17 DEF Commit, Kind
    <2>6. LockHeld' /\ AccountStays'
          BY <1>17, <2>2, MovesTyped, OneTaskMoves DEF Commit, Holds
    <2>. QED  BY <2>2, <2>3, <2>4, <2>5, <2>6, MovesTyped
  <1>18. CASE EnterRemove(t)
    <2>1. {"leave", "delete"} \subseteq Places
          BY DEF Places
    <2>2. Moves(t, "leave") \/ Moves(t, "delete")
          BY <1>18, <1>0, <2>1, GoMoves DEF EnterRemove
    <2>3. lock' \in Seq(Tasks)
          BY <1>18 DEF EnterRemove
    <2>4. account' \in Nat /\ job' \in Jobs /\ mem' \in Jobs
          BY <1>18 DEF EnterRemove
    <2>5. account' = 0 => job' = "none"
          BY <1>18 DEF EnterRemove
    <2>6. LockHeld' /\ AccountStays'
          BY <1>18, <2>2, MovesTyped, OneTaskMoves
             DEF EnterRemove, At, Holds, LockHeld, AccountStays
    <2>. QED  BY <2>2, <2>3, <2>4, <2>5, <2>6, MovesTyped
  <1>19. CASE Delete(t)
    <2>1. {"sweep", "leave"} \subseteq Places
          BY DEF Places
    <2>2. Moves(t, "sweep") \/ Moves(t, "leave")
          BY <1>19, <1>0, <2>1, GoMoves, ValueMoves DEF Delete
    <2>3. lock' \in Seq(Tasks)
          BY <1>19 DEF Delete
    <2>4. account' \in Nat /\ job' \in Jobs /\ mem' \in Jobs
          BY <1>19 DEF Delete
    <2>5. account' = 0 => job' = "none"
          BY <1>19 DEF Delete
    <2>6. LockHeld' /\ AccountStays'
          BY <1>19, <2>2, MovesTyped, OneTaskMoves
             DEF Delete, At, Holds, LockHeld, AccountStays
    <2>. QED  BY <2>2, <2>3, <2>4, <2>5, <2>6, MovesTyped
  <1>20. CASE Leave(t)
    <2>1. {"idle"} \subseteq Places
          BY DEF Places
    <2>2. Moves(t, "idle")
          BY <1>20, <1>0, <2>1, IdleMoves DEF Leave
    <2>3. lock' \in Seq(Tasks)
          BY <1>20 DEF Leave, Unlock, Holds
    <2>4. account' \in Nat /\ job' \in Jobs /\ mem' \in Jobs
          BY <1>20 DEF Leave
    <2>5. account' = 0 => job' = "none"
          BY <1>20 DEF Leave
    <2>6. LockHeld' /\ AccountStays'
          BY <1>20, <2>2, MovesTyped, OneTaskMoves, LockIsFifo
             DEF Leave, Holds, Unlock
    <2>. QED  BY <2>2, <2>3, <2>4, <2>5, <2>6, MovesTyped
  <1>21. CASE Sweep(t)
    <2>0. task[t].then \in {"idle", "resume", "leave"}
          BY <1>0 DEF Locals
    <2>1. {"spawn", "idle", "resume", "leave"} \subseteq Places
          BY DEF Places
    <2>2. \/ Moves(t, "spawn") \/ Moves(t, "idle")
          \/ Moves(t, "resume") \/ Moves(t, "leave")
          BY <1>21, <1>0, <2>0, <2>1, GoMoves, ValueMoves DEF Sweep
    <2>3. lock' \in Seq(Tasks)
          BY <1>21 DEF Sweep
    <2>4. account' \in Nat /\ job' \in Jobs /\ mem' \in Jobs
          BY <1>21 DEF Sweep
    <2>5. account' = 0 => job' = "none"
          BY <1>21 DEF Sweep
    <2>6. LockHeld' /\ AccountStays'
          BY <1>21, <2>2, MovesTyped, OneTaskMoves DEF Sweep, Holds
    <2>. QED  BY <2>2, <2>3, <2>4, <2>5, <2>6, MovesTyped
  <1>22. CASE Spawn(t)
    <2>0. task[t].then \in {"idle", "resume", "leave"}
          BY <1>0 DEF Locals
    <2>1. {"idle", "resume", "leave"} \subseteq Places
          BY DEF Places
    <2>2. Moves(t, "idle") \/ Moves(t, "resume") \/ Moves(t, "leave")
          BY <1>22, <1>0, <2>0, <2>1, GoMoves DEF Spawn
    <2>3. lock' \in Seq(Tasks)
          BY <1>22 DEF Spawn
    <2>4. account' \in Nat /\ job' \in Jobs /\ mem' \in Jobs
          BY <1>22 DEF Spawn
    <2>5. account' = 0 => job' = "none"
          BY <1>22 DEF Spawn
    <2>6. LockHeld' /\ AccountStays'
          BY <1>22, <2>2, MovesTyped, OneTaskMoves DEF Spawn, Holds
    <2>. QED  BY <2>2, <2>3, <2>4, <2>5, <2>6, MovesTyped
  <1>23. CASE Startup(t)
    <2>1. {"entry", "start", "idle"} \subseteq Places
          BY DEF Places
    <2>2. Moves(t, "entry") \/ Moves(t, "start") \/ Moves(t, "idle")
          BY <1>23, <1>0, <2>1, BooleanMoves, ValueMoves, IdleMoves DEF Startup
    <2>3. lock' \in Seq(Tasks)
          BY <1>23 DEF Startup
    <2>4. account' \in Nat /\ job' \in Jobs /\ mem' \in Jobs
          BY <1>23 DEF Startup
    <2>5. account' = 0 => job' = "none"
          BY <1>23 DEF Startup
    <2>6. LockHeld' /\ AccountStays'
          BY <1>23, <2>2, MovesTyped, OneTaskMoves DEF Startup, Holds
    <2>. QED  BY <2>2, <2>3, <2>4, <2>5, <2>6, MovesTyped
  <1>24. CASE StartWatcher(t)
    <2>1. {"idle"} \subseteq Places
          BY DEF Places
    <2>2. Moves(t, "idle")
          BY <1>24, <1>0, <2>1, IdleMoves DEF StartWatcher
    <2>3. lock' \in Seq(Tasks)
          BY <1>24 DEF StartWatcher
    <2>4. account' \in Nat /\ job' \in Jobs /\ mem' \in Jobs
          BY <1>24 DEF StartWatcher
    <2>5. account' = 0 => job' = "none"
          BY <1>24 DEF StartWatcher
    <2>6. LockHeld' /\ AccountStays'
          BY <1>24, <2>2, MovesTyped, OneTaskMoves DEF StartWatcher, Holds
    <2>. QED  BY <2>2, <2>3, <2>4, <2>5, <2>6, MovesTyped
  <1>25. CASE SyncAccount(t)
    <2>1. {"entry"} \subseteq Places
          BY DEF Places
    <2>2. Moves(t, "entry")
          BY <1>25, <1>0, <2>1, IdleMoves DEF SyncAccount, Become
    <2>3. lock' \in Seq(Tasks)
          BY <1>25 DEF SyncAccount
    <2>4. account' \in Nat /\ job' \in Jobs /\ mem' \in Jobs
          BY <1>25 DEF SyncAccount
    <2>5. account' = 0 => job' = "none"
          BY <1>25 DEF SyncAccount
    <2>6. LockHeld' /\ AccountStays'
          BY <1>25, <2>2, MovesTyped, OneTaskMoves DEF SyncAccount, Holds
    <2>. QED  BY <2>2, <2>3, <2>4, <2>5, <2>6, MovesTyped
  <1>26. CASE StartUpdate(t)
    <2>1. {"queue"} \subseteq Places
          BY DEF Places
    <2>2. Moves(t, "queue")
          BY <1>26, <1>0, <2>1, IdleMoves DEF StartUpdate, Request
    <2>3. lock' \in Seq(Tasks)
          BY <1>26 DEF StartUpdate, Request
    <2>4. account' \in Nat /\ job' \in Jobs /\ mem' \in Jobs
          BY <1>26 DEF StartUpdate, Request
    <2>5. account' = 0 => job' = "none"
          BY <1>26 DEF StartUpdate, Request
    <2>6. LockHeld' /\ AccountStays'
          BY <1>26, <2>2, MovesTyped, OneTaskMoves
             DEF StartUpdate, Holds, Request
    <2>. QED  BY <2>2, <2>3, <2>4, <2>5, <2>6, MovesTyped
  <1>27. CASE StartRemove(t)
    <2>1. {"queue"} \subseteq Places
          BY DEF Places
    <2>2. Moves(t, "queue")
          BY <1>27, <1>0, <2>1, IdleMoves DEF StartRemove, Request
    <2>3. lock' \in Seq(Tasks)
          BY <1>27 DEF StartRemove, Request
    <2>4. account' \in Nat /\ job' \in Jobs /\ mem' \in Jobs
          BY <1>27 DEF StartRemove, Request
    <2>5. account' = 0 => job' = "none"
          BY <1>27 DEF StartRemove, Request
    <2>6. LockHeld' /\ AccountStays'
          BY <1>27, <2>2, MovesTyped, OneTaskMoves
             DEF StartRemove, Holds, Request
    <2>. QED  BY <2>2, <2>3, <2>4, <2>5, <2>6, MovesTyped
  <1>28. CASE StartReconcile(t)
    <2>1. {"sweep"} \subseteq Places
          BY DEF Places
    <2>2. Moves(t, "sweep")
          BY <1>28, <1>0, <2>1, IdleMoves DEF StartReconcile
    <2>3. lock' \in Seq(Tasks)
          BY <1>28 DEF StartReconcile
    <2>4. account' \in Nat /\ job' \in Jobs /\ mem' \in Jobs
          BY <1>28 DEF StartReconcile
    <2>5. account' = 0 => job' = "none"
          BY <1>28 DEF StartReconcile
    <2>6. LockHeld' /\ AccountStays'
          BY <1>28, <2>2, MovesTyped, OneTaskMoves DEF StartReconcile, Holds
    <2>. QED  BY <2>2, <2>3, <2>4, <2>5, <2>6, MovesTyped
  <1>. QED  BY <1>1, <1>2, <1>3, <1>4, <1>5, <1>6, <1>7, <1>8, <1>9, <1>10,
               <1>11, <1>12, <1>13, <1>14, <1>15, <1>16, <1>17,
               <1>18, <1>19, <1>20, <1>21, <1>22, <1>23, <1>24, <1>25, <1>26, <1>27, <1>28
     DEF Step

(* A restart keeps the invariant: no task is left at work. *)
LEMMA CrashIInv == IInv /\ Crash => IInv'
  <1>. SUFFICES ASSUME IInv, Crash PROVE IInv'
       OBVIOUS
  <1>1. PICK s \in Tasks :
            task' = [t \in Tasks |-> IF t = s THEN [Idle EXCEPT !.op = "startup",
                                                               !.at = "startup"]
                                     ELSE Idle]
        BY DEF Crash
  <1>2. task' \in [Tasks -> Locals]
        BY <1>1 DEF Idle, Locals, Places
  <1>3. Shape'
        BY <1>2 DEF IInv, Shape, Crash, durable
  <1>4. \A t \in Tasks : task'[t].at \in {"idle", "startup"}
        BY <1>1 DEF Idle
  <1>5. LockHeld' /\ AccountStays'
        BY <1>4 DEF LockHeld, AccountStays, Rebuilding, Committing, Deleting
  <1>. QED  BY <1>3, <1>5 DEF IInv, RemovedIsForgotten, Crash, durable

(* Stuttering keeps the invariant. *)
LEMMA StutterIInv == IInv /\ UNCHANGED vars => IInv'
  BY DEF IInv, Shape, LockHeld, AccountStays, Holds, RemovedIsForgotten, vars

(* The invariant holds in every reachable state. *)
THEOREM WorkIsGuarded == Spec => []IInv
  <1>1. IInv /\ [Next]_vars => IInv'
        BY StepIInv, CrashIInv, StutterIInv DEF Next
  <1>. QED  BY <1>1, InitIInv, PTL DEF Spec

(* The job of a removed account is never left in the store: a rebuild that  *)
(* is being scheduled, is saving its job again or is settling when the user *)
(* removes the account does not bring it back (schedule_mail_rebuild,       *)
(* run_mail_rebuild_locked and remove_account).                             *)
THEOREM RemovedStaysForgotten == Spec => []RemovedIsForgotten
  <1>1. IInv => RemovedIsForgotten
        BY DEF IInv
  <1>. QED  BY <1>1, WorkIsGuarded, PTL
-----------------------------------------------------------------------------
(* Who holds what: the operation lock, the reservation and the channel *)

(* Where an operation takes its task. *)
Course(l) ==
    \/ l.op = "none" /\ l.at = "idle"
    \/ l.op = "sync" /\ l.at \in {"entry", "lookup", "schedule", "release", "unreserve"}
    \/ /\ l.op = "rebuild"
       /\ l.at \in {"register", "wait", "check", "begin", "sync", "settle", "restart",
                    "clear", "release", "unreserve"}
    \/ /\ l.op = "update"
       /\ l.at \in {"queue", "wait", "commit", "sweep", "spawn", "resume", "entry", "leave"}
       /\ l.at \in {"sweep", "spawn"} => l.then \in {"resume", "leave"}
    \/ /\ l.op = "remove"
       /\ l.at \in {"queue", "wait", "delete", "sweep", "spawn", "leave"}
       /\ l.at \in {"sweep", "spawn"} => l.then = "leave"
    \/ l.op = "reconcile" /\ l.at \in {"sweep", "spawn", "leave"} /\ l.then = "leave"
    \/ l.op = "startup" /\ l.at \in {"startup", "start", "entry"}

(* A task with such locals stands in the lock's queue; has the reservation; *)
(* is registered with the channel; will drop the channel's reservation.     *)
Queued(l)     == \/ l.op = "rebuild" /\ l.at # "register"
                 \/ l.op \in {"update", "remove"} /\ l.at # "queue"
Reserves(l)   == l.at = "entry" \/ (l.op \in {"sync", "rebuild"} /\ l.at # "unreserve")
Registers(l)  == l.op = "rebuild" /\ l.at \notin {"register", "release", "unreserve"}
Unreserves(l) == l.op \in {"sync", "rebuild"} /\ l.at # "entry"

Courses == \A t \in Tasks : Course(task[t])

(* The lock's queue lists each task that waits for it or holds it, once.    *)
LockLists ==
    /\ \A i, j \in DOMAIN lock : lock[i] = lock[j] => i = j
    /\ \A t \in Tasks : Queued(task[t]) <=> \E i \in DOMAIN lock : lock[i] = t

(* Whoever is past the wait is its head. *)
HeadWorks == \A t \in Tasks : Queued(task[t]) /\ task[t].at # "wait" => Holds(t)

(* The reservation is one task's. *)
OneReservation ==
    /\ \A t, u \in Tasks : Reserves(task[t]) /\ Reserves(task[u]) => t = u
    /\ running <=> \E t \in Tasks : Reserves(task[t])

(* The channel is there for a registered task or for one that will drop its *)
(* reservation.                                                             *)
ChannelUsed ==
    /\ channel \in [open : BOOLEAN, disposition : {"None", "Retain", "Remove"},
                    registrations : {0, 1}, reserved : BOOLEAN]
    /\ ~channel.open => channel = NoChannel
    /\ channel.open => channel.registrations = 1 \/ channel.reserved
    /\ channel.registrations = 1 <=> \E t \in Tasks : Registers(task[t])
    /\ channel.reserved => \E t \in Tasks : Unreserves(task[t])

Control == Courses /\ LockLists /\ HeadWorks /\ OneReservation /\ ChannelUsed

(* What an action does to the locals of its task, field by field. *)
Fields == {"op", "at", "reset", "change", "snap", "then", "stopped", "end", "keep"}
Keeps(l, m, F) == \A f \in Fields \ F : m[f] = l[f]
Others(t)      == \A u \in Tasks \ {t} : task'[u] = task[u]
Turns(t, p, F) == /\ task'[t].at = p
                  /\ Keeps(task[t], task'[t], F \cup {"at"})
                  /\ Others(t)

(* A plain change of place keeps the rest of the locals.                    *)
LEMMA GoTurns ==
    ASSUME task \in [Tasks -> Locals], NEW t \in Tasks, NEW p,
           Go(t, p)
    PROVE  Turns(t, p, {})
  BY DEF Turns, Keeps, Fields, Others, Now, Locals, Go

(* With it, the reset flag may change,                                      *)
LEMMA ResetTurns ==
    ASSUME task \in [Tasks -> Locals], NEW t \in Tasks, NEW p, NEW v,
           Now(t, [task[t] EXCEPT !.reset = v, !.at = p])
    PROVE  Turns(t, p, {"reset"}) /\ task'[t].reset = v
  BY DEF Turns, Keeps, Fields, Others, Now, Locals

(* or what the rebuild decides on its job,                                  *)
LEMMA KeepTurns ==
    ASSUME task \in [Tasks -> Locals], NEW t \in Tasks, NEW p, NEW v,
           Now(t, [task[t] EXCEPT !.keep = v, !.at = p])
    PROVE  Turns(t, p, {"keep"}) /\ task'[t].keep = v
  BY ZenonT(60) DEF Turns, Keeps, Fields, Others, Now, Locals

(* or that it has stopped the watcher,                                      *)
LEMMA StoppedTurns ==
    ASSUME task \in [Tasks -> Locals], NEW t \in Tasks, NEW p, NEW v,
           Now(t, [task[t] EXCEPT !.stopped = v, !.at = p])
    PROVE  Turns(t, p, {"stopped"}) /\ task'[t].stopped = v
  BY ZenonT(60) DEF Turns, Keeps, Fields, Others, Now, Locals

(* or its outcome,                                                          *)
LEMMA EndTurns ==
    ASSUME task \in [Tasks -> Locals], NEW t \in Tasks, NEW p, NEW v,
           Now(t, [task[t] EXCEPT !.end = v, !.at = p])
    PROVE  Turns(t, p, {"end"}) /\ task'[t].end = v
  BY ZenonT(60) DEF Turns, Keeps, Fields, Others, Now, Locals

(* or the account that was read,                                            *)
LEMMA SnapTurns ==
    ASSUME task \in [Tasks -> Locals], NEW t \in Tasks, NEW p, NEW v,
           Now(t, [task[t] EXCEPT !.snap = v, !.at = p])
    PROVE  Turns(t, p, {"snap"}) /\ task'[t].snap = v
  BY ZenonT(60) DEF Turns, Keeps, Fields, Others, Now, Locals

(* or the operation,                                                        *)
LEMMA OpTurns ==
    ASSUME task \in [Tasks -> Locals], NEW t \in Tasks, NEW p, NEW v,
           Now(t, [task[t] EXCEPT !.op = v, !.at = p])
    PROVE  Turns(t, p, {"op"}) /\ task'[t].op = v
  BY ZenonT(60) DEF Turns, Keeps, Fields, Others, Now, Locals

(* or where to carry on.                                                    *)
LEMMA ThenTurns ==
    ASSUME task \in [Tasks -> Locals], NEW t \in Tasks, NEW p, NEW v,
           Then(t, p, v)
    PROVE  Turns(t, p, {"then"}) /\ task'[t].then = v
  BY ZenonT(60) DEF Turns, Keeps, Fields, Others, Now, Locals, Then

(* A task that takes a command has it as the whole of its locals. *)
LEMMA Begins ==
    ASSUME task \in [Tasks -> Locals], NEW t \in Tasks
    PROVE  /\ Done(t) => task'[t] = Idle /\ Others(t)
           /\ \A l : Now(t, l) => task'[t] = l /\ Others(t)
  BY DEF Done, Now, Others

(* A step that leaves the queue alone, joins it, or leaves it. *)
LEMMA LockStays ==
    ASSUME LockLists, HeadWorks, NEW t \in Tasks, Others(t), lock' = lock,
           Queued(task'[t]) <=> Queued(task[t]),
           Queued(task'[t]) /\ task'[t].at # "wait" => Holds(t)
    PROVE  LockLists' /\ HeadWorks'
  <1>1. \A u \in Tasks : Queued(task'[u]) <=> Queued(task[u])
        BY DEF Others
  <1>2. LockLists'
        BY <1>1 DEF LockLists, Queued
  <1>3. ASSUME NEW u \in Tasks, Queued(task'[u]), task'[u].at # "wait" PROVE Holds(u)'
    <2>1. CASE u = t
          BY <1>3, <2>1 DEF Holds
    <2>2. CASE u # t
          BY <1>1, <1>3, <2>2 DEF HeadWorks, Others, Holds
    <2>. QED  BY <2>1, <2>2
  <1>. QED  BY <1>2, <1>3 DEF HeadWorks, Queued

(* A task that queues is the last, and nobody works for it yet.             *)
LEMMA LockJoins ==
    ASSUME LockLists, HeadWorks, NEW t \in Tasks, Others(t), lock \in Seq(Tasks),
           lock' = Append(lock, t), ~Queued(task[t]), Queued(task'[t]),
           task'[t].at = "wait"
    PROVE  LockLists' /\ HeadWorks'
  <1>. DEFINE n == Len(lock)
  <1>1. /\ n \in Nat /\ DOMAIN lock = 1..n /\ DOMAIN lock' = 1..(n + 1)
        /\ \A i \in 1..n : lock'[i] = lock[i] /\ lock[i] \in Tasks
        /\ lock'[n + 1] = t
        OBVIOUS
  <1>2. \A i \in 1..n : lock[i] # t
        BY <1>1 DEF LockLists
  <1>. HIDE DEF n
  <1>3. ASSUME NEW i \in DOMAIN lock', NEW j \in DOMAIN lock', lock'[i] = lock'[j]
        PROVE  i = j
        BY <1>1, <1>2, <1>3 DEF LockLists
  <1>4. ASSUME NEW u \in Tasks
        PROVE  Queued(task'[u]) <=> \E i \in DOMAIN lock' : lock'[i] = u
    <2>1. CASE u = t
          BY <1>1, <2>1
    <2>2. CASE u # t
      <3>1. Queued(task'[u]) <=> \E i \in 1..n : lock[i] = u
            BY <1>1, <2>2 DEF Others, LockLists
      <3>2. (\E i \in 1..n : lock[i] = u) <=> \E i \in 1..(n + 1) : lock'[i] = u
            BY <1>1, <2>2
      <3>. QED  BY <3>1, <3>2, <1>1
    <2>. QED  BY <2>1, <2>2
  <1>5. LockLists'
        BY <1>3, <1>4 DEF LockLists, Queued
  <1>6. ASSUME NEW u \in Tasks, Queued(task'[u]), task'[u].at # "wait" PROVE Holds(u)'
    <2>1. u # t /\ Holds(u)
          BY <1>6 DEF HeadWorks, Others
    <2>. QED  BY <2>1, LockIsFifo
  <1>. QED  BY <1>5, <1>6 DEF HeadWorks, Queued

(* The holder, and only the holder, is taken off the queue.                 *)
LEMMA LockLeaves ==
    ASSUME LockLists, HeadWorks, NEW t \in Tasks, Others(t), lock \in Seq(Tasks),
           Unlock(t), Queued(task[t]) => task[t].at # "wait", ~Queued(task'[t])
    PROVE  LockLists' /\ HeadWorks'
  <1>1. CASE ~Queued(task[t])
    <2>1. ~Holds(t)
          BY <1>1 DEF LockLists, Holds
    <2>2. lock' = lock
          BY <2>1 DEF Unlock
    <2>. QED  BY <1>1, <2>2, LockStays
  <1>2. CASE Queued(task[t])
    <2>1. Holds(t)
          BY <1>2 DEF HeadWorks
    <2>. DEFINE n == Len(lock)
    <2>2. /\ n \in Nat /\ n > 0 /\ DOMAIN lock = 1..n /\ DOMAIN lock' = 1..(n - 1)
          /\ lock[1] = t /\ \A i \in 1..(n - 1) : lock'[i] = lock[i + 1]
          BY <2>1 DEF Unlock, Holds
    <2>. HIDE DEF n
    <2>3. ASSUME NEW i \in DOMAIN lock', NEW j \in DOMAIN lock', lock'[i] = lock'[j]
          PROVE  i = j
      <3>1. i + 1 \in DOMAIN lock /\ j + 1 \in DOMAIN lock /\ lock[i + 1] = lock[j + 1]
            BY <2>2, <2>3
      <3>2. i + 1 = j + 1
            BY <3>1 DEF LockLists
      <3>. QED  BY <3>2, <2>2
    <2>4. ASSUME NEW u \in Tasks
          PROVE  Queued(task'[u]) <=> \E i \in DOMAIN lock' : lock'[i] = u
      <3>1. CASE u = t
        <4>1. ASSUME NEW i \in DOMAIN lock', lock'[i] = t PROVE FALSE
          <5>1. i + 1 \in DOMAIN lock /\ 1 \in DOMAIN lock /\ lock[i + 1] = lock[1]
                BY <2>2, <4>1
          <5>2. i + 1 = 1
                BY <5>1 DEF LockLists
          <5>. QED  BY <5>2, <2>2
        <4>. QED  BY <4>1, <3>1
      <3>2. CASE u # t
        <4>1. Queued(task'[u]) <=> \E i \in 1..n : lock[i] = u
              BY <2>2, <3>2 DEF Others, LockLists
        <4>2. ASSUME NEW i \in 1..n, lock[i] = u PROVE i - 1 \in DOMAIN lock' /\ lock'[i - 1] = u
              BY <2>2, <3>2, <4>2
        <4>3. ASSUME NEW i \in DOMAIN lock', lock'[i] = u PROVE i + 1 \in 1..n /\ lock[i + 1] = u
              BY <2>2, <4>3
        <4>. QED  BY <4>1, <4>2, <4>3
      <3>. QED  BY <3>1, <3>2
    <2>5. LockLists'
          BY <2>3, <2>4 DEF LockLists, Queued
    <2>6. ASSUME NEW u \in Tasks, Queued(task'[u]), task'[u].at # "wait" PROVE Holds(u)'
      <3>1. u # t /\ Holds(u)
            BY <2>6 DEF HeadWorks, Others
      <3>. QED  BY <3>1, LockIsFifo
    <2>. QED  BY <2>5, <2>6 DEF HeadWorks, Queued
  <1>. QED  BY <1>1, <1>2

(* The reservation stays where it is, is taken, or is given back. *)
LEMMA ReservationStays ==
    ASSUME OneReservation, NEW t \in Tasks, Others(t), running' = running,
           Reserves(task'[t]) <=> Reserves(task[t])
    PROVE  OneReservation'
  <1>1. \A u \in Tasks : Reserves(task'[u]) <=> Reserves(task[u])
        BY DEF Others
  <1>. QED  BY <1>1 DEF OneReservation, Reserves

(* Nobody has it when a task takes it.                                      *)
LEMMA ReservationTaken ==
    ASSUME OneReservation, NEW t \in Tasks, Others(t), ~running, running',
           Reserves(task'[t])
    PROVE  OneReservation'
  <1>1. \A u \in Tasks : Reserves(task'[u]) => u = t
        BY DEF Others, OneReservation
  <1>. QED  BY <1>1 DEF OneReservation, Reserves

(* Nobody has it when its task gives it back.                               *)
LEMMA ReservationGiven ==
    ASSUME OneReservation, NEW t \in Tasks, Others(t), Reserves(task[t]), ~running',
           ~Reserves(task'[t])
    PROVE  OneReservation'
  <1>1. \A u \in Tasks : ~Reserves(task'[u])
        BY DEF Others, OneReservation
  <1>. QED  BY <1>1 DEF OneReservation, Reserves

(* A step that does not touch the channel, or only asks a rebuild to stop.  *)
LEMMA ChannelStays ==
    ASSUME ChannelUsed, NEW t \in Tasks, Others(t),
           channel' = channel \/ \E d \in {"Retain", "Remove"} : channel' = Requested(d),
           Registers(task'[t]) <=> Registers(task[t]),
           Unreserves(task[t]) => Unreserves(task'[t])
    PROVE  ChannelUsed'
  <1>1. /\ channel' \in [open : BOOLEAN, disposition : {"None", "Retain", "Remove"},
                         registrations : {0, 1}, reserved : BOOLEAN]
        /\ channel'.open = channel.open /\ channel'.registrations = channel.registrations
        /\ channel'.reserved = channel.reserved
        /\ ~channel.open => channel' = channel
        BY DEF ChannelUsed, Requested
  <1>2. \A u \in Tasks : Registers(task'[u]) <=> Registers(task[u])
        BY DEF Others
  <1>3. \A u \in Tasks : Unreserves(task[u]) => Unreserves(task'[u])
        BY DEF Others
  <1>. QED  BY <1>1, <1>2, <1>3 DEF ChannelUsed, Registers, Unreserves

(* A step inside an operation: nothing is taken, nothing given back. *)
LEMMA Inside ==
    ASSUME Control, NEW t \in Tasks, Others(t), UNCHANGED <<lock, running, channel>>,
           Course(task'[t]), Queued(task'[t]) <=> Queued(task[t]),
           Queued(task'[t]) /\ task'[t].at # "wait" => Holds(t),
           Reserves(task'[t]) <=> Reserves(task[t]),
           Registers(task'[t]) <=> Registers(task[t]),
           Unreserves(task[t]) => Unreserves(task'[t])
    PROVE  Control'
  <1>1. Courses'
        BY DEF Control, Courses, Others, Course
  <1>2. LockLists' /\ HeadWorks'
        BY LockStays DEF Control
  <1>3. OneReservation'
        BY ReservationStays DEF Control
  <1>4. ChannelUsed'
        BY ChannelStays DEF Control
  <1>. QED  BY <1>1, <1>2, <1>3, <1>4 DEF Control

(* What each action does to the locals of its task. *)
LEMMA Turning ==
    ASSUME task \in [Tasks -> Locals], Courses, NEW t \in Tasks
    PROVE
      /\ Resume(t) => /\ task[t].op = "update" /\ task[t].at = "resume"
                      /\ Turns(t, "leave", {}) \/ Turns(t, "entry", {"reset"})
      /\ Lookup(t) => /\ task[t].op = "sync" /\ task[t].at = "lookup"
                      /\ Turns(t, "release", {}) \/ Turns(t, "schedule", {"reset"})
      /\ Schedule(t) => /\ task[t].op = "sync" /\ task[t].at = "schedule"
                        /\ \/ Turns(t, "release", {})
                           \/ Turns(t, "register", {"op"}) /\ task'[t].op = "rebuild"
      /\ Register(t) => /\ task[t].op = "rebuild" /\ task[t].at = "register"
                        /\ Turns(t, "wait", {})
      /\ Enter(t) => /\ task[t].op = "rebuild" /\ task[t].at = "wait"
                     /\ Turns(t, "clear", {}) \/ Turns(t, "check", {"reset"})
      /\ Check(t) => /\ task[t].op = "rebuild" /\ task[t].at = "check"
                     /\ \/ Turns(t, "settle", {"end"}) /\ task'[t].end = "cancelled"
                        \/ Turns(t, "begin", {"stopped"}) /\ task'[t].stopped
      /\ Begin(t) => /\ task[t].op = "rebuild" /\ task[t].at = "begin"
                     /\ \/ Turns(t, "sync", {})
                        \/ Turns(t, "settle", {"end"}) /\ task'[t].end = "failed"
      /\ Rebuild(t) => /\ task[t].op = "rebuild" /\ task[t].at = "sync"
                       /\ Turns(t, "settle", {"end"})
      /\ Settle(t) => /\ task[t].op = "rebuild" /\ task[t].at = "settle"
                      /\ Turns(t, "restart", {"keep"})
      /\ Restart(t) => /\ task[t].op = "rebuild" /\ task[t].at = "restart"
                       /\ Turns(t, "clear", {})
      /\ Clear(t) => /\ task[t].op = "rebuild" /\ task[t].at = "clear"
                     /\ Turns(t, "release", {})
      /\ Release(t) => /\ task[t].op \in {"sync", "rebuild"} /\ task[t].at = "release"
                       /\ Turns(t, "unreserve", {})
      /\ Queue(t) => /\ task[t].op \in {"update", "remove"} /\ task[t].at = "queue"
                     /\ Turns(t, "wait", {})
      /\ EnterUpdate(t) => /\ task[t].op = "update" /\ task[t].at = "wait"
                           /\ \/ Turns(t, "leave", {}) \/ Turns(t, "resume", {})
                              \/ Turns(t, "commit", {})
      /\ Commit(t) => /\ task[t].op = "update" /\ task[t].at = "commit"
                      /\ \/ Turns(t, "resume", {}) \/ Turns(t, "leave", {})
                         \/ /\ Turns(t, "sweep", {"then"})
                            /\ task'[t].then \in {"resume", "leave"}
      /\ EnterRemove(t) => /\ task[t].op = "remove" /\ task[t].at = "wait"
                           /\ Turns(t, "leave", {}) \/ Turns(t, "delete", {})
      /\ Delete(t) => /\ task[t].op = "remove" /\ task[t].at = "delete"
                      /\ \/ Turns(t, "leave", {})
                         \/ Turns(t, "sweep", {"then"}) /\ task'[t].then = "leave"
      /\ Sweep(t) => /\ task[t].op \in {"update", "remove", "reconcile"}
                     /\ task[t].at = "sweep"
                     /\ \/ Turns(t, "spawn", {"snap"}) /\ task'[t].snap = account
                        \/ Turns(t, "leave", {}) \/ Turns(t, task[t].then, {})
      /\ Spawn(t) => /\ task[t].op \in {"update", "remove", "reconcile"}
                     /\ task[t].at = "spawn"
                     /\ Turns(t, task[t].then, {})
      /\ Startup(t) => /\ task[t].op = "startup" /\ task[t].at = "startup"
                       /\ \/ Turns(t, "entry", {"reset"})
                          \/ Turns(t, "start", {"snap"}) /\ task'[t].snap = account
                          \/ task'[t] = Idle /\ Others(t)
  <1>0. Course(task[t])
        BY DEF Courses
  <1>1. Resume(t) => /\ task[t].op = "update" /\ task[t].at = "resume"
                     /\ Turns(t, "leave", {}) \/ Turns(t, "entry", {"reset"})
        BY <1>0, GoTurns, ResetTurns DEF Resume, At, Course
  <1>2. Lookup(t) => /\ task[t].op = "sync" /\ task[t].at = "lookup"
                     /\ Turns(t, "release", {}) \/ Turns(t, "schedule", {"reset"})
        BY <1>0, GoTurns, ResetTurns DEF Lookup, At, Course
  <1>3. Schedule(t) => /\ task[t].op = "sync" /\ task[t].at = "schedule"
                       /\ \/ Turns(t, "release", {})
                          \/ Turns(t, "register", {"op"}) /\ task'[t].op = "rebuild"
        BY <1>0, GoTurns, OpTurns DEF Schedule, At, Course
  <1>4. Register(t) => /\ task[t].op = "rebuild" /\ task[t].at = "register"
                       /\ Turns(t, "wait", {})
        BY <1>0, GoTurns DEF Register, At, Course
  <1>5. Enter(t) => /\ task[t].op = "rebuild" /\ task[t].at = "wait"
                    /\ Turns(t, "clear", {}) \/ Turns(t, "check", {"reset"})
        BY <1>0, GoTurns, ResetTurns DEF Enter, At, Course
  <1>6. Check(t) => /\ task[t].op = "rebuild" /\ task[t].at = "check"
                    /\ \/ Turns(t, "settle", {"end"}) /\ task'[t].end = "cancelled"
                       \/ Turns(t, "begin", {"stopped"}) /\ task'[t].stopped
        BY <1>0, EndTurns, StoppedTurns DEF Check, At, Course
  <1>7. Begin(t) => /\ task[t].op = "rebuild" /\ task[t].at = "begin"
                    /\ \/ Turns(t, "sync", {})
                       \/ Turns(t, "settle", {"end"}) /\ task'[t].end = "failed"
        BY <1>0, GoTurns, EndTurns DEF Begin, At, Course
  <1>8. Rebuild(t) => /\ task[t].op = "rebuild" /\ task[t].at = "sync"
                      /\ Turns(t, "settle", {"end"})
        BY <1>0, EndTurns DEF Rebuild, At, Course
  <1>9. Settle(t) => /\ task[t].op = "rebuild" /\ task[t].at = "settle"
                     /\ Turns(t, "restart", {"keep"})
        BY <1>0, KeepTurns DEF Settle, At, Course
  <1>10. Restart(t) => /\ task[t].op = "rebuild" /\ task[t].at = "restart"
                       /\ Turns(t, "clear", {})
        BY <1>0, GoTurns DEF Restart, At, Course
  <1>11. Clear(t) => /\ task[t].op = "rebuild" /\ task[t].at = "clear"
                     /\ Turns(t, "release", {})
        BY <1>0, GoTurns DEF Clear, At, Course
  <1>12. Release(t) => /\ task[t].op \in {"sync", "rebuild"} /\ task[t].at = "release"
                       /\ Turns(t, "unreserve", {})
        BY <1>0, GoTurns DEF Release, At, Course
  <1>13. Queue(t) => /\ task[t].op \in {"update", "remove"} /\ task[t].at = "queue"
                     /\ Turns(t, "wait", {})
        BY <1>0, GoTurns DEF Queue, At, Course
  <1>14. EnterUpdate(t) => /\ task[t].op = "update" /\ task[t].at = "wait"
                           /\ \/ Turns(t, "leave", {}) \/ Turns(t, "resume", {})
                              \/ Turns(t, "commit", {})
        BY <1>0, GoTurns DEF EnterUpdate, At, Course
  <1>15. Commit(t) => /\ task[t].op = "update" /\ task[t].at = "commit"
                      /\ \/ Turns(t, "resume", {}) \/ Turns(t, "leave", {})
                         \/ /\ Turns(t, "sweep", {"then"})
                            /\ task'[t].then \in {"resume", "leave"}
        BY <1>0, GoTurns, ThenTurns DEF Commit, At, Course
  <1>16. EnterRemove(t) => /\ task[t].op = "remove" /\ task[t].at = "wait"
                           /\ Turns(t, "leave", {}) \/ Turns(t, "delete", {})
        BY <1>0, GoTurns DEF EnterRemove, At, Course
  <1>17. Delete(t) => /\ task[t].op = "remove" /\ task[t].at = "delete"
                      /\ \/ Turns(t, "leave", {})
                         \/ Turns(t, "sweep", {"then"}) /\ task'[t].then = "leave"
        BY <1>0, GoTurns, ThenTurns DEF Delete, At, Course
  <1>18. Sweep(t) => /\ task[t].op \in {"update", "remove", "reconcile"}
                     /\ task[t].at = "sweep"
                     /\ \/ Turns(t, "spawn", {"snap"}) /\ task'[t].snap = account
                        \/ Turns(t, "leave", {}) \/ Turns(t, task[t].then, {})
        BY <1>0, GoTurns, SnapTurns DEF Sweep, At, Course
  <1>19. Spawn(t) => /\ task[t].op \in {"update", "remove", "reconcile"}
                     /\ task[t].at = "spawn"
                     /\ Turns(t, task[t].then, {})
        BY <1>0, GoTurns DEF Spawn, At, Course
  <1>20. Startup(t) => /\ task[t].op = "startup" /\ task[t].at = "startup"
                       /\ \/ Turns(t, "entry", {"reset"})
                          \/ Turns(t, "start", {"snap"}) /\ task'[t].snap = account
                          \/ task'[t] = Idle /\ Others(t)
        BY <1>0, ResetTurns, SnapTurns, Begins DEF Startup, At, Course
  <1>. QED  BY <1>1, <1>2, <1>3, <1>4, <1>5, <1>6, <1>7, <1>8, <1>9, <1>10, <1>11,
               <1>12, <1>13, <1>14, <1>15, <1>16, <1>17, <1>18, <1>19, <1>20

(* The steps that neither take nor give back anything. *)
LEMMA StepInside ==
    ASSUME IInv, Control, NEW t \in Tasks,
           \/ Lookup(t) \/ Schedule(t) \/ Enter(t) \/ Check(t) \/ Begin(t) \/ Rebuild(t)
           \/ Settle(t) \/ Restart(t) \/ EnterUpdate(t) \/ Commit(t) \/ EnterRemove(t)
           \/ Delete(t) \/ Sweep(t) \/ Spawn(t)
    PROVE  Control'
  <1>0. task \in [Tasks -> Locals] /\ Courses
        BY DEF IInv, Shape, Control
  <1>h. Queued(task[t]) /\ task[t].at # "wait" => Holds(t)
        BY DEF Control, HeadWorks
  <1>1. CASE Lookup(t)
    <2>1. UNCHANGED <<lock, running, channel>>
          BY <1>1 DEF Lookup, shared
    <2>2. /\ task[t].op = "sync" /\ task[t].at = "lookup" /\ Others(t)
          /\ task'[t].op = task[t].op /\ task'[t].at \in {"release", "schedule"}
          BY <1>0, <1>1, Turning DEF Turns, Keeps, Fields
    <2>. QED  BY <1>h, <2>1, <2>2, Inside DEF Course, Queued, Reserves, Registers, Unreserves
  <1>2. CASE Schedule(t)
    <2>1. UNCHANGED <<lock, running, channel>>
          BY <1>2 DEF Schedule, shared
    <2>2. /\ task[t].op = "sync" /\ task[t].at = "schedule" /\ Others(t)
          /\ \/ task'[t].op = "sync" /\ task'[t].at = "release"
             \/ task'[t].op = "rebuild" /\ task'[t].at = "register"
          BY <1>0, <1>2, Turning DEF Turns, Keeps, Fields
    <2>. QED  BY <1>h, <2>1, <2>2, Inside DEF Course, Queued, Reserves, Registers, Unreserves
  <1>3. CASE Enter(t)
    <2>1. UNCHANGED <<lock, running, channel>>
          BY <1>3 DEF Enter, shared
    <2>2. /\ task[t].op = "rebuild" /\ task[t].at = "wait" /\ Others(t)
          /\ task'[t].op = task[t].op /\ task'[t].at \in {"clear", "check"}
          BY <1>0, <1>3, Turning DEF Turns, Keeps, Fields
    <2>3. Holds(t)
          BY <1>3 DEF Enter
    <2>. QED  BY <2>1, <2>2, <2>3, Inside DEF Course, Queued, Reserves, Registers, Unreserves
  <1>4. CASE Check(t)
    <2>1. UNCHANGED <<lock, running, channel>>
          BY <1>4 DEF Check, shared
    <2>2. /\ task[t].op = "rebuild" /\ task[t].at = "check" /\ Others(t)
          /\ task'[t].op = task[t].op /\ task'[t].at \in {"settle", "begin"}
          BY <1>0, <1>4, Turning DEF Turns, Keeps, Fields
    <2>. QED  BY <1>h, <2>1, <2>2, Inside DEF Course, Queued, Reserves, Registers, Unreserves
  <1>5. CASE Begin(t)
    <2>1. UNCHANGED <<lock, running, channel>>
          BY <1>5 DEF Begin, shared
    <2>2. /\ task[t].op = "rebuild" /\ task[t].at = "begin" /\ Others(t)
          /\ task'[t].op = task[t].op /\ task'[t].at \in {"settle", "sync"}
          BY <1>0, <1>5, Turning DEF Turns, Keeps, Fields
    <2>. QED  BY <1>h, <2>1, <2>2, Inside DEF Course, Queued, Reserves, Registers, Unreserves
  <1>6. CASE Rebuild(t)
    <2>1. UNCHANGED <<lock, running, channel>>
          BY <1>6 DEF Rebuild, shared
    <2>2. /\ task[t].op = "rebuild" /\ task[t].at = "sync" /\ Others(t)
          /\ task'[t].op = task[t].op /\ task'[t].at \in {"settle"}
          BY <1>0, <1>6, Turning DEF Turns, Keeps, Fields
    <2>. QED  BY <1>h, <2>1, <2>2, Inside DEF Course, Queued, Reserves, Registers, Unreserves
  <1>7. CASE Settle(t)
    <2>1. UNCHANGED <<lock, running, channel>>
          BY <1>7 DEF Settle, shared
    <2>2. /\ task[t].op = "rebuild" /\ task[t].at = "settle" /\ Others(t)
          /\ task'[t].op = task[t].op /\ task'[t].at \in {"restart"}
          BY <1>0, <1>7, Turning DEF Turns, Keeps, Fields
    <2>. QED  BY <1>h, <2>1, <2>2, Inside DEF Course, Queued, Reserves, Registers, Unreserves
  <1>8. CASE Restart(t)
    <2>1. UNCHANGED <<lock, running, channel>>
          BY <1>8 DEF Restart, shared
    <2>2. /\ task[t].op = "rebuild" /\ task[t].at = "restart" /\ Others(t)
          /\ task'[t].op = task[t].op /\ task'[t].at \in {"clear"}
          BY <1>0, <1>8, Turning DEF Turns, Keeps, Fields
    <2>. QED  BY <1>h, <2>1, <2>2, Inside DEF Course, Queued, Reserves, Registers, Unreserves
  <1>9. CASE EnterUpdate(t)
    <2>1. UNCHANGED <<lock, running, channel>>
          BY <1>9 DEF EnterUpdate, shared
    <2>2. /\ task[t].op = "update" /\ task[t].at = "wait" /\ Others(t)
          /\ task'[t].op = task[t].op /\ task'[t].at \in {"leave", "resume", "commit"}
          BY <1>0, <1>9, Turning DEF Turns, Keeps, Fields
    <2>3. Holds(t)
          BY <1>9 DEF EnterUpdate
    <2>. QED  BY <2>1, <2>2, <2>3, Inside DEF Course, Queued, Reserves, Registers, Unreserves
  <1>10. CASE Commit(t)
    <2>1. UNCHANGED <<lock, running, channel>>
          BY <1>10 DEF Commit, shared
    <2>2. /\ task[t].op = "update" /\ task[t].at = "commit" /\ Others(t)
          /\ task'[t].op = "update" /\ task'[t].at \in {"resume", "leave", "sweep"}
          /\ task'[t].at = "sweep" => task'[t].then \in {"resume", "leave"}
          BY <1>0, <1>10, Turning DEF Turns, Keeps, Fields
    <2>. QED  BY <1>h, <2>1, <2>2, Inside DEF Course, Queued, Reserves, Registers, Unreserves
  <1>11. CASE EnterRemove(t)
    <2>1. UNCHANGED <<lock, running, channel>>
          BY <1>11 DEF EnterRemove, shared
    <2>2. /\ task[t].op = "remove" /\ task[t].at = "wait" /\ Others(t)
          /\ task'[t].op = task[t].op /\ task'[t].at \in {"leave", "delete"}
          BY <1>0, <1>11, Turning DEF Turns, Keeps, Fields
    <2>3. Holds(t)
          BY <1>11 DEF EnterRemove
    <2>. QED  BY <2>1, <2>2, <2>3, Inside DEF Course, Queued, Reserves, Registers, Unreserves
  <1>12. CASE Delete(t)
    <2>1. UNCHANGED <<lock, running, channel>>
          BY <1>12 DEF Delete, shared
    <2>2. /\ task[t].op = "remove" /\ task[t].at = "delete" /\ Others(t)
          /\ task'[t].op = "remove" /\ task'[t].at \in {"leave", "sweep"}
          /\ task'[t].at = "sweep" => task'[t].then = "leave"
          BY <1>0, <1>12, Turning DEF Turns, Keeps, Fields
    <2>. QED  BY <1>h, <2>1, <2>2, Inside DEF Course, Queued, Reserves, Registers, Unreserves
  <1>13. CASE Sweep(t)
    <2>1. UNCHANGED <<lock, running, channel>>
          BY <1>13 DEF Sweep, shared
    <2>2. /\ task[t].op \in {"update", "remove", "reconcile"} /\ task[t].at = "sweep"
          /\ Course(task[t]) /\ Others(t)
          /\ task'[t].op = task[t].op /\ task'[t].then = task[t].then
          /\ task'[t].at \in {"spawn", "leave", task[t].then}
          BY <1>0, <1>13, Turning DEF Turns, Keeps, Fields, Courses
    <2>. QED  BY <1>h, <2>1, <2>2, Inside DEF Course, Queued, Reserves, Registers, Unreserves
  <1>14. CASE Spawn(t)
    <2>1. UNCHANGED <<lock, running, channel>>
          BY <1>14 DEF Spawn, shared
    <2>2. /\ task[t].op \in {"update", "remove", "reconcile"} /\ task[t].at = "spawn"
          /\ Course(task[t]) /\ Others(t)
          /\ task'[t].op = task[t].op /\ task'[t].then = task[t].then
          /\ task'[t].at \in {"spawn", "leave", task[t].then}
          BY <1>0, <1>14, Turning DEF Turns, Keeps, Fields, Courses
    <2>. QED  BY <1>h, <2>1, <2>2, Inside DEF Course, Queued, Reserves, Registers, Unreserves
  <1>. QED  BY <1>1, <1>2, <1>3, <1>4, <1>5, <1>6, <1>7, <1>8, <1>9, <1>10, <1>11, <1>12, <1>13, <1>14

(* A step keeps the control invariant if it keeps each part. *)
LEMMA Together ==
    ASSUME Control, NEW t \in Tasks, Others(t), Course(task'[t]),
           LockLists', HeadWorks', OneReservation', ChannelUsed'
    PROVE  Control'
  BY DEF Control, Courses, Others, Course

(* The reservation is taken by a task that has nothing of the channel. *)
LEMMA Takes ==
    ASSUME Control, NEW t \in Tasks, Others(t), UNCHANGED <<lock, channel>>,
           ~running, running', Course(task[t]), Course(task'[t]),
           task[t].at \in {"idle", "resume", "startup"}, task'[t].at = "entry",
           task'[t].op = IF task[t].op = "none" THEN "sync" ELSE task[t].op
    PROVE  Control'
  <1>1. Queued(task[t]) /\ task[t].at # "wait" => Holds(t)
        BY DEF Control, HeadWorks
  <1>2. Queued(task'[t]) <=> Queued(task[t])
        BY DEF Queued, Course
  <1>3. LockLists' /\ HeadWorks'
        BY <1>1, <1>2, LockStays DEF Control
  <1>4. OneReservation'
        BY ReservationTaken DEF Control, Reserves
  <1>5. ChannelUsed'
        BY ChannelStays DEF Control, Registers, Unreserves, Course
  <1>. QED  BY <1>3, <1>4, <1>5, Together

(* reserve_mail_rebuild and sync_account, which take the reservation. *)
LEMMA StepTakes ==
    ASSUME IInv, Control, NEW t \in Tasks,
           SyncAccount(t) \/ Resume(t) \/ Startup(t)
    PROVE  Control'
  <1>0. /\ task \in [Tasks -> Locals] /\ Courses /\ Course(task[t])
        /\ Queued(task[t]) /\ task[t].at # "wait" => Holds(t)
        BY DEF IInv, Shape, Control, Courses, HeadWorks
  <1>1. CASE SyncAccount(t)
    <2>1. task[t] = Idle /\ task'[t] = [Idle EXCEPT !.op = "sync", !.at = "entry"] /\ Others(t)
          BY <1>0, <1>1, Begins DEF SyncAccount, Become
    <2>2. /\ task[t].op = "none" /\ task[t].at = "idle"
          /\ task'[t].op = "sync" /\ task'[t].at = "entry"
          BY <2>1 DEF Idle
    <2>3. UNCHANGED <<lock, channel>> /\ ~running /\ running'
          BY <1>1 DEF SyncAccount
    <2>4. Course(task'[t])
          BY <2>2 DEF Course
    <2>. QED  BY <1>0, <2>1, <2>2, <2>3, <2>4, Takes
  <1>2. CASE Resume(t)
    <2>1. UNCHANGED <<lock, channel>>
          BY <1>2 DEF Resume
    <2>2. /\ task[t].op = "update" /\ task[t].at = "resume" /\ Others(t)
          /\ task'[t].op = "update" /\ task'[t].at \in {"leave", "entry"}
          BY <1>0, <1>2, Turning DEF Turns, Keeps, Fields
    <2>3. task'[t].at = "leave" => UNCHANGED running
          BY <1>0, <1>2, ResetTurns DEF Resume, Turns
    <2>4. task'[t].at = "entry" => ~running /\ running'
          BY <1>0, <1>2, GoTurns DEF Resume, Turns
    <2>5. CASE task'[t].at = "leave"
          BY <1>0, <2>1, <2>2, <2>3, <2>5, Inside
             DEF Course, Queued, Reserves, Registers, Unreserves
    <2>6. CASE task'[t].at = "entry"
          BY <1>0, <2>1, <2>2, <2>4, <2>6, Takes DEF Course
    <2>. QED  BY <2>2, <2>5, <2>6
  <1>3. CASE Startup(t)
    <2>1. UNCHANGED <<lock, channel>> /\ task[t].op = "startup" /\ task[t].at = "startup"
          BY <1>0, <1>3, Turning DEF Startup
    <2>2. CASE Turns(t, "entry", {"reset"}) /\ ~running /\ running'
      <3>1. task'[t].op = "startup" /\ task'[t].at = "entry" /\ Others(t)
            BY <2>1, <2>2 DEF Turns, Keeps, Fields
      <3>. QED  BY <1>0, <2>1, <2>2, <3>1, Takes DEF Course
    <2>3. CASE Turns(t, "start", {"snap"}) /\ UNCHANGED running
      <3>1. task'[t].op = "startup" /\ task'[t].at = "start" /\ Others(t)
            BY <2>1, <2>3 DEF Turns, Keeps, Fields
      <3>. QED  BY <1>0, <2>1, <2>3, <3>1, Inside
                   DEF Course, Queued, Reserves, Registers, Unreserves
    <2>4. CASE task'[t] = Idle /\ Others(t) /\ UNCHANGED running
      <3>1. task'[t].op = "none" /\ task'[t].at = "idle" /\ Others(t)
            BY <2>4 DEF Idle
      <3>. QED  BY <1>0, <2>1, <2>4, <3>1, Inside
                   DEF Course, Queued, Reserves, Registers, Unreserves
    <2>. QED  BY <1>0, <1>3, <2>2, <2>3, <2>4, ResetTurns, SnapTurns, Begins DEF Startup
  <1>. QED  BY <1>1, <1>2, <1>3

(* Queueing for the operation lock, alone or with a registration. *)
LEMMA StepQueues ==
    ASSUME IInv, Control, NEW t \in Tasks, Register(t) \/ Queue(t)
    PROVE  Control'
  <1>0. /\ task \in [Tasks -> Locals] /\ lock \in Seq(Tasks) /\ Courses
        /\ lock' = Append(lock, t) /\ UNCHANGED running
        BY DEF IInv, Shape, Control, Register, Queue, shared
  <1>1. /\ Others(t) /\ task'[t].at = "wait" /\ task'[t].op = task[t].op
        /\ \/ Register(t) /\ task[t].op = "rebuild" /\ task[t].at = "register"
           \/ Queue(t) /\ task[t].op \in {"update", "remove"} /\ task[t].at = "queue"
        BY <1>0, Turning DEF Turns, Keeps, Fields
  <1>2. LockLists' /\ HeadWorks'
        BY <1>0, <1>1, LockJoins DEF Control, Queued
  <1>3. OneReservation'
        BY <1>0, <1>1, ReservationStays DEF Control, Reserves
  <1>4. ChannelUsed'
    <2>1. CASE Queue(t) /\ task[t].op \in {"update", "remove"}
      <3>1. UNCHANGED channel
            BY <2>1 DEF Queue, shared
      <3>. QED  BY <1>1, <2>1, <3>1, ChannelStays DEF Control, Registers, Unreserves
    <2>2. CASE Register(t) /\ task[t].op = "rebuild" /\ task[t].at = "register"
      <3>1. channel' = Registered(channel)
            BY <2>2 DEF Register
      <3>2. \A u \in Tasks : ~Registers(task[u])
            BY <2>2 DEF Control, OneReservation, Reserves, Registers
      <3>3. channel.registrations = 0
            BY <3>2 DEF Control, ChannelUsed
      <3>4. channel' \in [open : BOOLEAN, disposition : {"None", "Retain", "Remove"},
                          registrations : {0, 1}, reserved : BOOLEAN]
            /\ channel'.open /\ channel'.registrations = 1
        <4>1. channel' = [channel EXCEPT !.open = TRUE, !.registrations = 1]
              BY <3>1, <3>3 DEF Registered
        <4>. QED  BY <4>1 DEF Control, ChannelUsed
      <3>5. Registers(task'[t]) /\ Unreserves(task'[t])
            BY <1>1, <2>2 DEF Registers, Unreserves
      <3>. QED  BY <3>4, <3>5 DEF ChannelUsed, Registers, Unreserves
    <2>. QED  BY <1>1, <2>1, <2>2
  <1>. QED  BY <1>1, <1>2, <1>3, <1>4, Together DEF Course

(* reserve_mail_rebuild's second half: the reservation of the channel. *)
LEMMA StepReserves ==
    ASSUME IInv, Control, NEW t \in Tasks, ReserveChannel(t)
    PROVE  Control'
  <1>0. /\ task \in [Tasks -> Locals] /\ lock \in Seq(Tasks) /\ Course(task[t])
        /\ UNCHANGED running /\ Unlock(t) /\ task[t].at = "entry"
        /\ channel' = [channel EXCEPT !.open = TRUE, !.reserved = TRUE]
        BY DEF IInv, Shape, Control, Courses, ReserveChannel, At
  <1>1. /\ Others(t)
        /\ \/ task'[t].op = "sync" /\ task'[t].at = "lookup"
           \/ task'[t].op = "rebuild" /\ task'[t].at = "register"
    <2>1. CASE task[t].op = "sync"
      <3>1. Turns(t, "lookup", {})
            BY <1>0, <2>1, GoTurns DEF ReserveChannel
      <3>. QED  BY <2>1, <3>1 DEF Turns, Keeps, Fields
    <2>2. CASE task[t].op # "sync"
      <3>1. /\ task'[t] = [Idle EXCEPT !.op = "rebuild", !.at = "register",
                                       !.reset = task[t].reset]
            /\ Others(t)
            BY <1>0, <2>2, Begins DEF ReserveChannel
      <3>. QED  BY <3>1 DEF Idle
    <2>. QED  BY <2>1, <2>2
  <1>2. LockLists' /\ HeadWorks'
        BY <1>0, <1>1, LockLeaves DEF Control, Queued
  <1>3. OneReservation'
        BY <1>0, <1>1, ReservationStays DEF Control, Reserves
  <1>4. ChannelUsed'
    <2>1. /\ channel' \in [open : BOOLEAN, disposition : {"None", "Retain", "Remove"},
                           registrations : {0, 1}, reserved : BOOLEAN]
          /\ channel'.open /\ channel'.reserved
          /\ channel'.registrations = channel.registrations
          BY <1>0 DEF Control, ChannelUsed
    <2>2. \A u \in Tasks : Registers(task'[u]) <=> Registers(task[u])
          BY <1>0, <1>1 DEF Registers, Others, Course
    <2>3. Unreserves(task'[t])
          BY <1>1 DEF Unreserves
    <2>. QED  BY <2>1, <2>2, <2>3 DEF Control, ChannelUsed, Registers, Unreserves
  <1>. QED  BY <1>1, <1>2, <1>3, <1>4, Together DEF Course

(* The registration is given back. *)
LEMMA StepClears ==
    ASSUME IInv, Control, NEW t \in Tasks, Clear(t)
    PROVE  Control'
  <1>0. /\ task \in [Tasks -> Locals] /\ Courses /\ UNCHANGED <<lock, running>>
        /\ Queued(task[t]) /\ task[t].at # "wait" => Holds(t)
        BY DEF IInv, Shape, Control, Clear, HeadWorks
  <1>1. /\ task[t].op = "rebuild" /\ task[t].at = "clear" /\ Others(t)
        /\ task'[t].op = "rebuild" /\ task'[t].at = "release"
        BY <1>0, Turning DEF Turns, Keeps, Fields
  <1>2. LockLists' /\ HeadWorks'
        BY <1>0, <1>1, LockStays DEF Control, Queued
  <1>3. OneReservation'
        BY <1>0, <1>1, ReservationStays DEF Control, Reserves
  <1>4. ChannelUsed'
    <2>1. \A u \in Tasks \ {t} : ~Registers(task[u])
          BY <1>1 DEF Control, OneReservation, Reserves, Registers
    <2>2. \A u \in Tasks : ~Registers(task'[u])
          BY <1>1, <2>1 DEF Others, Registers
    <2>3. channel.registrations = 1 /\ channel.open
          BY <1>1 DEF Control, ChannelUsed, Registers, NoChannel
    <2>4. channel' = IF channel.reserved THEN [channel EXCEPT !.registrations = 0]
                     ELSE NoChannel
      <3>1. channel' = Pruned([channel EXCEPT !.registrations = 1 - 1])
            BY <2>3 DEF Clear
      <3>2. 1 - 1 = 0
            OBVIOUS
      <3>3. channel' = Pruned([channel EXCEPT !.registrations = 0])
            BY <3>1, <3>2
      <3>. QED  BY <3>3 DEF Pruned, Control, ChannelUsed
    <2>5. Unreserves(task'[t])
          BY <1>1 DEF Unreserves
    <2>. QED  BY <2>2, <2>3, <2>4, <2>5
              DEF Control, ChannelUsed, NoChannel, Registers, Unreserves
  <1>. QED  BY <1>1, <1>2, <1>3, <1>4, Together DEF Course

(* release_mail_rebuild frees the reservation. *)
LEMMA StepReleases ==
    ASSUME IInv, Control, NEW t \in Tasks, Release(t)
    PROVE  Control'
  <1>0. /\ task \in [Tasks -> Locals] /\ Courses /\ UNCHANGED <<lock, channel>>
        /\ ~running'
        /\ Queued(task[t]) /\ task[t].at # "wait" => Holds(t)
        BY DEF IInv, Shape, Control, Release, HeadWorks
  <1>1. /\ task[t].op \in {"sync", "rebuild"} /\ task[t].at = "release" /\ Others(t)
        /\ task'[t].op = task[t].op /\ task'[t].at = "unreserve"
        BY <1>0, Turning DEF Turns, Keeps, Fields
  <1>2. LockLists' /\ HeadWorks'
        BY <1>0, <1>1, LockStays DEF Control, Queued
  <1>3. OneReservation'
        BY <1>0, <1>1, ReservationGiven DEF Control, Reserves
  <1>4. ChannelUsed'
        BY <1>0, <1>1, ChannelStays DEF Control, Registers, Unreserves
  <1>. QED  BY <1>1, <1>2, <1>3, <1>4, Together DEF Course

(* The last step of a rebuild, or of a command, drops the operation lock; a *)
(* rebuild's drops the channel's reservation too.                           *)
LEMMA StepLeaves ==
    ASSUME IInv, Control, NEW t \in Tasks, Unreserve(t) \/ Leave(t)
    PROVE  Control'
  <1>0. /\ task \in [Tasks -> Locals] /\ lock \in Seq(Tasks) /\ Course(task[t])
        /\ Unlock(t) /\ UNCHANGED running /\ Done(t)
        BY DEF IInv, Shape, Control, Courses, Unreserve, Leave, shared
  <1>1. /\ Others(t) /\ task'[t].op = "none" /\ task'[t].at = "idle"
        /\ \/ Unreserve(t) /\ task[t].op \in {"sync", "rebuild"} /\ task[t].at = "unreserve"
           \/ Leave(t) /\ task[t].op \in {"update", "remove", "reconcile"}
              /\ task[t].at = "leave"
    <2>1. Others(t) /\ task'[t] = Idle
          BY <1>0, Begins
    <2>2. Unreserve(t) => task[t].op \in {"sync", "rebuild"} /\ task[t].at = "unreserve"
          BY <1>0 DEF Unreserve, At, Course
    <2>3. Leave(t) => /\ task[t].op \in {"update", "remove", "reconcile"}
                      /\ task[t].at = "leave"
          BY <1>0 DEF Leave, At, Course
    <2>. QED  BY <2>1, <2>2, <2>3 DEF Idle
  <1>2. LockLists' /\ HeadWorks'
        BY <1>0, <1>1, LockLeaves DEF Control, Queued
  <1>3. OneReservation'
        BY <1>0, <1>1, ReservationStays DEF Control, Reserves
  <1>4. CASE Leave(t) /\ task[t].op \in {"update", "remove", "reconcile"}
    <2>1. UNCHANGED channel
          BY <1>4 DEF Leave, shared
    <2>2. ChannelUsed'
          BY <1>1, <1>4, <2>1, ChannelStays DEF Control, Registers, Unreserves
    <2>. QED  BY <1>1, <1>2, <1>3, <2>2, Together DEF Course
  <1>5. CASE Unreserve(t) /\ task[t].op \in {"sync", "rebuild"} /\ task[t].at = "unreserve"
    <2>1. channel' = IF channel.registrations = 0 THEN NoChannel
                     ELSE [channel EXCEPT !.reserved = FALSE]
          BY <1>5 DEF Unreserve, Pruned, Control, ChannelUsed
    <2>2. \A u \in Tasks : Registers(task'[u]) <=> Registers(task[u])
          BY <1>1, <1>5 DEF Registers, Others
    <2>3. ChannelUsed'
      <3>1. CASE channel.registrations = 0
            BY <2>1, <2>2, <3>1 DEF Control, ChannelUsed, NoChannel
      <3>2. CASE channel.registrations = 1
        <4>1. channel.open
              BY <3>2 DEF Control, ChannelUsed, NoChannel
        <4>2. channel' = [channel EXCEPT !.reserved = FALSE]
              BY <2>1, <3>2
        <4>. QED  BY <2>2, <3>2, <4>1, <4>2 DEF Control, ChannelUsed
      <3>. QED  BY <3>1, <3>2 DEF Control, ChannelUsed
    <2>. QED  BY <1>1, <1>2, <1>3, <2>3, Together DEF Course
  <1>. QED  BY <1>1, <1>4, <1>5

(* A command is given, or the startup task ends. *)
LEMMA StepBegins ==
    ASSUME IInv, Control, NEW t \in Tasks,
           StartUpdate(t) \/ StartRemove(t) \/ StartReconcile(t) \/ StartWatcher(t)
    PROVE  Control'
  <1>0. task \in [Tasks -> Locals] /\ Course(task[t])
        BY DEF IInv, Shape, Control, Courses
  <1>1. ASSUME NEW op \in {"update", "remove"}, NEW change, Request(t, op, change)
        PROVE  Control'
    <2>1. /\ task[t] = Idle /\ Others(t)
          /\ task'[t] = [Idle EXCEPT !.op = op, !.at = "queue", !.change = change]
          BY <1>0, <1>1, Begins DEF Request
    <2>2. /\ task[t].op = "none" /\ task[t].at = "idle"
          /\ task'[t].op = op /\ task'[t].at = "queue"
          BY <2>1 DEF Idle
    <2>3. /\ UNCHANGED <<lock, running>>
          /\ \E d \in {"Retain", "Remove"} : channel' = Requested(d)
          BY <1>1 DEF Request
    <2>4. LockLists' /\ HeadWorks'
          BY <2>1, <2>2, <2>3, LockStays DEF Control, Queued
    <2>5. OneReservation'
          BY <2>1, <2>2, <2>3, ReservationStays DEF Control, Reserves
    <2>6. ChannelUsed'
          BY <2>1, <2>2, <2>3, ChannelStays DEF Control, Registers, Unreserves
    <2>. QED  BY <2>1, <2>2, <2>4, <2>5, <2>6, Together DEF Course
  <1>2. CASE StartUpdate(t)
        BY <1>1, <1>2 DEF StartUpdate
  <1>3. CASE StartRemove(t)
        BY <1>1, <1>3 DEF StartRemove
  <1>4. CASE StartReconcile(t)
    <2>1. /\ task[t] = Idle /\ Others(t)
          /\ task'[t] = [Idle EXCEPT !.op = "reconcile", !.at = "sweep", !.then = "leave"]
          /\ UNCHANGED <<lock, running, channel>>
          BY <1>0, <1>4, Begins DEF StartReconcile, shared
    <2>2. /\ task[t].op = "none" /\ task[t].at = "idle"
          /\ task'[t].op = "reconcile" /\ task'[t].at = "sweep" /\ task'[t].then = "leave"
          BY <2>1 DEF Idle
    <2>. QED  BY <2>1, <2>2, Inside DEF Course, Queued, Reserves, Registers, Unreserves
  <1>5. CASE StartWatcher(t)
    <2>1. /\ task'[t] = Idle /\ Others(t) /\ task[t].at = "start"
          /\ UNCHANGED <<lock, running, channel>>
          BY <1>0, <1>5, Begins DEF StartWatcher, shared, At
    <2>2. /\ task[t].op = "startup" /\ task'[t].op = "none" /\ task'[t].at = "idle"
          BY <1>0, <2>1 DEF Idle, Course
    <2>. QED  BY <2>1, <2>2, Inside DEF Course, Queued, Reserves, Registers, Unreserves
  <1>. QED  BY <1>2, <1>3, <1>4, <1>5

(* The start of the process, and every restart. *)
LEMMA FreshControl ==
    ASSUME NEW s \in Tasks, ~running, channel = NoChannel, lock = <<>>,
           task = [t \in Tasks |-> IF t = s THEN [Idle EXCEPT !.op = "startup",
                                                              !.at = "startup"]
                                   ELSE Idle]
    PROVE  Control
  <1>1. \A t \in Tasks : /\ task[t].op \in {"none", "startup"}
                         /\ task[t].at = IF task[t].op = "none" THEN "idle" ELSE "startup"
        BY DEF Idle
  <1>2. Courses /\ HeadWorks
        BY <1>1 DEF Courses, Course, HeadWorks, Queued
  <1>3. LockLists
        BY <1>1 DEF LockLists, Queued
  <1>4. OneReservation
        BY <1>1 DEF OneReservation, Reserves
  <1>5. ChannelUsed
        BY <1>1 DEF ChannelUsed, NoChannel, Registers
  <1>. QED  BY <1>2, <1>3, <1>4, <1>5 DEF Control

(* A restart holds nothing.                                                 *)
LEMMA CrashControl == Crash => Control'
  <1>. SUFFICES ASSUME Crash PROVE Control'
       OBVIOUS
  <1>1. PICK s \in Tasks :
            task' = [t \in Tasks |-> IF t = s THEN [Idle EXCEPT !.op = "startup",
                                                               !.at = "startup"]
                                     ELSE Idle]
        BY DEF Crash
  <1>2. ~running' /\ channel' = NoChannel /\ lock' = <<>>
        BY DEF Crash
  <1>3. \A t \in Tasks : /\ task'[t].op \in {"none", "startup"}
                         /\ task'[t].at = IF task'[t].op = "none" THEN "idle" ELSE "startup"
        BY <1>1 DEF Idle
  <1>4. Courses' /\ HeadWorks'
        BY <1>3 DEF Courses, Course, HeadWorks, Queued
  <1>5. LockLists'
        BY <1>2, <1>3 DEF LockLists, Queued
  <1>6. OneReservation'
        BY <1>2, <1>3 DEF OneReservation, Reserves
  <1>7. ChannelUsed'
        BY <1>2, <1>3 DEF ChannelUsed, NoChannel, Registers
  <1>. QED  BY <1>4, <1>5, <1>6, <1>7 DEF Control

(* Stuttering keeps the control invariant.                                  *)
LEMMA StutterControl == Control /\ UNCHANGED vars => Control'
  BY DEF Control, Courses, Course, LockLists, Queued, HeadWorks, Holds, OneReservation,
         Reserves, ChannelUsed, Registers, Unreserves, vars

(* Whatever is held has a task that will give it back: the queue of the     *)
(* operation lock, the reservation of run_mail_rebuild and the channel of   *)
(* MailRebuildCancellations each name the task they belong to.              *)
THEOREM HeldIsNamed == Spec => []Control
  <1>1. Init => Control
        BY FreshControl DEF Init
  <1>2. IInv /\ Control /\ [Next]_vars => Control'
        BY StepInside, StepTakes, StepQueues, StepReserves, StepClears, StepReleases,
           StepLeaves, StepBegins, CrashControl, StutterControl DEF Next, Step
  <1>. QED  BY <1>1, <1>2, WorkIsGuarded, PTL DEF Spec

(* When every operation has ended, no reservation refuses the next rebuild, *)
(* no channel cancels it and nobody is left in the operation lock: the      *)
(* error paths of sync_account, run_mail_rebuild and                        *)
(* resume_scheduled_mail_rebuild release what they have taken.              *)
THEOREM NoLeak == Spec => []NothingLeaks
  <1>1. IInv /\ Control => NothingLeaks
    <2>. SUFFICES ASSUME IInv, Control, Quiet
                  PROVE  ~running /\ channel = NoChannel /\ lock = <<>>
         BY DEF NothingLeaks
    <2>1. \A t \in Tasks : task[t].op = "none" /\ task[t].at = "idle"
      <3>1. Idle.op = "none" /\ Idle.at = "idle"
            BY DEF Idle
      <3>. QED  BY <3>1 DEF Quiet
    <2>2. ~running
      <3>1. \A t \in Tasks : ~Reserves(task[t])
            BY <2>1 DEF Reserves
      <3>2. running <=> \E t \in Tasks : Reserves(task[t])
            BY DEF Control, OneReservation
      <3>. QED  BY <3>1, <3>2
    <2>3. channel = NoChannel
          BY <2>1 DEF Control, ChannelUsed, Registers, Unreserves
    <2>4. lock = <<>>
      <3>1. lock \in Seq(Tasks) /\ \A t \in Tasks : ~Queued(task[t])
            BY <2>1 DEF IInv, Shape, Queued
      <3>2. \A i \in DOMAIN lock : lock[i] \in Tasks
            BY <3>1
      <3>3. DOMAIN lock = {}
            BY <3>1, <3>2 DEF Control, LockLists
      <3>. QED  BY <3>1, <3>3
    <2>. QED  BY <2>2, <2>3, <2>4
  <1>. QED  BY <1>1, WorkIsGuarded, HeldIsNamed, PTL
-----------------------------------------------------------------------------
(* Who brings the watcher back *)

(* A task with such locals relies on a durable job: it has taken it over,   *)
(* or stored it.                                                            *)
Backed(l) == \/ /\ l.op = "rebuild"
                /\ l.at \in {"register", "wait", "check", "begin", "sync", "settle"}
             \/ l.op \in {"update", "startup"} /\ l.at = "entry"

(* It is about to start the watcher of the namespace it has read. *)
Starts(l) == l.at \in {"spawn", "start"}

(* It has been asked to remove the account, and has not come to it.         *)
Removes(l) == l.op = "remove" /\ l.at \in {"queue", "wait", "delete"}

(* It has stopped the watcher, or is about to bring it back.                *)
Owes(l) == \/ l.at = "startup" \/ Starts(l) \/ Removes(l)
           \/ l.at \in {"begin", "sync", "settle"} /\ l.stopped
           \/ l.at = "restart" /\ l.stopped /\ ~(l.keep /\ l.reset)
           \/ l.at = "commit" /\ l.change # "settings"

(* A rebuild that has not stopped the watcher was cancelled before.         *)
Proper(l) == /\ l.at \in {"begin", "sync"} => l.stopped
             /\ l.at = "settle" /\ ~l.stopped => l.end = "cancelled"

JobBacked == /\ mem # "none" => job # "none" \/ account = 0
             /\ \A t \in Tasks : Backed(task[t]) => job # "none" \/ account = 0
Snapped   == \A t \in Tasks : Starts(task[t]) /\ task[t].snap = 0 => account = 0
StopsFirst == \A t \in Tasks : Proper(task[t])
Heard     == \A t \in Tasks : task[t].at = "settle" /\ task[t].end = "cancelled" =>
                                 channel.disposition # "None"
RemoveComes == channel.disposition = "Remove" =>
                  account = 0 \/ StoreFailed \/ \E t \in Tasks : Removes(task[t])
Watched   == account # 0 /\ job = "none" /\ ~StoreFailed =>
                watcher # 0 \/ \E t \in Tasks : Owes(task[t])

WatchInv == /\ faults \in Seq(Faults)
            /\ JobBacked /\ Snapped /\ StopsFirst /\ Heard /\ RemoveComes /\ Watched

(* A failure is never forgotten. *)
LEMMA Failing ==
    ASSUME faults \in Seq(Faults), NEW k, Fault(k) \/ (k = "none" /\ UNCHANGED faults)
    PROVE  /\ faults' \in Seq(Faults)
           /\ StoreFailed => StoreFailed'
           /\ k = "storage" => StoreFailed'
  <1>1. CASE Fault(k)
    <2>2. faults' \in Seq(Faults)
          BY <1>1 DEF Fault
    <2>. DEFINE n == Len(faults)
    <2>1. /\ n \in Nat /\ faults' = Append(faults, k) /\ k \in Faults
          /\ DOMAIN faults = 1..n /\ DOMAIN faults' = 1..(n + 1)
          /\ \A i \in 1..n : faults'[i] = faults[i]
          /\ faults'[n + 1] = k
          BY <1>1 DEF Fault
    <2>. HIDE DEF n
    <2>3. \A i \in 1..n : i \in 1..(n + 1)
          BY <2>1
    <2>4. StoreFailed => StoreFailed'
          BY <2>1, <2>3 DEF StoreFailed
    <2>5. ASSUME k = "storage" PROVE StoreFailed'
      <3>1. n + 1 \in DOMAIN faults' /\ faults'[n + 1] = "storage"
            BY <2>1, <2>5
      <3>. QED  BY <3>1 DEF StoreFailed
    <2>. QED  BY <2>2, <2>4, <2>5
  <1>2. CASE k = "none" /\ UNCHANGED faults
        BY <1>2 DEF StoreFailed
  <1>. QED  BY <1>1, <1>2

(* The same for the steps that may fail in one way or another.              *)
LEMMA Failed ==
    ASSUME faults \in Seq(Faults),
           UNCHANGED faults \/ Fault("storage") \/ Fault("provider")
    PROVE  /\ faults' \in Seq(Faults) /\ (StoreFailed => StoreFailed')
           /\ Fault("storage") => StoreFailed'
  BY Failing

(* A task that is about to settle has the channel, whose disposition no     *)
(* other task takes back.                                                   *)
LEMMA DispositionStays ==
    ASSUME IInv, Control, NEW t \in Tasks, NEW u \in Tasks, u # t, task[u].at = "settle",
           Clear(t) \/ Unreserve(t)
    PROVE  channel'.disposition = channel.disposition
  <1>1. Registers(task[u]) /\ Reserves(task[u])
        BY DEF Control, Courses, Course, Registers, Reserves
  <1>2. channel.registrations = 1 /\ channel.open
        BY <1>1 DEF Control, ChannelUsed, NoChannel
  <1>3. ~Clear(t)
    <2>1. Course(task[t]) /\ (Reserves(task[t]) => u = t)
          BY <1>1 DEF Control, Courses, OneReservation
    <2>. QED  BY <2>1 DEF Clear, At, Course, Reserves
  <1>4. channel' = [channel EXCEPT !.reserved = FALSE]
        BY <1>2, <1>3 DEF Unreserve, Pruned, Control, ChannelUsed
  <1>. QED  BY <1>4 DEF Control, ChannelUsed

(* What a step of one task has to respect: only the holder of the           *)
(* reservation forgets a job.                                               *)
LEMMA WatchStep ==
    ASSUME IInv, Control, WatchInv, NEW t \in Tasks, Others(t),
           faults' \in Seq(Faults), account = 0 => account' = 0,
           job' # "none" \/ job = "none" \/ account' = 0 \/ Reserves(task[t]),
           mem' # "none" => job' # "none" \/ account' = 0,
           Backed(task'[t]) => job' # "none" \/ account' = 0,
           Starts(task'[t]) /\ task'[t].snap = 0 => account' = 0,
           Proper(task'[t]),
           task'[t].at = "settle" /\ task'[t].end = "cancelled" =>
              channel'.disposition # "None",
           \A u \in Tasks \ {t} :
              task[u].at = "settle" /\ channel'.disposition = "None"
                 => channel.disposition = "None",
           RemoveComes', Watched'
    PROVE  WatchInv'
  <1>1. ASSUME NEW u \in Tasks, Backed(task'[u]) PROVE job' # "none" \/ account' = 0
    <2>1. CASE u = t
          BY <1>1, <2>1
    <2>2. CASE u # t
      <3>1. task'[u] = task[u] /\ (job # "none" \/ account = 0)
            BY <1>1, <2>2 DEF Others, WatchInv, JobBacked
      <3>2. Reserves(task[u])
            BY <1>1, <3>1 DEF Backed, Reserves
      <3>3. ~Reserves(task[t])
            BY <2>2, <3>2 DEF Control, OneReservation
      <3>. QED  BY <3>1, <3>3
    <2>. QED  BY <2>1, <2>2
  <1>2. JobBacked'
        BY <1>1 DEF JobBacked, Backed
  <1>3. Snapped'
        BY DEF WatchInv, Snapped, Others, Starts
  <1>4. StopsFirst'
        BY DEF WatchInv, StopsFirst, Others, Proper
  <1>5. Heard'
        BY DEF WatchInv, Heard, Others
  <1>. QED  BY <1>2, <1>3, <1>4, <1>5 DEF WatchInv

(* Most steps leave the store and the watcher alone. *)
LEMMA WatchStays ==
    ASSUME IInv, Control, WatchInv, NEW t \in Tasks, Others(t),
           faults' \in Seq(Faults), StoreFailed => StoreFailed',
           UNCHANGED <<account, job, watcher>>, mem' \in {mem, "none"},
           channel'.disposition \in {channel.disposition, "None"},
           \A u \in Tasks \ {t} : task[u].at = "settle" =>
              channel'.disposition = channel.disposition,
           Backed(task'[t]) => Backed(task[t]) \/ job # "none" \/ account = 0,
           Starts(task'[t]) /\ task'[t].snap = 0 => account = 0,
           Proper(task'[t]),
           task'[t].at = "settle" /\ task'[t].end = "cancelled" =>
              channel'.disposition # "None",
           Removes(task[t]) => Removes(task'[t]),
           Owes(task[t]) =>
              Owes(task'[t]) \/ account = 0 \/ job # "none" \/ StoreFailed'
    PROVE  WatchInv'
  <1>1. /\ mem' # "none" => job' # "none" \/ account' = 0
        /\ Backed(task'[t]) => job' # "none" \/ account' = 0
        BY DEF WatchInv, JobBacked
  <1>2. \A u \in Tasks : Removes(task[u]) => Removes(task'[u])
        BY DEF Others
  <1>3. RemoveComes'
        BY <1>2 DEF WatchInv, RemoveComes, Removes
  <1>4. ASSUME account' # 0, job' = "none", ~StoreFailed', watcher' = 0
        PROVE  \E u \in Tasks : Owes(task'[u])
    <2>1. PICK u \in Tasks : Owes(task[u])
          BY <1>4 DEF WatchInv, Watched
    <2>2. CASE u = t
          BY <1>4, <2>1, <2>2
    <2>3. CASE u # t
          BY <2>1, <2>3 DEF Others
    <2>. QED  BY <2>2, <2>3
  <1>5. Watched'
        BY <1>4 DEF Watched, Owes
  <1>. QED  BY <1>1, <1>3, <1>5, WatchStep

(* Steps of an operation that has not stopped the watcher, or that keep     *)
(* what it owes.                                                            *)
LEMMA StepWatchStays ==
    ASSUME IInv, Control, WatchInv, NEW t \in Tasks,
           \/ Lookup(t) \/ Register(t) \/ Enter(t) \/ Rebuild(t) \/ Release(t)
           \/ Queue(t) \/ Leave(t) \/ SyncAccount(t) \/ StartReconcile(t)
           \/ ReserveChannel(t) \/ Clear(t) \/ Unreserve(t)
    PROVE  WatchInv'
  <1>0. /\ task \in [Tasks -> Locals] /\ Courses /\ Course(task[t])
        /\ Proper(task[t]) /\ faults \in Seq(Faults)
        BY DEF IInv, Shape, Control, Courses, WatchInv, StopsFirst
  <1>. DEFINE Aside == UNCHANGED <<account, job, watcher>> /\ mem' \in {mem, "none"}
  <1>1. CASE Lookup(t)
    <2>1. Aside /\ UNCHANGED channel /\ (UNCHANGED faults \/ Fault("storage"))
          BY <1>1 DEF Lookup, durable, shared
    <2>2. /\ Others(t) /\ task[t].op = "sync" /\ task[t].at = "lookup"
          /\ task'[t].op = "sync" /\ task'[t].at \in {"release", "schedule"}
          BY <1>0, <1>1, Turning DEF Turns, Keeps, Fields
    <2>3. faults' \in Seq(Faults) /\ (StoreFailed => StoreFailed')
          BY <1>0, <2>1, Failed
    <2>. QED  BY <2>1, <2>2, <2>3, WatchStays DEF Backed, Starts, Removes, Owes, Proper
  <1>2. CASE Register(t)
    <2>1. Aside /\ channel'.disposition = channel.disposition /\ UNCHANGED faults
          BY <1>2 DEF Register, Registered, durable, Control, ChannelUsed
    <2>2. /\ Others(t) /\ task[t].op = "rebuild" /\ task[t].at = "register"
          /\ task'[t].op = "rebuild" /\ task'[t].at = "wait"
          BY <1>0, <1>2, Turning DEF Turns, Keeps, Fields
    <2>3. faults' \in Seq(Faults) /\ (StoreFailed => StoreFailed')
          BY <1>0, <2>1, Failed
    <2>. QED  BY <2>1, <2>2, <2>3, WatchStays DEF Backed, Starts, Removes, Owes, Proper
  <1>3. CASE Enter(t)
    <2>1. Aside /\ UNCHANGED channel /\ (UNCHANGED faults \/ Fault("storage"))
          BY <1>3 DEF Enter, durable
    <2>2. /\ Others(t) /\ task[t].op = "rebuild" /\ task[t].at = "wait"
          /\ task'[t].op = "rebuild" /\ task'[t].at \in {"clear", "check"}
          BY <1>0, <1>3, Turning DEF Turns, Keeps, Fields
    <2>3. faults' \in Seq(Faults) /\ (StoreFailed => StoreFailed')
          BY <1>0, <2>1, Failed
    <2>. QED  BY <2>1, <2>2, <2>3, WatchStays DEF Backed, Starts, Removes, Owes, Proper
  <1>4. CASE Rebuild(t)
    <2>1. PICK end \in {"ok", "failed", "rejected", "cancelled"} :
            /\ CASE end = "ok"        -> UNCHANGED faults
                 [] end = "cancelled" -> channel.disposition # "None" /\ UNCHANGED faults
                 [] OTHER             -> Fault("provider")
            /\ Now(t, [task[t] EXCEPT !.end = end, !.at = "settle"])
          BY <1>4 DEF Rebuild
    <2>2. /\ end = "cancelled" => channel.disposition # "None"
          /\ UNCHANGED faults \/ Fault("provider")
          BY <2>1
    <2>3. Turns(t, "settle", {"end"}) /\ task'[t].end = end
          BY <1>0, <2>1, EndTurns
    <2>4. /\ Others(t) /\ task[t].op = "rebuild" /\ task[t].at = "sync"
          /\ task'[t].op = "rebuild" /\ task'[t].at = "settle" /\ task'[t].end = end
          /\ task'[t].stopped = task[t].stopped
          BY <1>0, <1>4, <2>3, Turning DEF Turns, Keeps, Fields
    <2>5. Aside /\ UNCHANGED channel
          BY <1>4 DEF Rebuild, shared
    <2>6. faults' \in Seq(Faults) /\ (StoreFailed => StoreFailed')
          BY <1>0, <2>2, Failed
    <2>7. task[t].stopped
          BY <1>0, <2>4 DEF Proper
    <2>. QED  BY <2>2, <2>4, <2>5, <2>6, <2>7, WatchStays
              DEF Backed, Starts, Removes, Owes, Proper
  <1>5. CASE Release(t)
    <2>1. Aside /\ UNCHANGED <<channel, faults>>
          BY <1>5 DEF Release, durable
    <2>2. /\ Others(t) /\ task[t].op \in {"sync", "rebuild"} /\ task[t].at = "release"
          /\ task'[t].op = task[t].op /\ task'[t].at = "unreserve"
          BY <1>0, <1>5, Turning DEF Turns, Keeps, Fields
    <2>3. faults' \in Seq(Faults) /\ (StoreFailed => StoreFailed')
          BY <1>0, <2>1, Failed
    <2>. QED  BY <2>1, <2>2, <2>3, WatchStays DEF Backed, Starts, Removes, Owes, Proper
  <1>6. CASE Queue(t)
    <2>1. Aside /\ UNCHANGED <<channel, faults>>
          BY <1>6 DEF Queue, durable, shared
    <2>2. /\ Others(t) /\ task[t].op \in {"update", "remove"} /\ task[t].at = "queue"
          /\ task'[t].op = task[t].op /\ task'[t].at = "wait"
          BY <1>0, <1>6, Turning DEF Turns, Keeps, Fields
    <2>3. faults' \in Seq(Faults) /\ (StoreFailed => StoreFailed')
          BY <1>0, <2>1, Failed
    <2>. QED  BY <2>1, <2>2, <2>3, WatchStays DEF Backed, Starts, Removes, Owes, Proper
  <1>7. CASE Leave(t)
    <2>1. Aside /\ UNCHANGED <<channel, faults>> /\ task[t].at = "leave"
          BY <1>7 DEF Leave, durable, shared, At
    <2>2. Others(t) /\ task'[t].op = "none" /\ task'[t].at = "idle"
          BY <1>0, <1>7, Begins DEF Leave, Idle
    <2>3. faults' \in Seq(Faults) /\ (StoreFailed => StoreFailed')
          BY <1>0, <2>1, Failed
    <2>. QED  BY <2>1, <2>2, <2>3, WatchStays DEF Backed, Starts, Removes, Owes, Proper
  <1>8. CASE SyncAccount(t)
    <2>1. Aside /\ UNCHANGED <<channel, faults>> /\ task[t] = Idle
          BY <1>8 DEF SyncAccount, durable
    <2>2. Others(t) /\ task'[t] = [Idle EXCEPT !.op = "sync", !.at = "entry"]
          BY <1>0, <1>8, Begins DEF SyncAccount, Become
    <2>3. /\ task[t].op = "none" /\ task[t].at = "idle"
          /\ task'[t].op = "sync" /\ task'[t].at = "entry"
          BY <2>1, <2>2 DEF Idle
    <2>4. faults' \in Seq(Faults) /\ (StoreFailed => StoreFailed')
          BY <1>0, <2>1, Failed
    <2>. QED  BY <2>1, <2>2, <2>3, <2>4, WatchStays
              DEF Backed, Starts, Removes, Owes, Proper
  <1>9. CASE StartReconcile(t)
    <2>1. Aside /\ UNCHANGED <<channel, faults>> /\ task[t] = Idle
          BY <1>9 DEF StartReconcile, durable, shared
    <2>2. /\ Others(t)
          /\ task'[t] = [Idle EXCEPT !.op = "reconcile", !.at = "sweep", !.then = "leave"]
          BY <1>0, <1>9, Begins DEF StartReconcile
    <2>3. /\ task[t].op = "none" /\ task[t].at = "idle"
          /\ task'[t].op = "reconcile" /\ task'[t].at = "sweep"
          BY <2>1, <2>2 DEF Idle
    <2>4. faults' \in Seq(Faults) /\ (StoreFailed => StoreFailed')
          BY <1>0, <2>1, Failed
    <2>. QED  BY <2>1, <2>2, <2>3, <2>4, WatchStays
              DEF Backed, Starts, Removes, Owes, Proper
  <1>10. CASE ReserveChannel(t)
    <2>1. /\ Aside /\ channel'.disposition = channel.disposition /\ UNCHANGED faults
          /\ task[t].at = "entry"
          BY <1>10 DEF ReserveChannel, At, durable, Control, ChannelUsed
    <2>2. /\ Others(t)
          /\ \/ task'[t].op = "sync" /\ task'[t].at = "lookup"
             \/ Backed(task[t]) /\ task'[t].op = "rebuild" /\ task'[t].at = "register"
      <3>1. CASE task[t].op = "sync"
        <4>1. Turns(t, "lookup", {})
              BY <1>0, <1>10, <3>1, GoTurns DEF ReserveChannel
        <4>. QED  BY <3>1, <4>1 DEF Turns, Keeps, Fields
      <3>2. CASE task[t].op # "sync"
        <4>1. /\ task'[t] = [Idle EXCEPT !.op = "rebuild", !.at = "register",
                                         !.reset = task[t].reset]
              /\ Others(t)
              BY <1>0, <1>10, <3>2, Begins DEF ReserveChannel
        <4>2. task'[t].op = "rebuild" /\ task'[t].at = "register"
              BY <4>1 DEF Idle
        <4>3. Backed(task[t])
              BY <1>0, <2>1, <3>2 DEF Course, Backed
        <4>. QED  BY <4>1, <4>2, <4>3
      <3>. QED  BY <3>1, <3>2
    <2>3. faults' \in Seq(Faults) /\ (StoreFailed => StoreFailed')
          BY <1>0, <2>1, Failed
    <2>4. /\ Backed(task'[t]) => Backed(task[t])
          /\ ~Starts(task'[t]) /\ Proper(task'[t]) /\ task'[t].at # "settle"
          /\ ~Removes(task[t]) /\ ~Owes(task[t])
          BY <2>1, <2>2 DEF Backed, Starts, Removes, Owes, Proper
    <2>. QED  BY <2>1, <2>2, <2>3, <2>4, WatchStays
  <1>11. CASE Clear(t)
    <2>1. /\ Aside /\ UNCHANGED faults
          /\ channel'.disposition \in {channel.disposition, "None"}
          BY <1>11 DEF Clear, Pruned, NoChannel, durable, Control, ChannelUsed
    <2>2. /\ Others(t) /\ task[t].op = "rebuild" /\ task[t].at = "clear"
          /\ task'[t].op = "rebuild" /\ task'[t].at = "release"
          BY <1>0, <1>11, Turning DEF Turns, Keeps, Fields
    <2>3. \A u \in Tasks \ {t} : task[u].at = "settle" =>
              channel'.disposition = channel.disposition
          BY <1>11, DispositionStays
    <2>4. faults' \in Seq(Faults) /\ (StoreFailed => StoreFailed')
          BY <1>0, <2>1, Failed
    <2>. QED  BY <2>1, <2>2, <2>3, <2>4, WatchStays
              DEF Backed, Starts, Removes, Owes, Proper
  <1>12. CASE Unreserve(t)
    <2>1. /\ Aside /\ UNCHANGED faults /\ task[t].at = "unreserve"
          /\ channel'.disposition \in {channel.disposition, "None"}
          BY <1>12 DEF Unreserve, At, Pruned, NoChannel, durable, Control, ChannelUsed
    <2>2. Others(t) /\ task'[t].op = "none" /\ task'[t].at = "idle"
          BY <1>0, <1>12, Begins DEF Unreserve, Idle
    <2>3. \A u \in Tasks \ {t} : task[u].at = "settle" =>
              channel'.disposition = channel.disposition
          BY <1>12, DispositionStays
    <2>4. faults' \in Seq(Faults) /\ (StoreFailed => StoreFailed')
          BY <1>0, <2>1, Failed
    <2>. QED  BY <2>1, <2>2, <2>3, <2>4, WatchStays
              DEF Backed, Starts, Removes, Owes, Proper
  <1>. QED  BY <1>1, <1>2, <1>3, <1>4, <1>5, <1>6, <1>7, <1>8, <1>9, <1>10, <1>11, <1>12

(* Steps that stop or start the watcher. *)
LEMMA WatchMoves ==
    ASSUME IInv, Control, WatchInv, NEW t \in Tasks, Others(t),
           faults' \in Seq(Faults), StoreFailed => StoreFailed',
           UNCHANGED <<account, job, mem, channel>>,
           Backed(task'[t]) => Backed(task[t]),
           Starts(task'[t]) /\ task'[t].snap = 0 => account = 0,
           Proper(task'[t]),
           task'[t].at = "settle" /\ task'[t].end = "cancelled" =>
              channel.disposition # "None",
           Removes(task[t]) => Removes(task'[t]) \/ account = 0 \/ StoreFailed',
           \/ watcher' # 0 \/ Owes(task'[t]) \/ account = 0 \/ StoreFailed'
           \/ UNCHANGED watcher /\ ~Owes(task[t])
    PROVE  WatchInv'
  <1>1. /\ mem' # "none" => job' # "none" \/ account' = 0
        /\ Backed(task'[t]) => job' # "none" \/ account' = 0
        BY DEF WatchInv, JobBacked
  <1>2. \A u \in Tasks : Removes(task[u]) =>
            Removes(task'[u]) \/ account = 0 \/ StoreFailed'
        BY DEF Others
  <1>3. RemoveComes'
        BY <1>2 DEF WatchInv, RemoveComes, Removes
  <1>4. ASSUME account' # 0, job' = "none", ~StoreFailed', watcher' = 0
        PROVE  \E u \in Tasks : Owes(task'[u])
    <2>1. CASE Owes(task'[t])
          BY <2>1
    <2>2. CASE UNCHANGED watcher /\ ~Owes(task[t])
      <3>1. PICK u \in Tasks : Owes(task[u])
            BY <1>4, <2>2 DEF WatchInv, Watched
      <3>2. u # t
            BY <2>2, <3>1
      <3>. QED  BY <3>1, <3>2 DEF Others
    <2>. QED  BY <1>4, <2>1, <2>2
  <1>5. Watched'
        BY <1>4 DEF Watched, Owes
  <1>. QED  BY <1>1, <1>3, <1>5, WatchStep

(* Steps of the operations that stop and start the watcher.                 *)
LEMMA StepWatchMoves ==
    ASSUME IInv, Control, WatchInv, NEW t \in Tasks,
           \/ Check(t) \/ Restart(t) \/ EnterUpdate(t) \/ EnterRemove(t) \/ Sweep(t)
           \/ Spawn(t) \/ StartWatcher(t)
    PROVE  WatchInv'
  <1>0. /\ task \in [Tasks -> Locals] /\ Courses /\ Course(task[t]) /\ task[t] \in Locals
        /\ Proper(task[t]) /\ faults \in Seq(Faults) /\ account \in Nat
        /\ Starts(task[t]) /\ task[t].snap = 0 => account = 0
        BY DEF IInv, Shape, Control, Courses, WatchInv, StopsFirst, Snapped
  <1>. DEFINE Aside == UNCHANGED <<account, job, mem, channel>>
              Kinds == UNCHANGED faults \/ Fault("storage")
  <1>f. /\ Kinds => faults' \in Seq(Faults) /\ (StoreFailed => StoreFailed')
        /\ Fault("storage") => StoreFailed'
        BY <1>0, Failed
  <1>1. CASE Check(t)
    <2>1. Aside /\ Kinds
          BY <1>1 DEF Check, durable, shared
    <2>2. CASE /\ channel.disposition # "None"
               /\ Now(t, [task[t] EXCEPT !.end = "cancelled", !.at = "settle"])
               /\ UNCHANGED watcher
      <3>1. Turns(t, "settle", {"end"}) /\ task'[t].end = "cancelled"
            BY <1>0, <2>2, EndTurns
      <3>2. /\ Others(t) /\ task[t].op = "rebuild" /\ task[t].at = "check"
            /\ task'[t].op = "rebuild" /\ task'[t].at = "settle"
            /\ task'[t].end = "cancelled"
            BY <1>0, <1>1, <3>1, Turning DEF Turns, Keeps, Fields
      <3>. QED  BY <1>f, <2>1, <2>2, <3>2, WatchMoves
                DEF Backed, Starts, Removes, Owes, Proper
    <2>3. CASE Now(t, [task[t] EXCEPT !.stopped = TRUE, !.at = "begin"])
      <3>1. Turns(t, "begin", {"stopped"}) /\ task'[t].stopped = TRUE
            BY <1>0, <2>3, StoppedTurns
      <3>2. /\ Others(t) /\ task[t].op = "rebuild" /\ task[t].at = "check"
            /\ task'[t].op = "rebuild" /\ task'[t].at = "begin" /\ task'[t].stopped
            BY <1>0, <1>1, <3>1, Turning DEF Turns, Keeps, Fields
      <3>. QED  BY <1>f, <2>1, <3>2, WatchMoves DEF Backed, Starts, Removes, Owes, Proper
    <2>. QED  BY <1>1, <2>2, <2>3 DEF Check
  <1>2. CASE Restart(t)
    <2>1. /\ Aside /\ Kinds
          /\ \/ watcher' = account
             \/ ~(Restarts(t) /\ account # 0) /\ UNCHANGED watcher
             \/ Fault("storage")
          BY <1>2 DEF Restart, durable, shared
    <2>2. /\ Others(t) /\ task[t].op = "rebuild" /\ task[t].at = "restart"
          /\ task'[t].op = "rebuild" /\ task'[t].at = "clear"
          BY <1>0, <1>2, Turning DEF Turns, Keeps, Fields
    <2>3. Owes(task[t]) => Restarts(t)
          BY <2>2 DEF Owes, Starts, Removes, Restarts
    <2>4. /\ ~Backed(task'[t]) /\ ~Starts(task'[t]) /\ Proper(task'[t])
          /\ task'[t].at # "settle" /\ ~Removes(task[t])
          BY <2>2 DEF Backed, Starts, Removes, Proper
    <2>. QED  BY <1>f, <2>1, <2>2, <2>3, <2>4, WatchMoves
  <1>3. CASE EnterUpdate(t)
    <2>1. /\ Aside /\ Kinds
          /\ UNCHANGED watcher \/ (Go(t, "commit") /\ task[t].change # "settings")
          BY <1>3 DEF EnterUpdate, durable, shared
    <2>2. /\ Others(t) /\ task[t].op = "update" /\ task[t].at = "wait"
          /\ task'[t].op = "update" /\ task'[t].at \in {"leave", "resume", "commit"}
          /\ task'[t].change = task[t].change
          BY <1>0, <1>3, Turning DEF Turns, Keeps, Fields
    <2>3. UNCHANGED watcher \/ (task'[t].at = "commit" /\ task'[t].change # "settings")
          BY <1>0, <2>1, <2>2, GoTurns DEF Turns
    <2>. QED  BY <1>f, <2>1, <2>2, <2>3, WatchMoves
              DEF Backed, Starts, Removes, Owes, Proper
  <1>4. CASE EnterRemove(t)
    <2>1. Aside /\ Kinds
          BY <1>4 DEF EnterRemove, durable, shared
    <2>2. /\ Others(t) /\ task[t].op = "remove" /\ task[t].at = "wait"
          /\ task'[t].op = "remove" /\ task'[t].at \in {"leave", "delete"}
          BY <1>0, <1>4, Turning DEF Turns, Keeps, Fields
    <2>3. account = 0 \/ task'[t].at = "delete" \/ Fault("storage")
          BY <1>0, <1>4, GoTurns DEF EnterRemove, Turns
    <2>. QED  BY <1>f, <2>1, <2>2, <2>3, WatchMoves
              DEF Backed, Starts, Removes, Owes, Proper
  <1>5. CASE Sweep(t)
    <2>1. Aside /\ Kinds
          BY <1>5 DEF Sweep, durable, shared
    <2>2. /\ task[t].op \in {"update", "remove", "reconcile"} /\ task[t].at = "sweep"
          /\ task[t].then \in {"resume", "leave"}
          BY <1>0, <1>5 DEF Sweep, At, Course
    <2>3. CASE Now(t, [task[t] EXCEPT !.snap = account, !.at = "spawn"])
      <3>1. Turns(t, "spawn", {"snap"}) /\ task'[t].snap = account
            BY <1>0, <2>3, SnapTurns
      <3>2. Others(t) /\ task'[t].at = "spawn"
            BY <3>1 DEF Turns
      <3>. QED  BY <1>f, <2>1, <2>2, <3>1, <3>2, WatchMoves
                DEF Backed, Starts, Removes, Owes, Proper
    <2>4. CASE /\ Fault("storage")
               /\ Go(t, IF task[t].change = "settings" THEN "leave" ELSE task[t].then)
      <3>1. Others(t) /\ task'[t].at \in {"resume", "leave"}
            BY <1>0, <2>2, <2>4, GoTurns DEF Turns
      <3>. QED  BY <1>f, <2>1, <2>2, <2>4, <3>1, WatchMoves
                DEF Backed, Starts, Removes, Owes, Proper
    <2>. QED  BY <1>5, <2>3, <2>4 DEF Sweep
  <1>6. CASE Spawn(t)
    <2>1. Aside /\ Kinds /\ watcher' = task[t].snap
          BY <1>6 DEF Spawn, durable, shared
    <2>2. /\ task[t].op \in {"update", "remove", "reconcile"} /\ task[t].at = "spawn"
          /\ task[t].then \in {"resume", "leave"}
          BY <1>0, <1>6 DEF Spawn, At, Course
    <2>3. Others(t) /\ task'[t].at \in {"resume", "leave"}
          BY <1>0, <1>6, <2>2, GoTurns DEF Spawn, Turns
    <2>4. watcher' # 0 \/ account = 0
          BY <1>0, <2>1, <2>2 DEF Starts
    <2>. QED  BY <1>f, <2>1, <2>2, <2>3, <2>4, WatchMoves
              DEF Backed, Starts, Removes, Proper
  <1>7. CASE StartWatcher(t)
    <2>1. Aside /\ Kinds /\ watcher' = task[t].snap /\ task[t].at = "start"
          BY <1>7 DEF StartWatcher, durable, shared, At
    <2>2. Others(t) /\ task'[t].op = "none" /\ task'[t].at = "idle"
          BY <1>0, <1>7, Begins DEF StartWatcher, Idle
    <2>3. watcher' # 0 \/ account = 0
          BY <1>0, <2>1 DEF Starts
    <2>. QED  BY <1>f, <2>1, <2>2, <2>3, WatchMoves DEF Backed, Starts, Removes, Proper
  <1>. QED  BY <1>1, <1>2, <1>3, <1>4, <1>5, <1>6, <1>7

(* Steps that take a job over, or ask a rebuild to stop. *)
LEMMA StepWatchTakes ==
    ASSUME IInv, Control, WatchInv, NEW t \in Tasks,
           Resume(t) \/ Startup(t) \/ StartUpdate(t) \/ StartRemove(t)
    PROVE  WatchInv'
  <1>0. /\ task \in [Tasks -> Locals] /\ Courses /\ Course(task[t])
        /\ Proper(task[t]) /\ faults \in Seq(Faults)
        /\ mem # "none" => job # "none" \/ account = 0
        /\ channel.disposition \in {"None", "Retain", "Remove"}
        BY DEF IInv, Shape, Control, ChannelUsed, Courses, WatchInv, StopsFirst, JobBacked
  <1>. DEFINE Aside == UNCHANGED <<account, job, mem, channel, watcher>>
              Kinds == UNCHANGED faults \/ Fault("storage")
  <1>f. /\ Kinds => faults' \in Seq(Faults) /\ (StoreFailed => StoreFailed')
        /\ Fault("storage") => StoreFailed'
        BY <1>0, Failed
  <1>1. CASE Resume(t)
    <2>1. Aside /\ Kinds
          BY <1>1 DEF Resume, durable
    <2>2. /\ Others(t) /\ task[t].op = "update" /\ task[t].at = "resume"
          /\ task'[t].op = "update" /\ task'[t].at \in {"leave", "entry"}
          BY <1>0, <1>1, Turning DEF Turns, Keeps, Fields
    <2>3. task'[t].at = "entry" => job # "none" \/ account = 0
          BY <1>0, <1>1, GoTurns DEF Resume, Turns
    <2>. QED  BY <1>f, <2>1, <2>2, <2>3, WatchStays
              DEF Backed, Starts, Removes, Owes, Proper
  <1>2. CASE Startup(t)
    <2>1. Aside /\ Kinds /\ task[t].at = "startup"
          BY <1>2 DEF Startup, durable, At
    <2>2. CASE mem # "none" /\ Now(t, [task[t] EXCEPT !.reset = mem = "reset", !.at = "entry"])
      <3>1. Others(t) /\ task'[t].at = "entry"
            BY <1>0, <2>2, ResetTurns DEF Turns
      <3>. QED  BY <1>0, <1>f, <2>1, <2>2, <3>1, WatchStays
                DEF Backed, Starts, Removes, Proper
    <2>3. CASE Now(t, [task[t] EXCEPT !.snap = account, !.at = "start"])
      <3>1. Turns(t, "start", {"snap"}) /\ task'[t].snap = account
            BY <1>0, <2>3, SnapTurns
      <3>2. Others(t) /\ task'[t].at = "start"
            BY <3>1 DEF Turns
      <3>. QED  BY <1>f, <2>1, <3>1, <3>2, WatchStays
                DEF Backed, Starts, Removes, Owes, Proper
    <2>4. CASE Done(t) /\ (account = 0 \/ mem # "none" \/ Fault("storage"))
      <3>1. Others(t) /\ task'[t].op = "none" /\ task'[t].at = "idle"
            BY <1>0, <2>4, Begins DEF Idle
      <3>. QED  BY <1>0, <1>f, <2>1, <2>4, <3>1, WatchStays
                DEF Backed, Starts, Removes, Proper
    <2>. QED  BY <1>2, <2>2, <2>3, <2>4 DEF Startup
  <1>3. ASSUME NEW op \in {"update", "remove"}, NEW change, Request(t, op, change)
        PROVE  WatchInv'
    <2>1. /\ task[t] = Idle /\ Others(t)
          /\ task'[t] = [Idle EXCEPT !.op = op, !.at = "queue", !.change = change]
          BY <1>0, <1>3, Begins DEF Request
    <2>2. /\ task[t].op = "none" /\ task[t].at = "idle"
          /\ task'[t].op = op /\ task'[t].at = "queue"
          BY <2>1 DEF Idle
    <2>3. /\ UNCHANGED <<account, job, mem, watcher, faults>>
          /\ channel' = Requested(IF op = "remove" THEN "Remove" ELSE "Retain")
          BY <1>3 DEF Request, durable
    <2>4. /\ channel'.disposition = "None" => channel.disposition = "None"
          /\ channel'.disposition = "Remove" =>
                channel.disposition = "Remove" \/ op = "remove"
          BY <1>0, <2>3 DEF Requested, Control, ChannelUsed
    <2>5. /\ StoreFailed' <=> StoreFailed
          /\ \A u \in Tasks : Removes(task[u]) => Removes(task'[u])
          /\ \A u \in Tasks : Owes(task[u]) => Owes(task'[u])
          /\ op = "remove" => Removes(task'[t])
          BY <2>1, <2>2, <2>3 DEF StoreFailed, Others, Removes, Owes, Starts
    <2>6. RemoveComes'
          BY <2>3, <2>4, <2>5 DEF WatchInv, RemoveComes
    <2>7. Watched'
          BY <2>3, <2>5 DEF WatchInv, Watched
    <2>8. /\ ~Backed(task'[t]) /\ ~Starts(task'[t]) /\ Proper(task'[t])
          /\ task'[t].at # "settle"
          BY <2>2 DEF Backed, Starts, Proper
    <2>9. faults' \in Seq(Faults)
          BY <1>0, <2>3
    <2>. QED  BY <1>0, <2>1, <2>3, <2>4, <2>6, <2>7, <2>8, <2>9, WatchStep
  <1>4. CASE StartUpdate(t)
        BY <1>3, <1>4 DEF StartUpdate
  <1>5. CASE StartRemove(t)
        BY <1>3, <1>5 DEF StartRemove
  <1>. QED  BY <1>1, <1>2, <1>4, <1>5

(* Steps that store or delete the job, or change the account. *)
LEMMA StepWatchWrites ==
    ASSUME IInv, Control, WatchInv, NEW t \in Tasks,
           Schedule(t) \/ Begin(t) \/ Commit(t) \/ Delete(t)
    PROVE  WatchInv'
  <1>0. /\ task \in [Tasks -> Locals] /\ Courses /\ Course(task[t])
        /\ Proper(task[t]) /\ faults \in Seq(Faults) /\ account \in Nat
        /\ task[t].at = "commit" => account # 0
        BY DEF IInv, Shape, AccountStays, Rebuilding, Committing, Control, Courses,
               WatchInv, StopsFirst
  <1>. DEFINE Kinds == UNCHANGED faults \/ Fault("storage")
              Aside == UNCHANGED <<account, job, mem, channel>>
  <1>f. /\ Kinds => faults' \in Seq(Faults) /\ (StoreFailed => StoreFailed')
        /\ Fault("storage") => StoreFailed'
        BY <1>0, Failed
  <1>1. CASE Schedule(t)
    <2>1. Kinds /\ UNCHANGED <<account, channel, watcher>>
          BY <1>1 DEF Schedule
    <2>2. /\ Others(t) /\ task[t].op = "sync" /\ task[t].at = "schedule"
          /\ task'[t].at \in {"register", "release"} /\ task'[t].op \in {"sync", "rebuild"}
          BY <1>0, <1>1, Turning DEF Turns, Keeps, Fields
    <2>3. CASE job' # "none" /\ mem' = job'
      <3>1. \A u \in Tasks : Removes(task[u]) => Removes(task'[u])
            BY <2>2 DEF Others, Removes
      <3>2. RemoveComes' /\ Watched'
            BY <1>f, <2>1, <2>3, <3>1 DEF WatchInv, RemoveComes, Watched
      <3>3. ~Starts(task'[t]) /\ Proper(task'[t]) /\ task'[t].at # "settle"
            BY <2>2 DEF Starts, Proper
      <3>. QED  BY <1>f, <2>1, <2>2, <2>3, <3>2, <3>3, WatchStep
    <2>4. CASE UNCHANGED <<job, mem>> /\ task'[t].at = "release"
          BY <1>f, <2>1, <2>2, <2>4, WatchMoves DEF Backed, Starts, Removes, Owes, Proper
    <2>5. Schedule(t) => \/ job' # "none" /\ mem' = job'
                         \/ UNCHANGED <<job, mem>> /\ task'[t].at = "release"
          BY <1>0, GoTurns DEF Schedule, Kind, Turns
    <2>. QED  BY <1>1, <2>3, <2>4, <2>5
  <1>2. CASE Begin(t)
    <2>1. Kinds /\ UNCHANGED <<account, channel, watcher>>
          BY <1>2 DEF Begin
    <2>2. /\ Others(t) /\ task[t].op = "rebuild" /\ task[t].at = "begin"
          /\ task'[t].op = "rebuild" /\ task'[t].stopped = task[t].stopped
          /\ task'[t].at = "sync" \/ (task'[t].at = "settle" /\ task'[t].end = "failed")
          BY <1>0, <1>2, Turning DEF Turns, Keeps, Fields
    <2>3. task[t].stopped
          BY <1>0, <2>2 DEF Proper
    <2>4. /\ ~Starts(task'[t]) /\ Proper(task'[t]) /\ Backed(task[t])
          /\ ~Removes(task[t]) /\ Owes(task'[t])
          BY <2>2, <2>3 DEF Starts, Proper, Backed, Removes, Owes
    <2>5. CASE job' # "none" /\ mem' = job'
      <3>1. \A u \in Tasks : Removes(task[u]) => Removes(task'[u])
            BY <2>2, <2>4 DEF Others
      <3>2. RemoveComes' /\ Watched'
            BY <1>f, <2>1, <2>5, <3>1 DEF WatchInv, RemoveComes, Watched
      <3>. QED  BY <1>f, <2>1, <2>2, <2>4, <2>5, <3>2, WatchStep
    <2>6. CASE UNCHANGED <<job, mem>>
          BY <1>f, <2>1, <2>2, <2>4, <2>6, WatchMoves
    <2>. QED  BY <1>2, <2>5, <2>6 DEF Begin, Kind
  <1>3. CASE Commit(t)
    <2>1. Kinds /\ UNCHANGED channel
          BY <1>3 DEF Commit
    <2>2. /\ Others(t) /\ task[t].op = "update" /\ task[t].at = "commit"
          /\ task'[t].op = "update" /\ task'[t].at \in {"resume", "leave", "sweep"}
          BY <1>0, <1>3, Turning DEF Turns, Keeps, Fields
    <2>3. /\ ~Backed(task'[t]) /\ ~Starts(task'[t]) /\ Proper(task'[t])
          /\ task'[t].at # "settle" /\ ~Removes(task[t])
          /\ task[t].change = "settings" => ~Owes(task[t])
          BY <2>2 DEF Backed, Starts, Proper, Removes, Owes
    <2>4. CASE /\ UNCHANGED <<account, job, mem>>
               /\ \/ watcher' = account
                  \/ UNCHANGED watcher /\ task[t].change = "settings"
                  \/ Fault("storage")
      <3>. QED  BY <1>0, <1>f, <2>1, <2>2, <2>3, <2>4, WatchMoves
    <2>5. CASE account' = account + 1 /\ job' = "reset" /\ mem' = "reset"
      <3>1. \A u \in Tasks : Removes(task[u]) => Removes(task'[u])
            BY <2>2, <2>3 DEF Others
      <3>2. account # 0 /\ account' # 0
            BY <1>0, <2>2, <2>5
      <3>3. RemoveComes' /\ Watched'
            BY <1>f, <2>1, <2>5, <3>1, <3>2 DEF WatchInv, RemoveComes, Watched
      <3>. QED  BY <1>f, <2>1, <2>2, <2>3, <2>5, <3>2, <3>3, WatchStep
    <2>. QED  BY <1>3, <2>4, <2>5 DEF Commit
  <1>4. CASE Delete(t)
    <2>1. Kinds /\ UNCHANGED <<mem, channel, watcher>>
          BY <1>4 DEF Delete, shared
    <2>2. /\ Others(t) /\ task[t].op = "remove" /\ task[t].at = "delete"
          /\ task'[t].op = "remove" /\ task'[t].at \in {"leave", "sweep"}
          BY <1>0, <1>4, Turning DEF Turns, Keeps, Fields
    <2>3. ~Backed(task'[t]) /\ ~Starts(task'[t]) /\ Proper(task'[t])
          BY <2>2 DEF Backed, Starts, Proper
    <2>4. CASE Fault("storage") /\ UNCHANGED <<account, job>>
          BY <1>f, <2>1, <2>2, <2>3, <2>4, WatchMoves
    <2>5. CASE account' = 0
      <3>1. RemoveComes' /\ Watched'
            BY <2>5 DEF RemoveComes, Watched
      <3>. QED  BY <1>f, <2>1, <2>2, <2>3, <2>5, <3>1, WatchStep
    <2>. QED  BY <1>4, <2>4, <2>5 DEF Delete, durable
  <1>. QED  BY <1>1, <1>2, <1>3, <1>4

(* A rebuild that ends either keeps a durable job, or brings the watcher    *)
(* back, or has been stopped for a removal that is still to come.           *)
LEMMA StepWatchSettles ==
    ASSUME IInv, Control, WatchInv, NEW t \in Tasks, Settle(t)
    PROVE  WatchInv'
  <1>. DEFINE keep == task[t].end # "ok" /\ Retains(t)
  <1>0. /\ task \in [Tasks -> Locals] /\ Courses /\ task[t].at = "settle"
        /\ Proper(task[t]) /\ faults \in Seq(Faults)
        /\ channel.disposition \in {"None", "Retain", "Remove"}
        /\ UNCHANGED <<account, channel, watcher>> /\ mem' = "none"
        /\ UNCHANGED faults \/ Fault("storage")
        BY DEF IInv, Shape, Control, ChannelUsed, WatchInv, StopsFirst, Settle, At
  <1>1. /\ faults' \in Seq(Faults) /\ (StoreFailed => StoreFailed')
        /\ Fault("storage") => StoreFailed'
        BY <1>0, Failed
  <1>2. Turns(t, "restart", {"keep"}) /\ task'[t].keep = keep
    <2>1. Now(t, [task[t] EXCEPT !.keep = keep, !.at = "restart"])
          BY DEF Settle
    <2>. HIDE DEF keep
    <2>. QED  BY <1>0, <2>1, KeepTurns
  <1>3. /\ Others(t) /\ task[t].op = "rebuild" /\ task'[t].op = "rebuild"
        /\ task'[t].at = "restart" /\ task'[t].stopped = task[t].stopped
        BY <1>0, <1>2, Turning DEF Turns, Keeps, Fields
  <1>4. /\ ~Backed(task'[t]) /\ ~Starts(task'[t]) /\ Proper(task'[t])
        /\ ~Removes(task[t]) /\ Backed(task[t]) /\ Reserves(task[t])
        BY <1>0, <1>3 DEF Backed, Starts, Proper, Removes, Reserves
  <1>5. \A u \in Tasks : Removes(task[u]) => Removes(task'[u])
        BY <1>3, <1>4 DEF Others
  <1>6. RemoveComes'
        BY <1>0, <1>1, <1>5 DEF WatchInv, RemoveComes
  <1>7. job # "none" \/ account = 0
        BY <1>4 DEF WatchInv, JobBacked
  <1>8. Watched'
    <2>1. CASE account = 0 \/ Fault("storage")
          BY <1>0, <1>1, <2>1 DEF Watched
    <2>2. CASE account # 0 /\ ~Fault("storage") /\ keep
      <3>1. job' = CASE ~keep -> "none"
                     [] mem = "none" -> job
                     [] OTHER -> mem
            BY <2>2 DEF Settle
      <3>2. job' # "none"
            BY <1>7, <2>2, <3>1
      <3>. QED  BY <3>2 DEF Watched
    <2>3. CASE ~keep /\ task[t].stopped
      <3>1. Owes(task'[t])
            BY <1>2, <1>3, <2>3 DEF Owes
      <3>. QED  BY <3>1 DEF Watched
    <2>4. CASE ~keep /\ ~task[t].stopped /\ account # 0
      <3>1. task[t].end = "cancelled" /\ channel.disposition # "None"
            BY <1>0, <2>4 DEF Proper, WatchInv, Heard
      <3>2. channel.disposition = "Remove"
            BY <1>0, <2>4, <3>1 DEF Retains
      <3>3. StoreFailed \/ \E u \in Tasks : Removes(task[u])
            BY <2>4, <3>2 DEF WatchInv, RemoveComes
      <3>4. \A u \in Tasks : Removes(task'[u]) => Owes(task'[u])
            BY DEF Owes
      <3>. QED  BY <1>1, <1>5, <3>3, <3>4 DEF Watched
    <2>. QED  BY <2>1, <2>2, <2>3, <2>4
  <1>. QED  BY <1>0, <1>1, <1>3, <1>4, <1>6, <1>8, WatchStep

(* The start of the process, a restart, and stuttering. *)
LEMMA InitWatch == Init => WatchInv
  <1>. SUFFICES ASSUME Init PROVE WatchInv
       OBVIOUS
  <1>1. PICK s \in Tasks :
            task = [t \in Tasks |-> IF t = s THEN [Idle EXCEPT !.op = "startup",
                                                              !.at = "startup"]
                                    ELSE Idle]
        BY DEF Init
  <1>2. /\ \A t \in Tasks : task[t].op \in {"none", "startup"}
                            /\ task[t].at \in {"idle", "startup"}
        /\ task[s].at = "startup"
        BY <1>1 DEF Idle
  <1>3. mem = job /\ channel.disposition = "None" /\ faults = <<>>
        BY DEF Init, NoChannel
  <1>4. faults \in Seq(Faults)
        BY <1>3
  <1>5. Owes(task[s])
        BY <1>2 DEF Owes
  <1>6. JobBacked /\ Snapped /\ StopsFirst /\ Heard
        BY <1>2, <1>3 DEF JobBacked, Backed, Snapped, Starts, StopsFirst, Proper, Heard
  <1>. QED  BY <1>3, <1>4, <1>5, <1>6 DEF WatchInv, RemoveComes, Watched

(* A restart owes the watcher to the startup task.                          *)
LEMMA CrashWatch == WatchInv /\ Crash => WatchInv'
  <1>. SUFFICES ASSUME WatchInv, Crash PROVE WatchInv'
       OBVIOUS
  <1>1. PICK s \in Tasks :
            task' = [t \in Tasks |-> IF t = s THEN [Idle EXCEPT !.op = "startup",
                                                               !.at = "startup"]
                                     ELSE Idle]
        BY DEF Crash
  <1>2. /\ \A t \in Tasks : task'[t].op \in {"none", "startup"}
                            /\ task'[t].at \in {"idle", "startup"}
        /\ task'[s].at = "startup"
        BY <1>1 DEF Idle
  <1>3. /\ mem' = job /\ UNCHANGED <<account, job>> /\ channel'.disposition = "None"
        /\ Fault("crash")
        BY DEF Crash, NoChannel, durable
  <1>4. faults' \in Seq(Faults)
        BY <1>3, Failing DEF WatchInv
  <1>5. Owes(task'[s])
        BY <1>2 DEF Owes
  <1>6. JobBacked' /\ Snapped' /\ StopsFirst' /\ Heard'
        BY <1>2, <1>3 DEF JobBacked, Backed, Snapped, Starts, StopsFirst, Proper, Heard
  <1>7. RemoveComes' /\ Watched'
        BY <1>3, <1>5 DEF RemoveComes, Watched
  <1>. QED  BY <1>4, <1>6, <1>7 DEF WatchInv

(* Stuttering changes none of it.                                           *)
LEMMA StutterWatch == WatchInv /\ UNCHANGED vars => WatchInv'
  BY DEF WatchInv, JobBacked, Snapped, StopsFirst, Heard, RemoveComes, Watched,
         StoreFailed, vars

(* As long as the store answers, an account without watcher and without job *)
(* has a task that will start one: run_mail_rebuild_locked, update_account  *)
(* and reconcile remember that they have stopped it.                        *)
THEOREM WatcherIsOwed == Spec => []WatchInv
  <1>1. IInv /\ Control /\ WatchInv /\ [Next]_vars => WatchInv'
        BY StepWatchStays, StepWatchMoves, StepWatchTakes, StepWatchWrites,
           StepWatchSettles, CrashWatch, StutterWatch DEF Next, Step
  <1>. QED  BY <1>1, InitWatch, WorkIsGuarded, HeldIsNamed, PTL DEF Spec

(* When every operation has ended and the store has not failed, an account  *)
(* with no rebuild pending has its watcher: a rebuild that is cancelled     *)
(* while queued, an update that changes nothing, a removal that comes too   *)
(* late and a reconciliation in between do not leave the account deaf       *)
(* (restart_realtime_if_current, RealtimeSyncManager::reconcile).           *)
THEOREM WatcherComesBack == Spec => []WatchedWhenQuiet
  <1>1. WatchInv => WatchedWhenQuiet
    <2>. SUFFICES ASSUME WatchInv, Quiet, account # 0, job = "none", ~StoreFailed
                  PROVE  watcher # 0
         BY DEF WatchedWhenQuiet
    <2>1. Idle.op = "none" /\ Idle.at = "idle"
          BY DEF Idle
    <2>2. \A t \in Tasks : ~Owes(task[t])
          BY <2>1 DEF Quiet, Owes, Starts, Removes
    <2>. QED  BY <2>2 DEF WatchInv, Watched
  <1>. QED  BY <1>1, WatcherIsOwed, PTL
-----------------------------------------------------------------------------
(* The durable job, when the store holds no job of an older version *)

(* A task with such locals has a rebuild's reset flag to hand on. *)
Carries(l) == \/ l.op = "rebuild" \/ (l.op = "sync" /\ l.at = "schedule")
              \/ l.op \in {"update", "startup"} /\ l.at = "entry"

OnlyResets == /\ job # "resume" /\ mem # "resume"
              /\ \A t \in Tasks : Carries(task[t]) => task[t].reset = TRUE

(* What a rebuild that settles knows of its outcome. *)
Outcome(t) == /\ task[t].end # "none"
              /\ task[t].end = "ok" => index = account
Ended == \A t \in Tasks : task[t].at = "settle" => Outcome(t)

(* Only a removal asks a rebuild to forget its job. *)
RemoveMeansLeaving == channel.disposition = "Remove" => leaving

JobInv == OnlyResets /\ Ended /\ RemoveMeansLeaving /\ ResetNotLost

(* What a step of one task has to respect here. *)
LEMMA JobStep ==
    ASSUME IInv, JobInv, NEW t \in Tasks, Others(t),
           job' # "resume", mem' # "resume",
           Carries(task'[t]) => task'[t].reset = TRUE,
           task'[t].at = "settle" => Outcome(t)',
           UNCHANGED <<account, index>> \/ Holds(t),
           RemoveMeansLeaving', ResetNotLost'
    PROVE  JobInv'
  <1>1. OnlyResets'
        BY DEF JobInv, OnlyResets, Others, Carries
  <1>2. ASSUME NEW u \in Tasks, task'[u].at = "settle" PROVE Outcome(u)'
    <2>1. CASE u = t
          BY <1>2, <2>1
    <2>2. CASE u # t
      <3>1. task'[u] = task[u] /\ task[u].at = "settle" /\ Outcome(u)
            BY <1>2, <2>2 DEF Others, JobInv, Ended
      <3>2. Holds(u)
            BY <3>1 DEF IInv, LockHeld, Rebuilding
      <3>3. UNCHANGED <<account, index>>
            BY <2>2, <3>2, OneHolder
      <3>. QED  BY <2>2, <3>1, <3>3 DEF Outcome
    <2>. QED  BY <2>1, <2>2
  <1>3. Ended'
        BY <1>2 DEF Ended, Outcome
  <1>. QED  BY <1>1, <1>3 DEF JobInv

(* Most steps leave the store alone. *)
LEMMA JobStays ==
    ASSUME IInv, JobInv, NEW t \in Tasks, Others(t),
           UNCHANGED <<account, index, job, leaving>>, mem' \in {mem, "none"},
           channel'.disposition \in {channel.disposition, "None"},
           Carries(task'[t]) => task'[t].reset = TRUE,
           task'[t].at = "settle" => task'[t].end = "cancelled"
    PROVE  JobInv'
  <1>1. RemoveMeansLeaving' /\ ResetNotLost'
        BY DEF JobInv, RemoveMeansLeaving, ResetNotLost
  <1>2. job' # "resume" /\ mem' # "resume"
        BY DEF JobInv, OnlyResets
  <1>3. task'[t].at = "settle" => Outcome(t)'
        BY DEF Outcome
  <1>. QED  BY <1>1, <1>2, <1>3, JobStep

(* Steps outside the channel that keep the reset flag, or carry none. *)
LEMMA StepJobStays ==
    ASSUME IInv, Control, JobInv, NEW t \in Tasks,
           \/ Check(t) \/ Restart(t) \/ Release(t) \/ Queue(t) \/ EnterUpdate(t)
           \/ EnterRemove(t) \/ Sweep(t) \/ Spawn(t) \/ StartWatcher(t) \/ SyncAccount(t)
           \/ StartReconcile(t) \/ Leave(t)
    PROVE  JobInv'
  <1>0. task \in [Tasks -> Locals] /\ Courses /\ Course(task[t])
        /\ (Carries(task[t]) => task[t].reset = TRUE)
        BY DEF IInv, Shape, Control, Courses, JobInv, OnlyResets
  <1>. DEFINE Plain == UNCHANGED <<account, index, job, leaving, mem, channel>>
  <1>1. CASE Check(t)
    <2>1. Plain
          BY <1>1 DEF Check, durable, shared
    <2>2. /\ task[t].op = "rebuild" /\ task'[t].op = "rebuild" /\ Others(t)
          /\ task'[t].reset = task[t].reset
          /\ task'[t].at = "settle" => task'[t].end = "cancelled"
          BY <1>0, <1>1, Turning DEF Turns, Keeps, Fields
    <2>. QED  BY <1>0, <2>1, <2>2, JobStays DEF Carries
  <1>2. CASE Restart(t)
    <2>1. Plain
          BY <1>2 DEF Restart, durable, shared
    <2>2. /\ task[t].op = "rebuild" /\ Others(t) /\ task'[t].at = "clear"
          /\ task'[t].reset = task[t].reset
          BY <1>0, <1>2, Turning DEF Turns, Keeps, Fields
    <2>. QED  BY <1>0, <2>1, <2>2, JobStays DEF Carries
  <1>3. CASE Release(t)
    <2>1. Plain
          BY <1>3 DEF Release, durable
    <2>2. /\ Others(t) /\ task'[t].at = "unreserve" /\ task'[t].op = task[t].op
          /\ task'[t].reset = task[t].reset
          BY <1>0, <1>3, Turning DEF Turns, Keeps, Fields
    <2>. QED  BY <1>0, <2>1, <2>2, JobStays DEF Carries
  <1>4. CASE Queue(t)
    <2>1. Plain
          BY <1>4 DEF Queue, durable, shared
    <2>2. /\ Others(t) /\ task'[t].at = "wait" /\ task'[t].op \in {"update", "remove"}
          BY <1>0, <1>4, Turning DEF Turns, Keeps, Fields
    <2>. QED  BY <1>0, <2>1, <2>2, JobStays DEF Carries
  <1>5. CASE EnterUpdate(t) \/ EnterRemove(t)
    <2>1. Plain
          BY <1>5 DEF EnterUpdate, EnterRemove, durable, shared
    <2>2. /\ Others(t) /\ task'[t].at \in {"leave", "resume", "commit", "delete"}
          /\ task'[t].op \in {"update", "remove"}
          BY <1>0, <1>5, Turning DEF Turns, Keeps, Fields
    <2>. QED  BY <1>0, <2>1, <2>2, JobStays DEF Carries
  <1>6. CASE Sweep(t) \/ Spawn(t)
    <2>1. Plain
          BY <1>6 DEF Sweep, Spawn, durable, shared
    <2>2. /\ Others(t) /\ task'[t].at \in {"leave", "resume", "spawn"}
          /\ task'[t].op \in {"update", "remove", "reconcile"}
      <3>1. /\ Others(t) /\ task'[t].at \in {"leave", "spawn", task[t].then}
            /\ task[t].op \in {"update", "remove", "reconcile"} /\ task'[t].op = task[t].op
            /\ task[t].at \in {"sweep", "spawn"}
            BY <1>0, <1>6, Turning DEF Turns, Keeps, Fields
      <3>. QED  BY <1>0, <3>1 DEF Course
    <2>. QED  BY <1>0, <2>1, <2>2, JobStays DEF Carries
  <1>7. CASE StartWatcher(t) \/ Leave(t)
    <2>1. Plain
          BY <1>7 DEF StartWatcher, Leave, durable, shared
    <2>2. Others(t) /\ task'[t].op = "none" /\ task'[t].at = "idle"
          BY <1>0, <1>7, Begins DEF StartWatcher, Leave, Idle
    <2>. QED  BY <1>0, <2>1, <2>2, JobStays DEF Carries
  <1>8. CASE SyncAccount(t)
    <2>1. Plain
          BY <1>8 DEF SyncAccount, durable
    <2>2. Others(t) /\ task'[t].op = "sync" /\ task'[t].at = "entry"
      <3>1. Others(t) /\ task'[t] = [Idle EXCEPT !.op = "sync", !.at = "entry"]
            BY <1>0, <1>8, Begins DEF SyncAccount, Become
      <3>. QED  BY <3>1 DEF Idle
    <2>. QED  BY <1>0, <2>1, <2>2, JobStays DEF Carries
  <1>9. CASE StartReconcile(t)
    <2>1. Plain
          BY <1>9 DEF StartReconcile, durable, shared
    <2>2. Others(t) /\ task'[t].op = "reconcile" /\ task'[t].at = "sweep"
      <3>1. Others(t) /\ task'[t] = [Idle EXCEPT !.op = "reconcile", !.at = "sweep", !.then = "leave"]
            BY <1>0, <1>9, Begins DEF StartReconcile
      <3>. QED  BY <3>1 DEF Idle
    <2>. QED  BY <1>0, <2>1, <2>2, JobStays DEF Carries
  <1>. QED  BY <1>1, <1>2, <1>3, <1>4, <1>5, <1>6, <1>7, <1>8, <1>9

(* Steps that set the reset flag from the job, or touch the channel. *)
LEMMA StepJobFlags ==
    ASSUME IInv, Control, JobInv, NEW t \in Tasks,
           \/ Resume(t) \/ Startup(t) \/ ReserveChannel(t) \/ Lookup(t) \/ Register(t)
           \/ Enter(t) \/ Clear(t) \/ Unreserve(t)
    PROVE  JobInv'
  <1>0. /\ task \in [Tasks -> Locals] /\ Courses /\ Course(task[t])
        /\ job \in {"none", "reset"} /\ mem \in {"none", "reset"}
        /\ Carries(task[t]) => task[t].reset = TRUE
        /\ channel.disposition \in {"None", "Retain", "Remove"}
        BY DEF IInv, Shape, Jobs, Control, ChannelUsed, Courses, JobInv, OnlyResets
  <1>1. CASE Resume(t)
    <2>1. UNCHANGED <<account, index, job, leaving, mem, channel>>
          BY <1>1 DEF Resume, durable
    <2>2. /\ Others(t) /\ task'[t].op = "update" /\ task'[t].at \in {"leave", "entry"}
          BY <1>0, <1>1, Turning DEF Turns, Keeps, Fields
    <2>3. task'[t].at = "entry" => task'[t].reset = TRUE
      <3>. DEFINE pending == IF mem # "none" THEN mem ELSE job
      <3>1. pending # "none" => (pending = "reset") = TRUE
            BY <1>0
      <3>. HIDE DEF pending
      <3>2. \/ Go(t, "leave")
            \/ /\ pending # "none"
               /\ Now(t, [task[t] EXCEPT !.reset = pending = "reset", !.at = "entry"])
            BY <1>1 DEF Resume, pending
      <3>3. CASE Go(t, "leave")
            BY <1>0, <3>3, GoTurns DEF Turns
      <3>4. CASE pending # "none"
                 /\ Now(t, [task[t] EXCEPT !.reset = pending = "reset", !.at = "entry"])
        <4>1. Now(t, [task[t] EXCEPT !.reset = TRUE, !.at = "entry"])
              BY <3>1, <3>4
        <4>. QED  BY <1>0, <4>1, ResetTurns
      <3>. QED  BY <3>2, <3>3, <3>4
    <2>. QED  BY <2>1, <2>2, <2>3, JobStays DEF Carries
  <1>2. CASE Startup(t)
    <2>1. UNCHANGED <<account, index, job, leaving, mem, channel>>
          BY <1>2 DEF Startup, durable
    <2>2. CASE Now(t, [task[t] EXCEPT !.reset = mem = "reset", !.at = "entry"])
               /\ mem # "none"
      <3>1. (mem = "reset") = TRUE
            BY <1>0, <2>2
      <3>2. Now(t, [task[t] EXCEPT !.reset = TRUE, !.at = "entry"])
            BY <2>2, <3>1
      <3>3. Others(t) /\ task'[t].reset = TRUE /\ task'[t].at = "entry"
            BY <1>0, <3>2, ResetTurns DEF Turns
      <3>. QED  BY <2>1, <3>3, JobStays DEF Carries
    <2>3. CASE Now(t, [task[t] EXCEPT !.snap = account, !.at = "start"])
      <3>1. /\ Others(t) /\ task'[t].at = "start" /\ task'[t].op = task[t].op
            BY <1>0, <2>3, SnapTurns DEF Turns, Keeps, Fields
      <3>2. task[t].op = "startup"
            BY <1>0, <1>2, Turning
      <3>. QED  BY <2>1, <3>1, <3>2, JobStays DEF Carries
    <2>4. CASE Done(t)
      <3>1. Others(t) /\ task'[t].op = "none" /\ task'[t].at = "idle"
            BY <1>0, <2>4, Begins DEF Idle
      <3>. QED  BY <2>1, <3>1, JobStays DEF Carries
    <2>. QED  BY <1>2, <2>2, <2>3, <2>4 DEF Startup
  <1>3. CASE ReserveChannel(t)
    <2>1. /\ UNCHANGED <<account, index, job, leaving, mem>>
          /\ channel'.disposition = channel.disposition
          BY <1>3 DEF ReserveChannel, durable, Control, ChannelUsed
    <2>2. CASE task[t].op = "sync"
      <3>1. Turns(t, "lookup", {})
            BY <1>0, <1>3, <2>2, GoTurns DEF ReserveChannel
      <3>2. Others(t) /\ task'[t].at = "lookup" /\ task'[t].op = "sync"
            BY <2>2, <3>1 DEF Turns, Keeps, Fields
      <3>. QED  BY <2>1, <3>2, JobStays DEF Carries
    <2>3. CASE task[t].op # "sync"
      <3>1. /\ task'[t] = [Idle EXCEPT !.op = "rebuild", !.at = "register",
                                       !.reset = task[t].reset]
            /\ Others(t)
            BY <1>0, <1>3, <2>3, Begins DEF ReserveChannel
      <3>2. task'[t].at = "register" /\ task'[t].reset = task[t].reset
            BY <3>1 DEF Idle
      <3>3. Carries(task[t])
            BY <1>0, <1>3, <2>3 DEF ReserveChannel, At, Course, Carries
      <3>. QED  BY <1>0, <2>1, <3>1, <3>2, <3>3, JobStays
    <2>. QED  BY <2>2, <2>3
  <1>4. CASE Lookup(t)
    <2>1. UNCHANGED <<account, index, job, leaving, mem, channel>>
          BY <1>4 DEF Lookup, durable, shared
    <2>2. Others(t) /\ task'[t].op = "sync" /\ task'[t].at \in {"release", "schedule"}
          BY <1>0, <1>4, Turning DEF Turns, Keeps, Fields
    <2>3. task'[t].at = "schedule" => task'[t].reset = TRUE
      <3>1. (mem # "resume") = TRUE
            BY <1>0
      <3>2. \/ Go(t, "release")
            \/ Now(t, [task[t] EXCEPT !.reset = TRUE, !.at = "schedule"])
            BY <1>4, <3>1 DEF Lookup
      <3>3. CASE Go(t, "release")
            BY <1>0, <3>3, GoTurns DEF Turns
      <3>4. CASE Now(t, [task[t] EXCEPT !.reset = TRUE, !.at = "schedule"])
            BY <1>0, <3>4, ResetTurns
      <3>. QED  BY <3>2, <3>3, <3>4
    <2>. QED  BY <2>1, <2>2, <2>3, JobStays DEF Carries
  <1>5. CASE Register(t)
    <2>1. /\ UNCHANGED <<account, index, job, leaving, mem>>
          /\ channel'.disposition = channel.disposition
          BY <1>5 DEF Register, Registered, durable, Control, ChannelUsed
    <2>2. /\ Others(t) /\ task[t].op = "rebuild" /\ task'[t].at = "wait"
          /\ task'[t].reset = task[t].reset
          BY <1>0, <1>5, Turning DEF Turns, Keeps, Fields
    <2>. QED  BY <1>0, <2>1, <2>2, JobStays DEF Carries
  <1>6. CASE Enter(t)
    <2>1. /\ UNCHANGED <<account, index, job, leaving, channel>>
          /\ mem' \in {mem, "none"}
          BY <1>6 DEF Enter, durable
    <2>2. Others(t) /\ task[t].op = "rebuild" /\ task'[t].at \in {"clear", "check"}
          BY <1>0, <1>6, Turning DEF Turns
    <2>3. task[t].reset = TRUE
          BY <1>0, <2>2 DEF Carries
    <2>4. task'[t].reset = TRUE
      <3>1. (task[t].reset \/ job = "reset") = TRUE
            BY <2>3
      <3>2. \/ Go(t, "clear")
            \/ Now(t, [task[t] EXCEPT !.reset = TRUE, !.at = "check"])
            BY <1>6, <3>1 DEF Enter
      <3>3. CASE Go(t, "clear")
            BY <1>0, <2>3, <3>3, GoTurns DEF Turns, Keeps, Fields
      <3>4. CASE Now(t, [task[t] EXCEPT !.reset = TRUE, !.at = "check"])
            BY <1>0, <3>4, ResetTurns
      <3>. QED  BY <3>2, <3>3, <3>4
    <2>. QED  BY <2>1, <2>2, <2>4, JobStays
  <1>7. CASE Clear(t)
    <2>1. /\ UNCHANGED <<account, index, job, leaving, mem>>
          /\ channel'.disposition \in {channel.disposition, "None"}
          BY <1>7 DEF Clear, Pruned, NoChannel, durable, Control, ChannelUsed
    <2>2. /\ Others(t) /\ task[t].op = "rebuild" /\ task'[t].at = "release"
          /\ task'[t].reset = task[t].reset
          BY <1>0, <1>7, Turning DEF Turns, Keeps, Fields
    <2>. QED  BY <1>0, <2>1, <2>2, JobStays DEF Carries
  <1>8. CASE Unreserve(t)
    <2>1. /\ UNCHANGED <<account, index, job, leaving, mem>>
          /\ channel'.disposition \in {channel.disposition, "None"}
          BY <1>8 DEF Unreserve, Pruned, NoChannel, durable, Control, ChannelUsed
    <2>2. Others(t) /\ task'[t].op = "none" /\ task'[t].at = "idle"
          BY <1>0, <1>8, Begins DEF Unreserve, Idle
    <2>. QED  BY <1>0, <2>1, <2>2, JobStays DEF Carries
  <1>. QED  BY <1>1, <1>2, <1>3, <1>4, <1>5, <1>6, <1>7, <1>8

(* Steps that write the job, the account or the catalogue. *)
LEMMA StepJobWrites ==
    ASSUME IInv, Control, JobInv, NEW t \in Tasks,
           \/ Schedule(t) \/ Begin(t) \/ Rebuild(t) \/ Commit(t) \/ Delete(t)
    PROVE  JobInv'
  <1>0. /\ task \in [Tasks -> Locals] /\ Courses /\ Course(task[t])
        /\ job # "resume" /\ mem # "resume" /\ account \in Nat
        /\ Carries(task[t]) => task[t].reset = TRUE
        /\ task[t].at \in {"sync", "commit", "delete"} => Holds(t)
        BY DEF IInv, Shape, LockHeld, Rebuilding, Committing, Deleting, Control, Courses,
               JobInv, OnlyResets
  <1>1. CASE Schedule(t) \/ Begin(t)
    <2>1. /\ Others(t) /\ task[t].at \in {"schedule", "begin"}
          /\ task'[t].op \in {"rebuild", "sync"} /\ task'[t].reset = task[t].reset
          /\ task'[t].at # "settle" \/ task'[t].end = "failed"
          /\ Carries(task[t])
          BY <1>0, <1>1, Turning DEF Turns, Keeps, Fields, Carries
    <2>2. /\ UNCHANGED <<account, index, leaving, channel>>
          /\ (job' = Kind(task[t].reset) /\ mem' = job') \/ UNCHANGED <<job, mem>>
          BY <1>1 DEF Schedule, Begin
    <2>3. job' \in {job, "reset"} /\ mem' \in {mem, "reset"}
          BY <1>0, <2>1, <2>2 DEF Kind
    <2>4. task'[t].at = "settle" => Outcome(t)'
          BY <2>1 DEF Outcome
    <2>5. RemoveMeansLeaving' /\ ResetNotLost'
          BY <2>2, <2>3 DEF JobInv, RemoveMeansLeaving, ResetNotLost
    <2>6. Carries(task'[t]) => task'[t].reset = TRUE
          BY <1>0, <2>1
    <2>. QED  BY <1>0, <2>1, <2>2, <2>3, <2>4, <2>5, <2>6, JobStep
  <1>2. CASE Rebuild(t)
    <2>1. PICK end \in {"ok", "failed", "rejected", "cancelled"} :
            /\ index' = IF end = "ok" THEN account ELSE index
            /\ Now(t, [task[t] EXCEPT !.end = end, !.at = "settle"])
          BY <1>2 DEF Rebuild
    <2>2. /\ Others(t) /\ task[t].at = "sync" /\ task[t].op = "rebuild"
          /\ task'[t].end = end /\ task'[t].reset = task[t].reset
      <3>1. Turns(t, "settle", {"end"}) /\ task'[t].end = end
            BY <1>0, <2>1, EndTurns
      <3>2. task[t].at = "sync" /\ task[t].op = "rebuild"
            BY <1>0, <1>2, Turning
      <3>. QED  BY <3>1, <3>2 DEF Turns, Keeps, Fields
    <2>3. UNCHANGED <<account, job, mem, channel, leaving>>
          BY <1>2 DEF Rebuild, shared
    <2>4. Outcome(t)'
          BY <2>1, <2>2, <2>3 DEF Outcome
    <2>5. RemoveMeansLeaving' /\ ResetNotLost'
          BY <2>1, <2>3 DEF JobInv, RemoveMeansLeaving, ResetNotLost
    <2>6. task'[t].reset = TRUE
          BY <1>0, <2>2 DEF Carries
    <2>. QED  BY <1>0, <2>2, <2>3, <2>4, <2>5, <2>6, JobStep
  <1>3. CASE Commit(t) \/ Delete(t)
    <2>1. /\ Others(t) /\ task[t].at \in {"commit", "delete"}
          /\ task'[t].op \in {"update", "remove"}
          /\ task'[t].at \in {"resume", "leave", "sweep"}
          BY <1>0, <1>3, Turning DEF Turns, Keeps, Fields
    <2>2. /\ UNCHANGED <<channel, leaving>>
          /\ job' \in {job, "reset", "none"} /\ mem' \in {mem, "reset"}
          BY <1>3 DEF Commit, Delete, shared, durable
    <2>3. \/ UNCHANGED <<account, index, job>>
          \/ job' = "reset"
          \/ account' = 0
          BY <1>3 DEF Commit, Delete, durable
    <2>4. RemoveMeansLeaving' /\ ResetNotLost'
          BY <2>2, <2>3 DEF JobInv, RemoveMeansLeaving, ResetNotLost
    <2>. QED  BY <1>0, <2>1, <2>2, <2>4, JobStep DEF Carries
  <1>. QED  BY <1>1, <1>2, <1>3

(* The end of a rebuild forgets its job only when the catalogue is the      *)
(* account's, or when the account is to go.                                 *)
LEMMA StepJobSettles ==
    ASSUME IInv, Control, WatchInv, JobInv, NEW t \in Tasks, Settle(t)
    PROVE  JobInv'
  <1>. DEFINE keep == task[t].end # "ok" /\ Retains(t)
  <1>0. /\ task \in [Tasks -> Locals] /\ Courses /\ task[t] \in Locals
        /\ job # "resume" /\ mem \in {"none", "reset"}
        /\ channel.disposition \in {"None", "Retain", "Remove"}
        /\ UNCHANGED <<account, index, channel, leaving>> /\ mem' = "none"
        BY DEF IInv, Shape, Jobs, Control, ChannelUsed, JobInv, OnlyResets, Settle
  <1>1. /\ Others(t) /\ task[t].op = "rebuild" /\ task[t].at = "settle"
        /\ task'[t].at = "restart" /\ task'[t].reset = task[t].reset
        BY <1>0, Turning DEF Turns, Keeps, Fields
  <1>2. task[t].reset = TRUE /\ Outcome(t)
        BY <1>1 DEF JobInv, OnlyResets, Carries, Ended
  <1>3. task[t].end \in {"ok", "failed", "rejected", "cancelled"}
        BY <1>0, <1>2 DEF Locals, Outcome
  <1>4. ~keep => index = account \/ leaving
    <2>1. CASE task[t].end = "ok"
          BY <1>2, <2>1 DEF Outcome
    <2>2. CASE channel.disposition = "Remove"
          BY <2>2 DEF JobInv, RemoveMeansLeaving
    <2>3. CASE task[t].end # "ok" /\ channel.disposition = "Retain"
          BY <2>3 DEF Retains
    <2>4. CASE task[t].end # "ok" /\ channel.disposition = "None"
          BY <1>1, <1>2, <1>3, <2>4 DEF Retains, WatchInv, Heard
    <2>. QED  BY <1>0, <2>1, <2>2, <2>3, <2>4
  <1>. HIDE DEF keep
  <1>5. /\ job' \in {job, "none", "reset"}
        /\ keep => job' \in {job, "reset"}
    <2>1. job' = job \/ job' = IF ~keep THEN "none"
                                 ELSE IF mem = "none" THEN job ELSE mem
          BY DEF Settle, keep
    <2>. QED  BY <1>0, <2>1
  <1>6. RemoveMeansLeaving' /\ ResetNotLost'
        BY <1>0, <1>4, <1>5 DEF JobInv, RemoveMeansLeaving, ResetNotLost
  <1>. QED  BY <1>0, <1>1, <1>2, <1>5, <1>6, JobStep

(* Asking a rebuild to stop. *)
LEMMA StepJobRequests ==
    ASSUME IInv, Control, JobInv, NEW t \in Tasks, StartUpdate(t) \/ StartRemove(t)
    PROVE  JobInv'
  <1>0. /\ task \in [Tasks -> Locals] /\ job # "resume" /\ mem # "resume"
        /\ channel.disposition \in {"None", "Retain", "Remove"}
        BY DEF IInv, Shape, Control, ChannelUsed, JobInv, OnlyResets
  <1>1. ASSUME NEW op \in {"update", "remove"}, NEW change, Request(t, op, change),
               leaving => leaving', op = "remove" => leaving'
        PROVE  JobInv'
    <2>1. /\ Others(t)
          /\ task'[t] = [Idle EXCEPT !.op = op, !.at = "queue", !.change = change]
          BY <1>0, <1>1, Begins DEF Request
    <2>2. task'[t].op = op /\ task'[t].at = "queue"
          BY <2>1 DEF Idle
    <2>3. /\ UNCHANGED <<account, index, job, mem>>
          /\ channel' = Requested(IF op = "remove" THEN "Remove" ELSE "Retain")
          BY <1>1 DEF Request, durable
    <2>4. channel'.disposition = "Remove" =>
                channel.disposition = "Remove" \/ op = "remove"
          BY <1>0, <2>3 DEF Requested, Control, ChannelUsed
    <2>5. RemoveMeansLeaving' /\ ResetNotLost'
          BY <1>1, <2>3, <2>4 DEF JobInv, RemoveMeansLeaving, ResetNotLost
    <2>. QED  BY <1>0, <2>1, <2>2, <2>3, <2>4, <2>5, JobStep DEF Carries
  <1>2. CASE StartUpdate(t)
        BY <1>1, <1>2 DEF StartUpdate
  <1>3. CASE StartRemove(t)
        BY <1>1, <1>3 DEF StartRemove
  <1>. QED  BY <1>2, <1>3

(* The start of the process, a restart, and stuttering. *)
LEMMA CrashJob ==
    ASSUME IInv, JobInv, Crash
    PROVE  JobInv'
  <1>1. PICK s \in Tasks :
            task' = [t \in Tasks |-> IF t = s THEN [Idle EXCEPT !.op = "startup",
                                                               !.at = "startup"]
                                     ELSE Idle]
        BY DEF Crash
  <1>2. \A t \in Tasks : /\ task'[t].op \in {"none", "startup"}
                         /\ task'[t].at \in {"idle", "startup"}
        BY <1>1 DEF Idle
  <1>3. /\ UNCHANGED <<account, index, job, leaving>> /\ mem' = job
        /\ channel'.disposition = "None"
        BY DEF Crash, durable, NoChannel
  <1>4. OnlyResets' /\ Ended'
        BY <1>2, <1>3 DEF JobInv, OnlyResets, Carries, Ended
  <1>. QED  BY <1>3, <1>4 DEF JobInv, RemoveMeansLeaving, ResetNotLost

(* Stuttering keeps the job.                                                *)
LEMMA StutterJob == JobInv /\ UNCHANGED vars => JobInv'
  BY DEF JobInv, OnlyResets, Carries, Ended, Outcome, RemoveMeansLeaving, ResetNotLost, vars

(* A store without old jobs starts with a reset or with none.               *)
LEMMA InitJob == "resume" \notin StoredJobs /\ Init => JobInv
  <1>. SUFFICES ASSUME "resume" \notin StoredJobs, Init PROVE JobInv
       OBVIOUS
  <1>1. PICK s \in Tasks :
            task = [t \in Tasks |-> IF t = s THEN [Idle EXCEPT !.op = "startup",
                                                              !.at = "startup"]
                                    ELSE Idle]
        BY DEF Init
  <1>2. \A t \in Tasks : /\ task[t].op \in {"none", "startup"}
                         /\ task[t].at \in {"idle", "startup"}
        BY <1>1 DEF Idle
  <1>3. /\ job # "resume" /\ mem = job /\ account = 1
        /\ index = IF job = "reset" THEN 0 ELSE 1
        /\ channel.disposition = "None"
        BY DEF Init, NoChannel
  <1>4. OnlyResets /\ Ended
        BY <1>2, <1>3 DEF OnlyResets, Carries, Ended
  <1>. QED  BY <1>3, <1>4 DEF JobInv, RemoveMeansLeaving, ResetNotLost

(* An account that is to stay and whose catalogue is not of its current     *)
(* namespace has a durable reset job: neither a queued rebuild with older   *)
(* arguments, nor rejected credentials, an update's cancellation, a failing *)
(* store or a restart loses the replacement (schedule_mail_rebuild,         *)
(* effective_rebuild_reset, should_retain_mail_rebuild_job).  This version  *)
(* stores no other job than a reset; with a job that an older version left  *)
(* as a plain resume, sync_account can store its own older reading over the *)
(* reset, and the property does not hold.                                   *)
THEOREM ReplacementKept ==
    ASSUME "resume" \notin StoredJobs
    PROVE  Spec => []ResetNotLost
  <1>1. Init => JobInv
        BY InitJob
  <1>2. IInv /\ Control /\ WatchInv /\ JobInv /\ [Next]_vars => JobInv'
        BY StepJobStays, StepJobFlags, StepJobWrites, StepJobSettles, StepJobRequests,
           CrashJob, StutterJob DEF Next, Step
  <1>3. JobInv => ResetNotLost
        BY DEF JobInv
  <1>. QED  BY <1>1, <1>2, <1>3, WorkIsGuarded, HeldIsNamed, WatcherIsOwed, PTL DEF Spec
=============================================================================
