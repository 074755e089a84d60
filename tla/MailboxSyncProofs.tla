-------------------------- MODULE MailboxSyncProofs --------------------------
(* What TLAPS proves of MailboxSync, for every value of its constants.      *)
EXTENDS MailboxSync, FiniteSetTheorems, WellFoundedInduction, TLAPS

-----------------------------------------------------------------------------
(* The helpers the actions are built from *)

(* A nonempty set of naturals has a least element. *)
LEMMA LeastNatural ==
    ASSUME NEW T \in SUBSET Nat, T # {}
    PROVE  \E x \in T : \A y \in T : x <= y
  <1>1. PICK x \in T : \A y \in T : ~(<<y, x>> \in OpToRel(<, Nat))
        BY NatLessThanWellFounded, WFMin, Zenon
  <1>2. \A y \in T : ~(y < x)
        BY <1>1 DEF OpToRel
  <1>. QED  BY <1>2

(* Top is NULL for the empty set and the greatest element of any other.     *)
LEMMA TopIsGreatest ==
    ASSUME NEW S \in SUBSET Uids, MaxUid \in Nat
    PROVE  /\ S = {} => Top(S) = NoMark
           /\ S # {} => Top(S) \in S /\ \A x \in S : x <= Top(S)
  <1>1. CASE S = {}
        BY <1>1 DEF Top
  <1>2. CASE S # {}
    <2>. DEFINE T == {n \in Nat : \E u \in S : n = MaxUid - u}
    <2>1. T # {} /\ T \in SUBSET Nat
      <3>1. PICK u \in S : TRUE
            BY <1>2
      <3>2. MaxUid - u \in T
            BY <3>1 DEF Uids
      <3>. QED  BY <3>2
    <2>. HIDE DEF T
    <2>2. PICK n \in T : \A m \in T : n <= m
          BY <2>1, LeastNatural
    <2>3. PICK u \in S : n = MaxUid - u
          BY <2>2 DEF T
    <2>4. ASSUME NEW x \in S PROVE x <= u
      <3>1. MaxUid - x \in T
            BY DEF Uids, T
      <3>. QED  BY <3>1, <2>2, <2>3 DEF Uids
    <2>5. \E v \in S : \A x \in S : x <= v
          BY <2>4
    <2>. QED  BY <1>2, <2>5, Zenon DEF Top
  <1>. QED  BY <1>1, <1>2

(* Sets of UIDs are finite, and their sizes are naturals. *)
LEMMA UidsAreFinite ==
    ASSUME NEW S \in SUBSET Uids, MaxUid \in Nat
    PROVE  IsFiniteSet(S) /\ Cardinality(S) \in Nat
  <1>1. IsFiniteSet(Uids)
        BY FS_Interval DEF Uids
  <1>. QED  BY <1>1, FS_Subset, FS_CardinalityType

(* What a SELECT reports is an identity. *)
LEMMA IdentityType ==
    ASSUME TypeOK PROVE Identity \in Identities
  <1>1. MaxUid \in Nat /\ MaxValidity \in Nat
        BY SyncAssumption
  <1>2. srv.uids \in SUBSET Uids /\ srv.validity \in 0..MaxValidity /\ srv.next \in Nat
        BY <1>1 DEF TypeOK, Validities
  <1>3. Cardinality(srv.uids) \in Nat
        BY <1>1, <1>2, UidsAreFinite
  <1>. QED  BY <1>2, <1>3 DEF Identity, Identities

(* Top of a set of UIDs is a mark. *)
LEMMA TopType ==
    ASSUME NEW S \in SUBSET Uids PROVE Top(S) \in Marks
  <1>1. MaxUid \in Nat
        BY SyncAssumption
  <1>2. CASE S = {}
        BY <1>1, <1>2, TopIsGreatest DEF Marks
  <1>3. CASE S # {}
    <2>1. Top(S) \in S
          BY <1>1, <1>3, TopIsGreatest
    <2>2. S \subseteq Nat
          BY <1>1 DEF Uids
    <2>. QED  BY <2>1, <2>2 DEF Marks
  <1>. QED  BY <1>2, <1>3

(* A watermark is a UID or NULL. *)
LEMMA WatermarkType ==
    ASSUME TypeOK, NEW w \in Workers PROVE Watermark(w) \in Marks
  <1>1. \A S \in SUBSET Uids : Top(S) \in Marks
        BY TopType
  <1>2. /\ job[w].view \in SUBSET Uids /\ job[w].inc \in SUBSET Uids
        /\ job[w].highest \in Marks /\ NoMark \in Marks
        BY DEF TypeOK, Jobs, Marks
  <1>. DEFINE j          == job[w]
              unresolved == (j.fails \cup j.bad) \ j.ok
              stored(u)  == u \notin unresolved /\ u \in j.local \cup j.ok
              run        == {u \in j.view : u > j.highest /\
                               \A x \in j.view : j.highest < x /\ x <= u => stored(x)}
              window     == {u \in j.inc : \A x \in j.inc : x <= u => x \in j.ok}
  <1>3. Top(run) \in Marks /\ Top(window) \in Marks /\ Top(j.view) \in Marks
    <2>1. run \in SUBSET Uids /\ window \in SUBSET Uids
          BY <1>2
    <2>. QED  BY <1>1, <1>2, <2>1
  <1>4. Watermark(w) = IF j.replace THEN Top(j.view)
                       ELSE IF j.highest # NoMark
                       THEN IF run = {} THEN j.highest ELSE Top(run)
                       ELSE IF j.fatal THEN NoMark ELSE Top(window)
        BY DEF Watermark
  <1>. HIDE DEF run, window, stored, unresolved
  <1>. QED  BY <1>2, <1>3, <1>4

(* A worker's locals change to locals, its step to a step. *)
LEMMA JobType ==
    ASSUME TypeOK, NEW w \in Workers, NEW j \in Jobs, NEW step \in Steps
    PROVE  /\ [job EXCEPT ![w] = j] \in [Workers -> Jobs]
           /\ [pc EXCEPT ![w] = step] \in [Workers -> Steps]
  BY DEF TypeOK

(* The fields of a worker's locals, and of the generation. *)
LEMMA Fields ==
    ASSUME TypeOK, NEW w \in Workers
    PROVE  /\ job[w] \in Jobs
           /\ job[w].ident \in Identities /\ job[w].view \in SUBSET Uids
           /\ job[w].left \in SUBSET Uids /\ job[w].highest \in Marks
           /\ job[w].replace \in BOOLEAN /\ job[w].failed \in BOOLEAN
           /\ job[w].todo \in SUBSET Uids /\ job[w].inc \in SUBSET Uids
           /\ job[w].fails \in SUBSET Uids /\ job[w].ok \in SUBSET Uids
           /\ job[w].bad \in SUBSET Uids /\ job[w].from \in 0..MaxValidity
           /\ job[w].id \in GenIds \cup {NoGen}
           /\ gen.items \in SUBSET Uids /\ gen.ident \in Identities
           /\ gen.msgs \in [Uids -> 0..MaxValidity] /\ gen.id \in GenIds \cup {NoGen}
           /\ sync.highest \in Marks /\ sync.validity \in 0..MaxValidity
           /\ sync.known \in BOOLEAN
           /\ srv.validity \in 0..MaxValidity /\ srv.uids \in SUBSET Uids
  <1>1. job[w] \in Jobs
        BY DEF TypeOK
  <1>2. 0..MaxValidity = {0} \cup Validities
        BY SyncAssumption DEF Validities
  <1>. QED  BY <1>1, <1>2 DEF TypeOK, Jobs

(* The updates the steps make to a worker's locals. *)
LEMMA JobUpdates ==
    ASSUME NEW j \in Jobs
    PROVE  /\ \A c \in BOOLEAN, h \in Marks :
                [j EXCEPT !.replace = c, !.highest = h] \in Jobs
           /\ \A i \in GenIds \cup {NoGen}, l \in SUBSET Uids :
                [j EXCEPT !.id = i, !.left = l] \in Jobs
           /\ \A v, l, f, n, t \in SUBSET Uids :
                [j EXCEPT !.view = v, !.local = l, !.fails = f, !.inc = n, !.todo = t] \in Jobs
           /\ \A o, b \in SUBSET Uids, n \in 0..MaxValidity :
                [j EXCEPT !.ok = o, !.bad = b, !.fatal = TRUE, !.from = n] \in Jobs
           /\ \A t, o, b \in SUBSET Uids, c \in BOOLEAN, n \in 0..MaxValidity :
                [j EXCEPT !.todo = t, !.failed = c, !.ok = o, !.bad = b, !.from = n] \in Jobs
  <1>2. ASSUME NEW c \in BOOLEAN, NEW h \in Marks
        PROVE  [j EXCEPT !.replace = c, !.highest = h] \in Jobs
        BY DEF Jobs
  <1>3. ASSUME NEW i \in GenIds \cup {NoGen}, NEW l \in SUBSET Uids
        PROVE  [j EXCEPT !.id = i, !.left = l] \in Jobs
        BY DEF Jobs
  <1>4. ASSUME NEW v \in SUBSET Uids, NEW l \in SUBSET Uids, NEW f \in SUBSET Uids,
               NEW n \in SUBSET Uids, NEW t \in SUBSET Uids
        PROVE  [j EXCEPT !.view = v, !.local = l, !.fails = f, !.inc = n, !.todo = t] \in Jobs
        BY DEF Jobs
  <1>5. ASSUME NEW o \in SUBSET Uids, NEW b \in SUBSET Uids, NEW n \in 0..MaxValidity
        PROVE  [j EXCEPT !.ok = o, !.bad = b, !.fatal = TRUE, !.from = n] \in Jobs
        BY DEF Jobs
  <1>6. ASSUME NEW t \in SUBSET Uids, NEW o \in SUBSET Uids, NEW b \in SUBSET Uids,
               NEW c \in BOOLEAN, NEW n \in 0..MaxValidity
        PROVE  [j EXCEPT !.todo = t, !.failed = c, !.ok = o, !.bad = b, !.from = n] \in Jobs
        BY DEF Jobs
  <1>. QED  BY <1>2, <1>3, <1>4, <1>5, <1>6

(* The locals of an idle worker have the type of a job. *)
LEMMA NoJobType == NoJob \in Jobs
  BY SyncAssumption DEF NoJob, Jobs, NoIdentity, Identities, Marks, NoMark

(* So has the empty generation. *)
LEMMA NoStageType ==
    NoStage \in [id : GenIds \cup {NoGen}, ident : Identities,
                 items : SUBSET Uids, msgs : [Uids -> 0..MaxValidity]]
  BY SyncAssumption DEF NoStage, NoIdentity, Identities

-----------------------------------------------------------------------------
(* Type correctness *)

(* Every initial state, empty or synced, has the declared types. *)
LEMMA InitType == Init => TypeOK
  <1>. SUFFICES ASSUME Init PROVE TypeOK
        OBVIOUS
  <1>1. PICK fresh \in StartFresh, n \in 0..MaxUid, c \in Capabilities :
          /\ srv = [validity |-> 1, uids |-> 1..n, next |-> n + 1, caps |-> c]
          /\ rows = [u \in Uids |-> IF ~fresh /\ u <= n THEN 1 ELSE 0]
          /\ catalog = IF fresh THEN NoCatalog ELSE Identity
          /\ sync = IF fresh THEN NoSync
                    ELSE [known |-> TRUE, validity |-> 1, highest |-> Top(1..n)]
          /\ failures = {} /\ tombs = {} /\ gen = NoStage
          /\ pc = [w \in Workers |-> "idle"]
          /\ job = [w \in Workers |-> NoJob]
          /\ user = [uid |-> 0, validity |-> 0]
          /\ faults = 0 /\ gone = {} /\ notified = {}
        BY DEF Init
  <1>2. 1..n \in SUBSET Uids /\ MaxUid \in Nat /\ MaxValidity \in Nat
        /\ 1 \in 0..MaxValidity /\ 1 \in Validities
        BY SyncAssumption DEF Uids, Validities
  <1>3. Top(1..n) \in Marks
        BY <1>2, TopType
  <1>4. Cardinality(1..n) \in Nat
        BY <1>2, UidsAreFinite
  <1>5. catalog \in Identities
        BY <1>1, <1>2, <1>4 DEF Identity, Identities, NoCatalog
  <1>6. sync \in [known : BOOLEAN, validity : 0..MaxValidity, highest : Marks]
        BY <1>1, <1>2, <1>3 DEF NoSync, NoMark, Marks
  <1>7. srv \in [validity : Validities, uids : SUBSET Uids, next : Nat \ {0},
               caps : Capabilities]
        BY <1>1, <1>2
  <1>8. rows \in [Uids -> 0..MaxValidity]
        BY <1>1, <1>2
  <1>9. pc \in [Workers -> Steps] /\ job \in [Workers -> Jobs]
        BY <1>1, NoJobType DEF Steps
  <1>10. user \in [uid : Uids \cup {0}, validity : 0..MaxValidity]
        BY <1>1, <1>2
  <1>. QED  BY <1>1, <1>5, <1>6, <1>7, <1>8, <1>9, <1>10, NoStageType DEF TypeOK

(* The locals of a sync that has selected its mailbox have the type of a job. *)
LEMMA SelectedJobType ==
    ASSUME TypeOK, NEW reset \in BOOLEAN, NEW changed \in BOOLEAN, NEW highest \in Marks
    PROVE  SelectedJob(reset, changed, highest) \in Jobs
  <1>1. srv.uids \in SUBSET Uids
        BY DEF TypeOK
  <1>2. NoJob \in Jobs /\ Identity \in Identities
        BY NoJobType, IdentityType
  <1>. QED  BY <1>1, <1>2 DEF SelectedJob, Jobs

(* What is fetched together is a set of planned UIDs. *)
LEMMA BatchType ==
    ASSUME TypeOK, NEW w \in Workers, NEW batch \in Batches(w) PROVE batch \in SUBSET Uids
  <1>1. job[w].todo \in SUBSET Uids
        BY Fields
  <1>2. \A S \in SUBSET Uids, n \in {BatchSize} : Highest(S, n) \in SUBSET Uids
        BY DEF Highest
  <1>. QED  BY <1>1, <1>2 DEF Batches

(* Every step of the specification keeps the types. *)
LEMMA NextType == TypeOK /\ [Next]_vars => TypeOK'
  <1>. SUFFICES ASSUME TypeOK, [Next]_vars PROVE TypeOK'
        OBVIOUS
  <1>. USE DEF server, store
  <1>0. /\ MaxUid \in Nat /\ MaxValidity \in Nat /\ MaxFaults \in Nat
        /\ NoMark \in Marks /\ Watchers \subseteq Workers /\ Rebuilders \subseteq Workers
        BY SyncAssumption DEF Marks, Workers
  <1>1. ASSUME NEW w \in Watchers, StartWatcher(w) PROVE TypeOK'
    <2>1. SelectedJob(FALSE, FALSE, NoMark) \in Jobs
          BY <1>0, SelectedJobType
    <2>. QED  BY <1>0, <1>1, <2>1 DEF StartWatcher, Go, TypeOK, Steps
  <1>2. ASSUME NEW w \in Rebuilders, NEW reset \in BOOLEAN, StartRebuilder(w, reset)
        PROVE  TypeOK'
    <2>1. \A changed \in BOOLEAN : SelectedJob(reset, changed, NoMark) \in Jobs
          BY <1>0, SelectedJobType
    <2>. QED  BY <1>0, <1>2, <2>1 DEF StartRebuilder, Go, TypeOK, Steps
  <1>3. ASSUME NEW w \in Workers, Prepare(w) PROVE TypeOK'
    <2>. DEFINE changed == NamespaceChanged(w)
                j == [job[w] EXCEPT !.replace = changed,
                         !.highest = IF changed THEN NoMark ELSE sync.highest]
    <2>1. changed \in BOOLEAN
          BY DEF NamespaceChanged
    <2>2. j \in Jobs
      <3>1. (IF changed THEN NoMark ELSE sync.highest) \in Marks
            BY <1>0, Fields
      <3>. QED  BY <2>1, <3>1, Fields, JobUpdates
    <2>3. job' = [job EXCEPT ![w] = j] /\ pc' = [pc EXCEPT ![w] = "begin"]
          BY <1>3 DEF Prepare, Go, TypeOK
    <2>4. job' \in [Workers -> Jobs] /\ pc' \in [Workers -> Steps]
          BY <2>2, <2>3, JobType DEF Steps
    <2>5. sync' \in [known : BOOLEAN, validity : 0..MaxValidity, highest : Marks]
      <3>1. job[w].ident.validity \in 0..MaxValidity
            BY Fields DEF Identities
      <3>. QED  BY <1>3, <3>1 DEF Prepare, TypeOK
    <2>6. failures' \in SUBSET Uids
          BY <1>3 DEF Prepare, TypeOK
    <2>7. gen' = NoStage \/ gen' = gen
          BY <1>3 DEF Prepare
    <2>. QED  BY <1>3, <2>4, <2>5, <2>6, <2>7, NoStageType DEF Prepare, TypeOK
  <1>4. ASSUME NEW w \in Workers, DeltaVerify(w) PROVE TypeOK'
    <2>. DEFINE j == [job[w] EXCEPT !.ident = Identity, !.view = srv.uids]
    <2>1. j \in Jobs
      <3>1. job[w] \in Jobs /\ srv.uids \in SUBSET Uids
            BY Fields
      <3>2. Identity \in Identities
            BY <1>0, IdentityType
      <3>. QED  BY <3>1, <3>2 DEF Jobs
    <2>2. \/ job' = job /\ pc' = [pc EXCEPT ![w] = "apply"]
          \/ job' = [job EXCEPT ![w] = j] /\ pc' = [pc EXCEPT ![w] = "begin"]
          \/ job' = job /\ pc' = [pc EXCEPT ![w] = "begin"]
          BY <1>4 DEF DeltaVerify, Go
    <2>3. job' \in [Workers -> Jobs] /\ pc' \in [Workers -> Steps]
          BY <2>1, <2>2, JobType DEF Steps, TypeOK
    <2>. QED  BY <1>4, <2>3 DEF DeltaVerify, TypeOK
  <1>5. ASSUME NEW w \in Workers, DeltaApply(w) PROVE TypeOK'
    BY <1>0, <1>5, NoJobType DEF DeltaApply, Finish, Go, TypeOK, Jobs, Steps
  <1>6. ASSUME NEW w \in Workers, Begin(w) PROVE TypeOK'
    <2>1. gen' \in [id : GenIds \cup {NoGen}, ident : Identities,
                    items : SUBSET Uids, msgs : [Uids -> 0..MaxValidity]]
      <3>1. CASE gen' = [gen EXCEPT !.items = {}]
            BY <3>1 DEF TypeOK
      <3>2. ASSUME NEW id \in GenIds, gen' = [NoStage EXCEPT !.id = id, !.ident = job[w].ident]
            PROVE  gen' \in [id : GenIds \cup {NoGen}, ident : Identities,
                             items : SUBSET Uids, msgs : [Uids -> 0..MaxValidity]]
            BY <3>2, NoStageType, Fields
      <3>. QED  BY <1>6, <3>1, <3>2 DEF Begin
    <2>. DEFINE j == [job[w] EXCEPT !.id = gen'.id, !.left = job[w].view]
    <2>2. j \in Jobs
          BY <2>1, Fields, JobUpdates
    <2>3. job' = [job EXCEPT ![w] = j] /\ pc' = [pc EXCEPT ![w] = "stage"]
          BY <1>6 DEF Begin, Go, TypeOK
    <2>4. job' \in [Workers -> Jobs] /\ pc' \in [Workers -> Steps]
          BY <2>2, <2>3, JobType DEF Steps
    <2>. QED  BY <1>6, <2>1, <2>4 DEF Begin, TypeOK
  <1>7. ASSUME NEW w \in Workers, StagePage(w) PROVE TypeOK'
    <2>. DEFINE page == Highest(job[w].left, PageSize)
                j == [job[w] EXCEPT !.left = @ \ page]
    <2>1. j \in Jobs
          BY <1>0, Fields DEF Jobs
    <2>2. \/ job' = [job EXCEPT ![w] = j] /\ pc' = pc
          \/ job' = [job EXCEPT ![w] = NoJob] /\ pc' = [pc EXCEPT ![w] = "idle"]
          BY <1>7 DEF StagePage, Finish, Go, TypeOK
    <2>. HIDE DEF j
    <2>3. job' \in [Workers -> Jobs] /\ pc' \in [Workers -> Steps]
      <3>1. "idle" \in Steps /\ pc \in [Workers -> Steps]
            BY DEF Steps, TypeOK
      <3>. QED  BY <2>1, <2>2, <3>1, JobType, NoJobType
    <2>4. gen' = gen \/ gen' = [gen EXCEPT !.items = @ \cup (page \cap srv.uids)]
          BY <1>7 DEF StagePage
    <2>. HIDE DEF page
    <2>5. gen' \in [id : GenIds \cup {NoGen}, ident : Identities,
                    items : SUBSET Uids, msgs : [Uids -> 0..MaxValidity]]
          BY <2>4 DEF TypeOK
    <2>. QED  BY <1>7, <2>3, <2>5 DEF StagePage, TypeOK
  <1>8. ASSUME NEW w \in Workers, Plan(w) PROVE TypeOK'
    <2>. DEFINE local == IF w \in Rebuilders /\ job[w].replace THEN {} ELSE Local
                seen  == failures \cap gen.items
                inc(retried) == IF job[w].replace THEN {}
                                ELSE IF w \in Rebuilders THEN (gen.items \ local) \ seen
                                ELSE Incremental(w, retried)
                j(retried) == [job[w] EXCEPT
                           !.view = gen.items, !.local = local,
                           !.fails = retried, !.inc = inc(retried),
                           !.todo = IF job[w].replace THEN Unstaged
                                    ELSE inc(retried) \cup retried]
    <2>1. CASE job' = [job EXCEPT ![w] = NoJob] /\ pc' = [pc EXCEPT ![w] = "idle"]
          BY <1>8, <2>1, NoJobType, JobType DEF Plan, TypeOK, Steps
    <2>2. ASSUME NEW retried \in SUBSET seen,
                 job' = [job EXCEPT ![w] = j(retried)] /\ pc' = [pc EXCEPT ![w] = "fetch"]
          PROVE  TypeOK'
      <3>1. /\ local \in SUBSET Uids /\ Unstaged \in SUBSET Uids
            /\ seen \in SUBSET Uids /\ gen.items \in SUBSET Uids
            BY Fields DEF Local, Unstaged
      <3>2. Incremental(w, retried) \in SUBSET Uids
            BY <3>1 DEF Incremental, Highest, Lowest
      <3>3. inc(retried) \in SUBSET Uids
            BY <3>1, <3>2
      <3>. HIDE DEF local, inc, seen
      <3>4. j(retried) \in Jobs
        <4>1. retried \in SUBSET Uids
              BY <3>1
        <4>2. (IF job[w].replace THEN Unstaged ELSE inc(retried) \cup retried) \in SUBSET Uids
              BY <3>1, <3>3, <4>1
        <4>. QED  BY <3>1, <3>3, <4>1, <4>2, Fields, JobUpdates
      <3>. HIDE DEF j
      <3>. QED  BY <1>8, <2>2, <3>4, JobType DEF Plan, TypeOK, Steps
    <2>3. \/ Finish(w)
          \/ \E retried \in SUBSET seen :
               job' = [job EXCEPT ![w] = j(retried)] /\ pc' = [pc EXCEPT ![w] = "fetch"]
      <3>1. CASE Finish(w)
            BY <3>1
      <3>2. CASE ~Finish(w)
        <4>1. PICK retried \in SUBSET seen :
                 job' = [job EXCEPT
                           ![w].view = gen.items, ![w].local = local,
                           ![w].fails = retried, ![w].inc = inc(retried),
                           ![w].todo = IF job[w].replace THEN Unstaged
                                       ELSE inc(retried) \cup retried]
              BY <1>8, <3>2, Zenon DEF Plan
        <4>2. job' = [job EXCEPT ![w] = j(retried)]
          <5>. HIDE DEF local, inc, seen
          <5>. QED  BY <4>1 DEF TypeOK
        <4>3. pc' = [pc EXCEPT ![w] = "fetch"]
              BY <1>8, <3>2 DEF Plan, Go
        <4>. QED  BY <4>2, <4>3
      <3>. QED  BY <3>1, <3>2
    <2>. QED  BY <2>1, <2>2, <2>3 DEF Finish, Go
  <1>9. ASSUME NEW w \in Workers, Fetch(w) PROVE TypeOK'
    <2>1. PICK batch \in Batches(w) : \E bad \in SUBSET batch :
             job' = [job EXCEPT ![w].ok = batch \ bad, ![w].bad = bad,
                                ![w].from = srv.validity]
          BY <1>9 DEF Fetch
    <2>6. PICK bad \in SUBSET batch :
             job' = [job EXCEPT ![w].ok = batch \ bad, ![w].bad = bad,
                                ![w].from = srv.validity]
          BY <2>1
    <2>. DEFINE j == [job[w] EXCEPT !.ok = batch \ bad, !.bad = bad, !.from = srv.validity]
    <2>2. j \in Jobs
      <3>1. batch \ bad \in SUBSET Uids /\ bad \in SUBSET Uids
            BY BatchType
      <3>2. job[w] \in Jobs /\ srv.validity \in 0..MaxValidity
            BY Fields
      <3>. QED  BY <3>1, <3>2 DEF Jobs
    <2>3. job' = [job EXCEPT ![w] = j]
          BY <2>6 DEF TypeOK
    <2>4. job' \in [Workers -> Jobs] /\ pc' \in [Workers -> Steps]
          BY <1>9, <2>2, <2>3, JobType DEF Fetch, Go, Steps
    <2>5. faults' \in Nat
          BY <1>9 DEF Fetch, TypeOK
    <2>. QED  BY <1>9, <2>4, <2>5 DEF Fetch, TypeOK
  <1>10. ASSUME NEW w \in Workers, FetchFatal(w) PROVE TypeOK'
    <2>1. PICK batch \in Batches(w) : \E f \in batch :
             LET answered == IF Incrementing(w) THEN FetchedBefore(w, f) ELSE batch \ {f}
             IN \E ok \in SUBSET (answered \cap srv.uids) :
                  job' = [job EXCEPT ![w].ok = ok, ![w].bad = {f},
                              ![w].fatal = TRUE, ![w].from = srv.validity]
          BY <1>10 DEF FetchFatal
    <2>2. PICK f \in batch, ok \in SUBSET srv.uids :
             job' = [job EXCEPT ![w].ok = ok, ![w].bad = {f},
                         ![w].fatal = TRUE, ![w].from = srv.validity]
          BY <2>1
    <2>. DEFINE j == [job[w] EXCEPT !.ok = ok, !.bad = {f}, !.fatal = TRUE,
                         !.from = srv.validity]
    <2>3. j \in Jobs
      <3>1. batch \in SUBSET Uids
            BY BatchType
      <3>2. {f} \in SUBSET Uids /\ ok \in SUBSET Uids
            BY <3>1, Fields
      <3>. QED  BY <3>2, Fields, JobUpdates
    <2>4. job' = [job EXCEPT ![w] = j]
          BY <2>2 DEF TypeOK
    <2>5. job' \in [Workers -> Jobs] /\ pc' \in [Workers -> Steps]
          BY <1>10, <2>3, <2>4, JobType DEF FetchFatal, Go, Steps
    <2>6. faults' \in Nat
          BY <1>10 DEF FetchFatal, TypeOK
    <2>. QED  BY <1>10, <2>5, <2>6 DEF FetchFatal, TypeOK
  <1>11. ASSUME NEW w \in Workers, Save(w) PROVE TypeOK'
    <2>1. pc' \in [Workers -> Steps]
          BY <1>11 DEF Save, Go, TypeOK, Steps
    <2>2. CASE UNCHANGED <<rows, sync, job>>
          BY <1>11, <2>1, <2>2 DEF Save, TypeOK
    <2>3. CASE ~(job[w].fatal /\ job[w].ok = {})
      <3>. DEFINE fresh == IF sync.known /\ ~job[w].fatal THEN NewMail(w) ELSE {}
                  old   == IF sync.highest < 0 THEN 0 ELSE sync.highest
                  mark  == Watermark(w)
      <3>1. rows' \in [Uids -> 0..MaxValidity]
        <4>1. rows' = Persist(w)
              BY <1>11, <2>3 DEF Save
        <4>. QED  BY <4>1, Fields DEF Persist, TypeOK
      <3>2. sync' \in [known : BOOLEAN, validity : 0..MaxValidity, highest : Marks]
        <4>1. mark \in Marks /\ old \in Marks
              BY WatermarkType, Fields DEF Marks
        <4>. HIDE DEF mark, old
        <4>2. sync' = IF sync.known
                      THEN [sync EXCEPT !.highest = IF mark > old THEN mark ELSE old]
                      ELSE [NoSync EXCEPT !.known = TRUE, !.highest = mark]
              BY <1>11, <2>3 DEF Save, mark, old
        <4>3. CASE sync.known
              BY <4>1, <4>2, <4>3 DEF TypeOK
        <4>4. CASE ~sync.known
          <5>1. sync' = [known |-> TRUE, validity |-> 0, highest |-> mark]
                BY <4>2, <4>4 DEF NoSync
          <5>. QED  BY <1>0, <4>1, <5>1
        <4>. QED  BY <4>3, <4>4
      <3>3. [job[w] EXCEPT !.fresh = fresh] \in Jobs
        <4>1. fresh \in SUBSET Uids
              BY Fields DEF NewMail
        <4>. QED  BY <4>1, Fields DEF Jobs
      <3>4. job' = [job EXCEPT ![w] = [job[w] EXCEPT !.fresh = fresh]]
            BY <1>11, <2>3 DEF Save, TypeOK
      <3>. HIDE DEF fresh
      <3>5. job' \in [Workers -> Jobs]
            BY <3>3, <3>4, JobType DEF TypeOK
      <3>. QED  BY <1>11, <2>1, <3>1, <3>2, <3>5 DEF Save, TypeOK
    <2>. QED  BY <1>11, <2>2, <2>3 DEF Save
  <1>12. ASSUME NEW w \in Workers, Record(w) PROVE TypeOK'
    BY <1>0, <1>12 DEF Record, Go, TypeOK, Jobs, Steps
  <1>13. ASSUME NEW w \in Workers, Store(w) PROVE TypeOK'
    <2>. DEFINE j == [job[w] EXCEPT !.todo = @ \ (job[w].ok \cup job[w].bad),
                         !.failed = Failed(w), !.ok = {}, !.bad = {}, !.from = 0]
    <2>1. j \in Jobs
      <3>1. Failed(w) \in BOOLEAN
            BY Fields DEF Failed
      <3>2. job[w].todo \ (job[w].ok \cup job[w].bad) \in SUBSET Uids
            BY Fields
      <3>3. {} \in SUBSET Uids /\ 0 \in 0..MaxValidity
            BY <1>0
      <3>4. job[w] \in Jobs
            BY Fields
      <3>5. \A t, o, b \in SUBSET Uids, c \in BOOLEAN, n \in 0..MaxValidity :
               [job[w] EXCEPT !.todo = t, !.failed = c, !.ok = o, !.bad = b, !.from = n] \in Jobs
            BY <3>4, JobUpdates
      <3>. QED  BY <3>1, <3>2, <3>3, <3>5
    <2>2. \/ job' = [job EXCEPT ![w] = j] /\ pc' = [pc EXCEPT ![w] = "fetch"]
          \/ job' = [job EXCEPT ![w] = NoJob] /\ pc' = [pc EXCEPT ![w] = "idle"]
          BY <1>13 DEF Store, Finish, Go, TypeOK
    <2>3. job' \in [Workers -> Jobs] /\ pc' \in [Workers -> Steps]
          BY <2>1, <2>2, JobType, NoJobType DEF Steps
    <2>4. rows' \in [Uids -> 0..MaxValidity]
          BY <1>13, Fields DEF Store, Persist, TypeOK
    <2>5. gen' \in [id : GenIds \cup {NoGen}, ident : Identities,
                    items : SUBSET Uids, msgs : [Uids -> 0..MaxValidity]]
      <3>1. [u \in Uids |-> IF u \in job[w].ok THEN job[w].from ELSE gen.msgs[u]]
               \in [Uids -> 0..MaxValidity]
            BY Fields
      <3>2. \/ gen' = gen
            \/ gen' = [gen EXCEPT !.msgs = [u \in Uids |->
                         IF u \in job[w].ok THEN job[w].from ELSE gen.msgs[u]]]
            BY <1>13 DEF Store
      <3>. QED  BY <3>1, <3>2 DEF TypeOK
    <2>6. failures' \in SUBSET Uids
      <3>1. failures' \subseteq failures \cup job[w].bad
            BY <1>13 DEF Store
      <3>. QED  BY <3>1, Fields DEF TypeOK
    <2>. QED  BY <1>13, <2>3, <2>4, <2>5, <2>6 DEF Store, TypeOK
  <1>14. ASSUME NEW w \in Workers, FetchDone(w) PROVE TypeOK'
    <2>1. \/ job' = job /\ pc' \in {[pc EXCEPT ![w] = "discard"], [pc EXCEPT ![w] = "verify"]}
          \/ job' = [job EXCEPT ![w] = NoJob] /\ pc' = [pc EXCEPT ![w] = "idle"]
          BY <1>14 DEF FetchDone, Finish, Go
    <2>2. job' \in [Workers -> Jobs] /\ pc' \in [Workers -> Steps]
          BY <2>1, NoJobType, JobType DEF TypeOK, Steps
    <2>. QED  BY <1>14, <2>2 DEF FetchDone, TypeOK
  <1>15. ASSUME NEW w \in Workers, Discard(w) PROVE TypeOK'
    BY <1>0, <1>15, NoJobType, NoStageType DEF Discard, Finish, Go, TypeOK, Jobs, Steps
  <1>16. ASSUME NEW w \in Workers, Verify(w) PROVE TypeOK'
    <2>1. \/ job' = job /\ pc' \in {[pc EXCEPT ![w] = "discard"], [pc EXCEPT ![w] = "finalize"]}
          \/ job' = [job EXCEPT ![w] = NoJob] /\ pc' = [pc EXCEPT ![w] = "idle"]
          BY <1>16 DEF Verify, Finish, Go
    <2>2. job' \in [Workers -> Jobs] /\ pc' \in [Workers -> Steps]
          BY <2>1, NoJobType, JobType DEF TypeOK, Steps
    <2>3. gen' = gen \/ gen' = [gen EXCEPT !.items = @ \cup srv.uids]
          BY <1>16 DEF Verify
    <2>4. gen' \in [id : GenIds \cup {NoGen}, ident : Identities,
                    items : SUBSET Uids, msgs : [Uids -> 0..MaxValidity]]
          BY <2>3 DEF TypeOK
    <2>. QED  BY <1>16, <2>2, <2>4 DEF Verify, TypeOK
  <1>17. ASSUME NEW w \in Workers, Finalize(w) PROVE TypeOK'
    <2>1. job' = [job EXCEPT ![w] = NoJob] /\ pc' = [pc EXCEPT ![w] = "idle"]
          BY <1>17 DEF Finalize, Finish, Go
    <2>2. job' \in [Workers -> Jobs] /\ pc' \in [Workers -> Steps]
          BY <2>1, NoJobType, JobType DEF Steps
    <2>3. rows' \in [Uids -> 0..MaxValidity]
      <3>1. rows' = [u \in Uids |-> IF u \notin gen.items THEN 0
                                    ELSE IF job[w].replace THEN gen.msgs[u] ELSE rows[u]]
            BY <1>17 DEF Finalize
      <3>. QED  BY <1>0, <3>1, Fields DEF TypeOK
    <2>4. sync' \in [known : BOOLEAN, validity : 0..MaxValidity, highest : Marks]
      <3>1. Watermark(w) \in Marks /\ Top(gen.items) \in Marks
            BY WatermarkType, TopType, Fields
      <3>2. gen.ident.validity \in 0..MaxValidity
            BY Fields DEF Identities
      <3>. QED  BY <1>17, <3>1, <3>2 DEF Finalize
    <2>5. /\ catalog' \in Identities /\ gen' = NoStage
          /\ tombs' \in SUBSET Uids /\ failures' \in SUBSET Uids
          BY <1>17, Fields DEF Finalize, TypeOK
    <2>6. notified' \in SUBSET Uids
      <3>1. job[w].fresh \in SUBSET Uids
            BY DEF TypeOK, Jobs
      <3>. QED  BY <1>17, <3>1 DEF Finalize, TypeOK
    <2>. QED  BY <1>17, <2>2, <2>3, <2>4, <2>5, <2>6, NoStageType DEF Finalize, TypeOK
  <1>18. ASSUME NEW w \in Workers, FinalizeRefused(w) PROVE TypeOK'
    BY <1>0, <1>18, NoJobType DEF FinalizeRefused, Finish, Go, TypeOK, Jobs, Steps
  <1>19. ASSUME NEW w \in Workers, Abort(w) PROVE TypeOK'
    BY <1>0, <1>19, NoJobType DEF Abort, Finish, Go, TypeOK, Jobs, Steps
  <1>20. ASSUME NEW u \in Uids, MoveOnServer(u) PROVE TypeOK'
    BY <1>0, <1>20 DEF MoveOnServer, TypeOK, Validities
  <1>21. CASE MoveLocally
    BY <1>0, <1>21 DEF MoveLocally, TypeOK
  <1>22. CASE Deliver
    <2>1. srv.next \in Nat \ {0} /\ srv.next <= MaxUid
          BY <1>22 DEF Deliver, TypeOK
    <2>2. srv.next \in Uids /\ srv.next + 1 \in Nat \ {0}
          BY <1>0, <2>1 DEF Uids
    <2>. QED  BY <1>22, <2>2 DEF Deliver, TypeOK
  <1>23. ASSUME NEW u \in Uids, ExpungeElsewhere(u) PROVE TypeOK'
    BY <1>0, <1>23 DEF ExpungeElsewhere, TypeOK
  <1>24. CASE ResetValidity
    <2>1. PICK n \in 0..MaxUid :
             srv' = [srv EXCEPT !.validity = @ + 1, !.uids = 1..n, !.next = n + 1]
          BY <1>24 DEF ResetValidity
    <2>2. /\ 1..n \in SUBSET Uids /\ n + 1 \in Nat \ {0}
          /\ srv.validity + 1 \in Validities
      <3>1. srv.validity \in Nat \ {0} /\ srv.validity < MaxValidity
            BY <1>0, <1>24 DEF ResetValidity, TypeOK, Validities
      <3>. QED  BY <1>0, <3>1 DEF Uids, Validities
    <2>. QED  BY <1>24, <2>1, <2>2 DEF ResetValidity, TypeOK
  <1>25. CASE UNCHANGED vars
    BY <1>25 DEF vars, TypeOK
  <1>. QED  BY <1>1, <1>2, <1>3, <1>4, <1>5, <1>6, <1>7, <1>8, <1>9, <1>10, <1>11,
               <1>12, <1>13, <1>14, <1>15, <1>16, <1>17, <1>18, <1>19, <1>20, <1>21,
               <1>22, <1>23, <1>24, <1>25 DEF Next, Progress

(* The store, the server and every worker's locals keep their types. *)
THEOREM TypeCorrect == Spec => []TypeOK
  <1>1. Init => TypeOK
        BY InitType
  <1>2. TypeOK /\ [Next]_vars => TypeOK'
        BY NextType
  <1>. QED  BY <1>1, <1>2, PTL DEF Spec

-----------------------------------------------------------------------------
(* Tombstones *)

(* A header is never written over a tombstone, and publishing a generation  *)
(* writes over none that it leaves standing.                                *)
LEMMA NextTombstones == TypeOK /\ TombstonesHold /\ [Next]_vars => TombstonesHold'
  <1>. SUFFICES ASSUME TypeOK, TombstonesHold, [Next]_vars PROVE TombstonesHold'
        OBVIOUS
  <1>. USE DEF server, store
  <1>0. tombs \in SUBSET Uids /\ rows \in [Uids -> 0..MaxValidity]
        BY DEF TypeOK
  <1>1. ASSUME NEW w \in Workers, tombs' = tombs, rows' \in {rows, Persist(w)}
        PROVE  TombstonesHold'
        BY <1>0, <1>1 DEF TombstonesHold, Persist
  <1>2. ASSUME UNCHANGED <<rows, tombs>> PROVE TombstonesHold'
        BY <1>2 DEF TombstonesHold
  <1>3. ASSUME NEW w \in Workers, Save(w) PROVE TombstonesHold'
        BY <1>1, <1>3 DEF Save
  <1>4. ASSUME NEW w \in Workers, Store(w) PROVE TombstonesHold'
        BY <1>1, <1>4 DEF Store
  <1>5. ASSUME NEW w \in Workers, Finalize(w) PROVE TombstonesHold'
    <2>1. CASE job[w].replace
          BY <1>5, <2>1 DEF Finalize, TombstonesHold
    <2>2. CASE ~job[w].replace
      <3>1. tombs' \subseteq tombs
            BY <1>5 DEF Finalize
      <3>2. \A u \in Uids : rows'[u] \in {0, rows[u]}
            BY <1>5, <2>2 DEF Finalize
      <3>. QED  BY <1>0, <3>1, <3>2 DEF TombstonesHold
    <2>. QED  BY <2>1, <2>2
  <1>6. CASE MoveLocally
    <2>1. user.uid \in Uids
          BY <1>6 DEF MoveLocally, TypeOK
    <2>2. rows' = [rows EXCEPT ![user.uid] = 0] /\ tombs' = tombs \cup {user.uid}
          BY <1>6 DEF MoveLocally
    <2>. QED  BY <1>0, <2>1, <2>2 DEF TombstonesHold
  <1>7. ASSUME NEW w \in Workers, Progress(w) PROVE TombstonesHold'
    <2>1. CASE Save(w) \/ Store(w) \/ Finalize(w)
          BY <1>3, <1>4, <1>5, <2>1
    <2>2. CASE Prepare(w) \/ DeltaVerify(w) \/ DeltaApply(w) \/ Begin(w) \/ StagePage(w)
          BY <1>2, <2>2 DEF Prepare, DeltaVerify, DeltaApply, Begin, StagePage
    <2>3. CASE Plan(w) \/ Fetch(w) \/ Record(w) \/ FetchDone(w) \/ Discard(w)
          BY <1>2, <2>3 DEF Plan, Fetch, Record, FetchDone, Discard
    <2>4. CASE Verify(w) \/ FinalizeRefused(w) \/ Abort(w)
          BY <1>2, <2>4 DEF Verify, FinalizeRefused, Abort
    <2>. QED  BY <1>7, <2>1, <2>2, <2>3, <2>4 DEF Progress
  <1>8. ASSUME NEW w \in Workers, FetchFatal(w) \/ Abort(w) PROVE TombstonesHold'
        BY <1>2, <1>8 DEF FetchFatal, Abort
  <1>9. ASSUME \/ \E w \in Watchers : StartWatcher(w)
               \/ \E w \in Rebuilders, reset \in BOOLEAN : StartRebuilder(w, reset)
        PROVE  TombstonesHold'
        BY <1>2, <1>9 DEF StartWatcher, StartRebuilder
  <1>10. ASSUME \/ \E u \in Uids : MoveOnServer(u) \/ ExpungeElsewhere(u)
                \/ Deliver \/ ResetValidity
         PROVE  TombstonesHold'
         BY <1>2, <1>10 DEF MoveOnServer, ExpungeElsewhere, Deliver, ResetValidity
  <1>11. CASE UNCHANGED vars
         BY <1>2, <1>11 DEF vars
  <1>. QED  BY <1>6, <1>7, <1>8, <1>9, <1>10, <1>11 DEF Next

(* A message moved away by the user has no row while its tombstone stands,  *)
(* whatever the workers fetched before the move and however they interleave.*)
THEOREM TombstonesAlwaysHold == Spec => []TombstonesHold
  <1>1. Init => TombstonesHold
        BY DEF Init, TombstonesHold
  <1>2. TypeOK /\ TombstonesHold /\ [Next]_vars => TombstonesHold'
        BY NextTombstones
  <1>. QED  BY <1>1, <1>2, TypeCorrect, PTL DEF Spec

-----------------------------------------------------------------------------
(* The abstract catalogue *)

(* A catalogue of whatever ids and copies, apart from MailboxSync's own. *)
CONSTANTS Ids, Copies
Any == INSTANCE Catalogue WITH hidden <- tombs

(* Whatever is learned, followed or replaced, a hidden message stays        *)
(* unknown: what MailboxSync inherits by implementing the catalogue.        *)
THEOREM HiddenStaysUnknown == Any!Spec => [](Any!TypeOK /\ Any!HiddenIsUnknown)
  <1>. DEFINE IInv == Any!TypeOK /\ Any!HiddenIsUnknown
  <1>1. Any!Init => IInv
        BY DEF Any!Init, Any!TypeOK, Any!HiddenIsUnknown
  <1>2. ASSUME IInv, [Any!Next]_(Any!vars) PROVE IInv'
    <2>1. ASSUME NEW us \in SUBSET Ids, NEW copy \in Copies \cup {Any!Unknown},
                 Any!Learn(us, copy)
          PROVE  IInv'
          BY <1>2, <2>1 DEF Any!Learn, Any!TypeOK, Any!HiddenIsUnknown
    <2>2. ASSUME NEW us \in SUBSET Ids, Any!Follow(us) PROVE IInv'
          BY <1>2, <2>2 DEF Any!Follow, Any!TypeOK, Any!HiddenIsUnknown, Any!Unknown
    <2>3. ASSUME NEW u \in Ids, Any!Hide(u) PROVE IInv'
          BY <1>2, <2>3 DEF Any!Hide, Any!TypeOK, Any!HiddenIsUnknown, Any!Unknown
    <2>4. CASE Any!Replace
          BY <2>4 DEF Any!Replace, Any!TypeOK, Any!HiddenIsUnknown
    <2>5. CASE UNCHANGED Any!vars
          BY <1>2, <2>5 DEF Any!vars, Any!TypeOK, Any!HiddenIsUnknown
    <2>. QED  BY <1>2, <2>1, <2>2, <2>3, <2>4, <2>5 DEF Any!Next
  <1>. QED  BY <1>1, <1>2, PTL DEF Any!Spec

-----------------------------------------------------------------------------
(* Refinement *)

(* Every step is one of the abstract catalogue's, or leaves it alone.       *)
LEMMA NextCatalogue == TypeOK /\ [Next]_vars => [Catalog!Next]_(Catalog!vars)
  <1>. SUFFICES ASSUME TypeOK, [Next]_vars PROVE [Catalog!Next]_(Catalog!vars)
        OBVIOUS
  <1>. USE DEF server, store
  <1>0. /\ tombs \in SUBSET Uids /\ rows \in [Uids -> 0..MaxValidity]
        /\ 0..MaxValidity = Validities \cup {Catalog!Unknown}
        BY SyncAssumption DEF TypeOK, Validities, Catalog!Unknown
  <1>1. ASSUME UNCHANGED <<rows, tombs>> PROVE [Catalog!Next]_(Catalog!vars)
        BY <1>1 DEF Catalog!vars
  <1>2. ASSUME NEW w \in Workers, tombs' = tombs, rows' \in {rows, Persist(w)}
        PROVE  [Catalog!Next]_(Catalog!vars)
    <2>1. CASE rows' = rows
          BY <1>1, <1>2, <2>1
    <2>2. CASE rows' = Persist(w)
      <3>. DEFINE found == job[w].ok \ tombs
      <3>1. job[w].ok \in SUBSET Uids /\ job[w].from \in 0..MaxValidity
            BY Fields
      <3>2. Catalog!Learn(found, job[w].from)
            BY <1>2, <2>2 DEF Catalog!Learn, Persist
      <3>. QED  BY <1>0, <3>1, <3>2, Zenon DEF Catalog!Next
    <2>. QED  BY <1>2, <2>1, <2>2
  <1>3. ASSUME NEW w \in Workers, Save(w) \/ Store(w)
        PROVE  [Catalog!Next]_(Catalog!vars)
        BY <1>2, <1>3 DEF Save, Store
  <1>4. ASSUME NEW w \in Workers, Finalize(w)
        PROVE  [Catalog!Next]_(Catalog!vars)
    <2>1. gen.items \in SUBSET Uids /\ gen.msgs \in [Uids -> 0..MaxValidity]
          BY Fields
    <2>2. rows' = [u \in Uids |-> IF u \notin gen.items THEN 0
                                 ELSE IF job[w].replace THEN gen.msgs[u] ELSE rows[u]]
          BY <1>4 DEF Finalize
    <2>3. CASE tombs' = {}
      <3>1. \A u \in Uids : rows'[u] \in 0..MaxValidity
        <4>1. 0 \in 0..MaxValidity
              BY SyncAssumption
        <4>2. \A u \in Uids : rows[u] \in 0..MaxValidity /\ gen.msgs[u] \in 0..MaxValidity
              BY <2>1 DEF TypeOK
        <4>. QED  BY <2>2, <4>1, <4>2
      <3>2. rows' \in [Uids -> 0..MaxValidity]
            BY <2>2, <3>1
      <3>. QED  BY <1>0, <2>3, <3>2 DEF Catalog!Next, Catalog!Replace
    <2>4. CASE tombs' # {}
      <3>1. ~job[w].replace /\ tombs' = tombs
            BY <1>4, <2>4 DEF Finalize
      <3>2. Catalog!Follow(gen.items)
            BY <2>2, <3>1 DEF Catalog!Follow, Catalog!Unknown
      <3>. QED  BY <2>1, <3>2, Zenon DEF Catalog!Next
    <2>. QED  BY <2>3, <2>4
  <1>5. CASE MoveLocally
    <2>1. user.uid \in Uids
          BY <1>5 DEF MoveLocally, TypeOK
    <2>2. Catalog!Hide(user.uid)
          BY <1>5 DEF MoveLocally, Catalog!Hide, Catalog!Unknown
    <2>. QED  BY <2>1, <2>2 DEF Catalog!Next
  <1>6. ASSUME NEW w \in Workers, Progress(w) PROVE [Catalog!Next]_(Catalog!vars)
    <2>1. CASE Save(w) \/ Store(w) \/ Finalize(w)
          BY <1>3, <1>4, <2>1
    <2>2. CASE Prepare(w) \/ DeltaVerify(w) \/ DeltaApply(w) \/ Begin(w) \/ StagePage(w)
          BY <1>1, <2>2 DEF Prepare, DeltaVerify, DeltaApply, Begin, StagePage
    <2>3. CASE Plan(w) \/ Fetch(w) \/ Record(w) \/ FetchDone(w) \/ Discard(w)
          BY <1>1, <2>3 DEF Plan, Fetch, Record, FetchDone, Discard
    <2>4. CASE Verify(w) \/ FinalizeRefused(w) \/ Abort(w)
          BY <1>1, <2>4 DEF Verify, FinalizeRefused, Abort
    <2>. QED  BY <1>6, <2>1, <2>2, <2>3, <2>4 DEF Progress
  <1>7. ASSUME NEW w \in Workers, FetchFatal(w) \/ Abort(w)
        PROVE  [Catalog!Next]_(Catalog!vars)
        BY <1>1, <1>7 DEF FetchFatal, Abort
  <1>8. ASSUME \/ \E w \in Watchers : StartWatcher(w)
               \/ \E w \in Rebuilders, reset \in BOOLEAN : StartRebuilder(w, reset)
        PROVE  [Catalog!Next]_(Catalog!vars)
        BY <1>1, <1>8 DEF StartWatcher, StartRebuilder
  <1>9. ASSUME \/ \E u \in Uids : MoveOnServer(u) \/ ExpungeElsewhere(u)
               \/ Deliver \/ ResetValidity
        PROVE  [Catalog!Next]_(Catalog!vars)
        BY <1>1, <1>9 DEF MoveOnServer, ExpungeElsewhere, Deliver, ResetValidity
  <1>10. CASE UNCHANGED vars
         BY <1>1, <1>10 DEF vars
  <1>. QED  BY <1>5, <1>6, <1>7, <1>8, <1>9, <1>10 DEF Next

(* The synchronization implements the abstract catalogue, for every number  *)
(* of workers, whether or not they exclude each other.                      *)
THEOREM ImplementsCatalogue == Spec => FollowsCatalogue
  <1>1. Init => Catalog!Init
    <2>1. Init => TypeOK
          BY InitType
    <2>2. TypeOK => rows \in [Uids -> Validities \cup {Catalog!Unknown}]
      <3>1. 0..MaxValidity = Validities \cup {Catalog!Unknown}
            BY SyncAssumption DEF Validities, Catalog!Unknown
      <3>. QED  BY <3>1 DEF TypeOK
    <2>3. Init => tombs = {}
          BY DEF Init
    <2>. QED  BY <2>1, <2>2, <2>3 DEF Catalog!Init
  <1>2. TypeOK /\ [Next]_vars => [Catalog!Next]_(Catalog!vars)
        BY NextCatalogue
  <1>. QED  BY <1>1, <1>2, TypeCorrect, PTL DEF Spec, FollowsCatalogue, Catalog!Spec

-----------------------------------------------------------------------------
(***************************************************************************)
(* Workers that exclude each other.                                        *)
(*                                                                         *)
(* The inductive invariant has layers.  Sole says what the one running     *)
(* sync knows of the mailbox it selected; it bears the theorems that hold  *)
(* whatever happens to the mailbox.  Dated adds the namespaces of the rows *)
(* and of the staged headers, AllMarked what a real-time cycle may claim   *)
(* of its watermark, and Moved and News, where the mailbox is not          *)
(* recreated, what became of the user's moves and of the new mail.         *)
(***************************************************************************)

(* The invariant *)

Running(w) == pc[w] # "idle"

(* At most one sync runs. *)
Alone == \A x, y \in Workers : Running(x) /\ Running(y) => x = y

(* What is known of the current namespace is older than its next UID.       *)
Older(f) == \A u \in Uids : f[u] <= srv.validity /\ (f[u] = srv.validity => u < srv.next)
Numbered ==
    /\ \A u \in srv.uids : u < srv.next
    /\ Older(rows) /\ Older(gen.msgs)
    /\ catalog.validity <= srv.validity
    /\ catalog.validity = srv.validity => \A u \in failures : u < srv.next
    /\ catalog.validity # 0 => sync.known /\ sync.validity = catalog.validity

(* The mailbox a sync has selected: what it does not see there is newer     *)
(* than all it sees, and nothing is known of it.                            *)
Unseen(w) ==
    /\ \A x \in job[w].view : x < srv.next
    /\ \A u \in srv.uids \ job[w].view :
          /\ \A x \in job[w].view : x < u
          /\ rows[u] # srv.validity
          /\ u \in failures => catalog.validity # srv.validity
Selected(w) ==
    /\ job[w].ident.validity \in 1..srv.validity
    /\ catalog.validity <= job[w].ident.validity
    /\ job[w].ident.exists = Cardinality(job[w].view)
    /\ w \in Rebuilders => user.uid = 0
    /\ InSession(w) => Unseen(w)

Planned == {"fetch", "save", "record", "store", "verify", "finalize"}
Begun   == Planned \cup {"stage", "discard"}

(* The generation of the sync holds what the sync sees. *)
Staged(w) ==
    /\ pc[w] \in Begun => job[w].id # NoGen
    /\ pc[w] \in Begun /\ Active(w) => gen.ident = job[w].ident
    /\ pc[w] = "stage" => job[w].left \subseteq job[w].view
    /\ pc[w] = "stage" /\ Active(w) => gen.items \subseteq job[w].view
    /\ pc[w] \in Planned /\ Active(w) => gen.items = job[w].view

(* What a sync asks for and what it is answered. *)
Early == {"prepare", "delta", "apply", "begin", "stage", "fetch"}
Quiet(w) ==
    pc[w] \in Early => job[w].ok = {} /\ job[w].bad = {} /\ job[w].fatal = FALSE
Asked(w) ==
    pc[w] \in Planned =>
        /\ job[w].todo \subseteq job[w].view /\ job[w].inc \subseteq job[w].view
        /\ job[w].fails \subseteq job[w].view /\ job[w].ok \subseteq job[w].view
        /\ job[w].bad \subseteq job[w].view
Answered(w) ==
    /\ pc[w] \in {"save", "record"} => Incrementing(w)
    /\ pc[w] \in {"save", "store"} =>
          /\ job[w].from \in job[w].ident.validity..srv.validity
          /\ job[w].from = srv.validity => \A u \in job[w].ok : u < srv.next
    /\ pc[w] = "record" => \A u \in job[w].ok : rows[u] # 0 \/ u \in tombs

(* A sync that has verified its mailbox brought nothing of a later one. *)
Verified(w) ==
    pc[w] = "finalize" =>
        \A u \in Uids : rows[u] <= job[w].ident.validity
                        /\ gen.msgs[u] <= job[w].ident.validity

(* What a full sync has not fetched it still means to fetch, or a batch of  *)
(* it has failed.                                                           *)
Covered(w, extra) == \A u \in job[w].view : rows[u] # 0 \/ u \in tombs \/ u \in extra
Full(w) ==
    w \in Rebuilders /\ ~job[w].replace =>
        /\ pc[w] \in {"fetch", "store"} /\ ~job[w].failed => Covered(w, job[w].todo)
        /\ pc[w] \in {"verify", "finalize"} => Covered(w, {})

Sound(w) ==
    /\ Selected(w) /\ Staged(w) /\ Quiet(w) /\ Asked(w)
    /\ Answered(w) /\ Verified(w) /\ Full(w)

Sole == Alone /\ Numbered /\ \A w \in Workers : Running(w) => Sound(w)

-----------------------------------------------------------------------------
(* Frames *)

(* Everything the steps compare is a natural number. *)
LEMMA Naturals ==
    ASSUME TypeOK
    PROVE  /\ MaxUid \in Nat /\ MaxValidity \in Nat
           /\ srv.validity \in Nat \ {0} /\ srv.next \in Nat \ {0}
           /\ srv.uids \in SUBSET Uids
           /\ catalog.validity \in Nat /\ sync.validity \in Nat
           /\ Uids \subseteq Nat \ {0}
           /\ rows \in [Uids -> Nat] /\ gen.msgs \in [Uids -> Nat]
  <1>1. MaxUid \in Nat /\ MaxValidity \in Nat
        BY SyncAssumption
  <1>2. /\ srv.validity \in 1..MaxValidity /\ srv.next \in Nat \ {0}
        /\ srv.uids \in SUBSET Uids
        BY DEF TypeOK, Validities
  <1>3. catalog.validity \in 0..MaxValidity /\ sync.validity \in 0..MaxValidity
        BY DEF TypeOK, Identities
  <1>4. rows \in [Uids -> 0..MaxValidity] /\ gen.msgs \in [Uids -> 0..MaxValidity]
        BY DEF TypeOK
  <1>5. Uids \subseteq Nat \ {0}
        BY <1>1 DEF Uids
  <1>. QED  BY <1>1, <1>2, <1>3, <1>4, <1>5

(* A step of one worker leaves every other one as it is: idle.              *)
LEMMA Others ==
    ASSUME Alone, NEW w \in Workers, NEW step, pc \in [Workers -> Steps],
           Running(w) \/ \A x \in Workers : ~Running(x),
           pc' = [pc EXCEPT ![w] = step]
    PROVE  Alone' /\ \A x \in Workers : Running(x)' => x = w
  BY DEF Alone, Running

(* The mailbox a sync has selected stays the one it knows as long as only   *)
(* what it sees there is stored or queued.                                  *)
LEMMA SelectedStays ==
    ASSUME NEW w \in Workers, Selected(w), UNCHANGED <<srv, user>>,
           job'[w].ident = job[w].ident, job'[w].view = job[w].view,
           catalog'.validity = catalog.validity,
           \A u \in Uids \ job[w].view : rows'[u] \in {0, rows[u]},
           failures' \subseteq failures \cup job[w].view,
           srv.uids \in SUBSET Uids, srv.validity # 0
    PROVE  Selected(w)'
  <1>1. InSession(w)' => InSession(w)
        BY DEF InSession
  <1>2. ASSUME Unseen(w) PROVE Unseen(w)'
        BY <1>2 DEF Unseen
  <1>. QED  BY <1>1, <1>2 DEF Selected

(* What a set of the newest or the oldest holds it was taken from. *)
LEMMA HighestIn == \A S, n : Highest(S, n) \subseteq S /\ Lowest(S, n) \subseteq S
  BY DEF Highest, Lowest

(* What is fetched together was planned. *)
LEMMA BatchPlanned ==
    ASSUME NEW w \in Workers, NEW batch \in Batches(w) PROVE batch \subseteq job[w].todo
  <1>1. \A S : Highest(S, BatchSize) \subseteq S
        BY HighestIn
  <1>. QED  BY <1>1 DEF Batches

(* A whole inventory is what the sync has selected. *)
LEMMA WholeInventory ==
    ASSUME TypeOK, NEW w \in Workers, Sound(w), pc[w] = "stage", InventoryWhole(w)
    PROVE  gen.items = job[w].view
  <1>1. gen.items \subseteq job[w].view
        BY DEF Sound, Staged, InventoryWhole
  <1>2. Cardinality(gen.items) = Cardinality(job[w].view)
        BY DEF Sound, Selected, InventoryWhole
  <1>3. IsFiniteSet(job[w].view)
        BY Fields, UidsAreFinite, Naturals
  <1>. QED  BY <1>1, <1>2, <1>3, FS_Subset

(* A step of worker w, which goes to its next step or ends. *)
LEMMA WorkerSteps ==
    ASSUME TypeOK, Alone, NEW w \in Workers, NEW step \in Steps, Go(w, step),
           Running(w) \/ \A x \in Workers : ~Running(x),
           Numbered', step # "idle" => Sound(w)'
    PROVE  Sole'
  <1>1. pc \in [Workers -> Steps] /\ pc' = [pc EXCEPT ![w] = step]
        BY DEF TypeOK, Go
  <1>2. Alone' /\ \A x \in Workers : Running(x)' => x = w
        BY <1>1, Others
  <1>3. ASSUME NEW x \in Workers, Running(x)' PROVE Sound(x)'
    <2>1. x = w
          BY <1>2, <1>3
    <2>2. step # "idle"
          BY <1>1, <1>3, <2>1 DEF Running
    <2>. QED  BY <2>1, <2>2
  <1>. QED  BY <1>2, <1>3 DEF Sole

(* Dropping retries leaves all UIDs older than the next one. *)
LEMMA NumberedStays ==
    ASSUME Numbered, UNCHANGED <<srv, rows, catalog, sync>>,
           failures' \subseteq failures, gen'.msgs = gen.msgs
    PROVE  Numbered'
  BY DEF Numbered, Older

(* Dropping retries and the staged generation leaves all UIDs older than    *)
(* the next one.                                                            *)
LEMMA NumberedDropped ==
    ASSUME TypeOK, Numbered, UNCHANGED <<srv, rows, catalog, sync>>,
           failures' \subseteq failures, gen' = NoStage
    PROVE  Numbered'
  <1>1. \A u \in Uids : gen'.msgs[u] = 0
        BY DEF NoStage
  <1>2. srv.validity \in Nat \ {0} /\ srv' = srv
        BY Naturals
  <1>3. Older(gen.msgs)'
        BY <1>1, <1>2 DEF Older
  <1>. QED  BY <1>3 DEF Numbered, Older

(* A sync that ends without a commit, its generation kept or discarded.     *)
LEMMA Ends ==
    ASSUME TypeOK, Sole, NEW w \in Workers, Running(w), Finish(w),
           UNCHANGED <<srv, rows, catalog, sync, failures>>, gen' \in {gen, NoStage}
    PROVE  Sole'
  <1>1. Numbered'
        BY NumberedStays, NumberedDropped DEF Sole
  <1>2. Go(w, "idle") /\ "idle" \in Steps
        BY DEF Finish, Steps
  <1>. QED  BY <1>1, <1>2, WorkerSteps DEF Sole

-----------------------------------------------------------------------------
(* Selecting the mailbox *)

(* A mailbox just selected is the one the sync knows. *)
LEMMA JustSelected ==
    ASSUME TypeOK, Numbered, NEW w \in Workers, UNCHANGED <<srv, rows, catalog, failures>>,
           job'[w].ident = Identity, job'[w].view = srv.uids,
           w \in Rebuilders => user'.uid = 0
    PROVE  Selected(w)'
  <1>1. /\ Identity.validity = srv.validity
        /\ Identity.exists = Cardinality(srv.uids)
        BY DEF Identity
  <1>2. Unseen(w)'
        BY DEF Unseen, Numbered
  <1>3. srv.validity \in 1..srv.validity /\ catalog.validity <= srv.validity
        BY Naturals DEF Numbered
  <1>. QED  BY <1>1, <1>2, <1>3 DEF Selected

(* A real-time cycle starts alone, with the mailbox it has just selected. *)
LEMMA StartWatcherSole ==
    ASSUME TypeOK, Sole, Exclusive, NEW w \in Watchers, StartWatcher(w) PROVE Sole'
  <1>. DEFINE j == SelectedJob(FALSE, FALSE, NoMark)
  <1>1. /\ w \in Workers /\ w \notin Rebuilders
        /\ job \in [Workers -> Jobs] /\ pc \in [Workers -> Steps]
        BY SyncAssumption DEF Workers, TypeOK
  <1>2. /\ job'[w] = j /\ pc'[w] = "prepare"
        /\ UNCHANGED <<srv, rows, catalog, sync, failures, gen>>
        BY <1>1 DEF StartWatcher, Go, server, store
  <1>3. /\ j.ident = Identity /\ j.view = srv.uids
        /\ j.ok = {} /\ j.bad = {} /\ j.fatal = FALSE
        BY DEF SelectedJob, NoJob
  <1>4. Numbered'
        BY <1>2, NumberedStays DEF Sole
  <1>5. Selected(w)'
        BY <1>1, <1>2, <1>3, JustSelected DEF Sole
  <1>6. Sound(w)'
        BY <1>1, <1>2, <1>3, <1>5
        DEF Sound, Staged, Quiet, Asked, Answered, Verified, Full, Begun, Planned
  <1>. QED  BY <1>1, <1>4, <1>6, WorkerSteps
            DEF StartWatcher, CanStart, Running, Steps, Sole

(* A full sync or a rebuild starts alone, with the mailbox just selected;   *)
(* no move of the user's is under way then.                                 *)
LEMMA StartRebuilderSole ==
    ASSUME TypeOK, Sole, Exclusive, NEW w \in Rebuilders, NEW reset \in BOOLEAN,
           StartRebuilder(w, reset)
    PROVE  Sole'
  <1>1. PICK changed \in BOOLEAN, step \in {"delta", "begin"} :
           /\ job' = [job EXCEPT ![w] = SelectedJob(reset, changed, NoMark)]
           /\ Go(w, step) /\ CanStart(w)
           /\ UNCHANGED <<srv, rows, catalog, sync, failures, gen, user>>
        BY Zenon DEF StartRebuilder, server, store
  <1>. DEFINE j == SelectedJob(reset, changed, NoMark)
  <1>2. w \in Workers /\ job \in [Workers -> Jobs] /\ pc \in [Workers -> Steps]
        BY DEF Workers, TypeOK
  <1>3. job'[w] = j /\ pc'[w] = step
        BY <1>1, <1>2 DEF Go
  <1>4. j.ident = Identity /\ j.view = srv.uids
        /\ j.ok = {} /\ j.bad = {} /\ j.fatal = FALSE
        BY DEF SelectedJob, NoJob
  <1>5. Numbered'
        BY <1>1, NumberedStays DEF Sole
  <1>6. user'.uid = 0
        BY <1>1 DEF CanStart
  <1>7. Selected(w)'
        BY <1>1, <1>2, <1>3, <1>4, <1>6, JustSelected DEF Sole
  <1>8. Sound(w)'
        BY <1>1, <1>3, <1>4, <1>7
        DEF Sound, Staged, Quiet, Asked, Answered, Verified, Full, Begun, Planned
  <1>. QED  BY <1>1, <1>2, <1>5, <1>8, WorkerSteps DEF CanStart, Running, Steps, Sole

(* The comparison of namespaces drops at most retries and a staged          *)
(* generation.                                                              *)
LEMMA PrepareSole ==
    ASSUME TypeOK, Sole, NEW w \in Workers, Prepare(w) PROVE Sole'
  <1>1. /\ job \in [Workers -> Jobs] /\ pc \in [Workers -> Steps]
        /\ Running(w) /\ Sound(w) /\ Numbered
        BY DEF TypeOK, Prepare, Running, Sole
  <1>2. /\ pc'[w] = "begin"
        /\ UNCHANGED <<srv, rows, catalog, user>>
        /\ failures' \subseteq failures /\ gen' \in {gen, NoStage}
        BY <1>1 DEF Prepare, Go, server
  <1>3. /\ job'[w].ident = job[w].ident /\ job'[w].view = job[w].view
        /\ job'[w].ok = job[w].ok /\ job'[w].bad = job[w].bad
        /\ job'[w].fatal = job[w].fatal
        BY <1>1 DEF Prepare, Jobs
  <1>8. Quiet(w)'
        BY <1>1, <1>3 DEF Prepare, Sound, Quiet, Early
  <1>4. Selected(w)'
        BY <1>1, <1>2, <1>3, SelectedStays, Naturals DEF Sound
  <1>5. Sound(w)'
        BY <1>2, <1>4, <1>8
        DEF Sound, Staged, Asked, Answered, Verified, Full, Begun, Planned
  <1>6. catalog.validity # 0 => sync' = sync
        BY <1>1 DEF Prepare, Numbered
  <1>7. Numbered'
    <2>1. Older(gen.msgs)'
          BY <1>1, <1>2, Naturals DEF Numbered, Older, NoStage
    <2>. QED  BY <1>1, <1>2, <1>6, <2>1 DEF Numbered, Older
  <1>. QED  BY <1>1, <1>5, <1>7, WorkerSteps DEF Prepare, Steps, Sole

(* The second SELECT of a CONDSTORE delta is again of the current mailbox. *)
LEMMA DeltaVerifySole ==
    ASSUME TypeOK, Sole, NEW w \in Workers, DeltaVerify(w) PROVE Sole'
  <1>1. /\ job \in [Workers -> Jobs] /\ pc \in [Workers -> Steps]
        /\ Running(w) /\ Sound(w) /\ Numbered /\ job[w] \in Jobs
        BY DEF TypeOK, DeltaVerify, Running, Sole
  <1>2. PICK step \in {"apply", "begin"} :
          /\ Go(w, step)
          /\ job' \in {job, [job EXCEPT ![w].ident = Identity, ![w].view = srv.uids]}
          /\ UNCHANGED <<srv, rows, catalog, sync, failures, gen, user>>
        BY DEF DeltaVerify, server, store
  <1>3. Numbered'
        BY <1>1, <1>2, NumberedStays
  <1>4. Selected(w)'
    <2>1. CASE job' = job
          BY <1>1, <1>2, <2>1, SelectedStays, Naturals DEF Sound
    <2>2. CASE job' # job
      <3>1. job'[w].ident = Identity /\ job'[w].view = srv.uids
            BY <1>1, <1>2, <2>2 DEF Jobs
      <3>2. w \in Rebuilders => user'.uid = 0
            BY <1>1, <1>2 DEF Sound, Selected
      <3>. QED  BY <1>1, <1>2, <3>1, <3>2, JustSelected
    <2>. QED  BY <2>1, <2>2
  <1>5. pc'[w] = step
        BY <1>1, <1>2 DEF Go
  <1>7. Quiet(w)'
    <2>1. /\ job'[w].ok = job[w].ok /\ job'[w].bad = job[w].bad
          /\ job'[w].fatal = job[w].fatal
          BY <1>1, <1>2 DEF Jobs
    <2>. QED  BY <1>1, <2>1 DEF DeltaVerify, Sound, Quiet, Early
  <1>6. Sound(w)'
        BY <1>2, <1>4, <1>5, <1>7
        DEF Sound, Staged, Asked, Answered, Verified, Full, Begun, Planned
  <1>. QED  BY <1>1, <1>2, <1>3, <1>6, WorkerSteps DEF Steps, Sole

(* An applied delta renews the totals of the catalogue, not its namespace. *)
LEMMA DeltaApplySole ==
    ASSUME TypeOK, Sole, NEW w \in Workers, DeltaApply(w) PROVE Sole'
  <1>1. /\ Running(w) /\ Numbered /\ Alone
        BY DEF TypeOK, DeltaApply, Running, Sole
  <1>2. /\ catalog'.validity = catalog.validity
        /\ UNCHANGED <<srv, rows, sync, failures, gen>>
        BY DEF DeltaApply, server
  <1>3. Numbered'
        BY <1>1, <1>2 DEF Numbered, Older
  <1>. QED  BY <1>1, <1>3, WorkerSteps DEF DeltaApply, Finish, Steps

-----------------------------------------------------------------------------
(* Staging and planning *)

(* A generation begun or resumed is that of the mailbox as selected. *)
LEMMA BeginSole ==
    ASSUME TypeOK, Sole, NEW w \in Workers, Begin(w) PROVE Sole'
  <1>1. /\ job \in [Workers -> Jobs] /\ pc \in [Workers -> Steps] /\ job[w] \in Jobs
        /\ Running(w) /\ Sound(w) /\ Numbered
        BY DEF TypeOK, Begin, Running, Sole
  <1>2. /\ Go(w, "stage") /\ pc'[w] = "stage"
        /\ UNCHANGED <<srv, rows, catalog, sync, failures, user>>
        BY <1>1 DEF Begin, Go, server
  <1>3. /\ job'[w].ident = job[w].ident /\ job'[w].view = job[w].view
        /\ job'[w].id = gen'.id /\ job'[w].left = job[w].view
        /\ job'[w].ok = job[w].ok /\ job'[w].bad = job[w].bad
        /\ job'[w].fatal = job[w].fatal
        BY <1>1 DEF Begin, Jobs
  <1>4. /\ gen'.id # NoGen /\ gen'.ident = job[w].ident /\ gen'.items = {}
        /\ gen'.msgs = gen.msgs \/ gen'.msgs = [u \in Uids |-> 0]
    <2>1. CASE gen.id # NoGen /\ gen.ident = job[w].ident
          BY <2>1 DEF Begin, TypeOK
    <2>2. CASE ~(gen.id # NoGen /\ gen.ident = job[w].ident)
          BY <2>2, SyncAssumption DEF Begin, NoStage
    <2>. QED  BY <2>1, <2>2
  <1>5. Selected(w)'
        BY <1>1, <1>2, <1>3, SelectedStays, Naturals DEF Sound
  <1>6. Sound(w)'
        BY <1>1, <1>2, <1>3, <1>4, <1>5
        DEF Begin, Quiet, Early, Sound, Staged, Asked, Answered, Verified, Full, Begun, Planned
  <1>7. Numbered'
    <2>1. Older(gen.msgs)'
          BY <1>1, <1>2, <1>4, Naturals DEF Numbered, Older
    <2>. QED  BY <1>1, <1>2, <2>1 DEF Numbered, Older
  <1>. QED  BY <1>1, <1>2, <1>6, <1>7, WorkerSteps DEF Steps, Sole

(* A page staged is part of what the sync sees, or the sync ends. *)
LEMMA StagePageSole ==
    ASSUME TypeOK, Sole, NEW w \in Workers, StagePage(w) PROVE Sole'
  <1>1. /\ job \in [Workers -> Jobs] /\ pc \in [Workers -> Steps] /\ job[w] \in Jobs
        /\ Running(w) /\ Sound(w) /\ Numbered
        BY DEF TypeOK, StagePage, Running, Sole
  <1>2. UNCHANGED <<srv, rows, catalog, sync, failures, user>>
        BY DEF StagePage, server
  <1>3. CASE ~Active(w)
        BY <1>1, <1>2, <1>3, Ends DEF StagePage
  <1>4. CASE Active(w)
    <2>. DEFINE page == Highest(job[w].left, PageSize)
    <2>1. page \subseteq job[w].left
          BY HighestIn
    <2>2. /\ gen' = [gen EXCEPT !.items = @ \cup (page \cap srv.uids)]
          /\ job' = [job EXCEPT ![w].left = @ \ page] /\ pc' = pc /\ pc[w] = "stage"
          BY <1>4 DEF StagePage
    <2>. HIDE DEF page
    <2>3. /\ job'[w].ident = job[w].ident /\ job'[w].view = job[w].view
          /\ job'[w].id = job[w].id /\ job'[w].left = job[w].left \ page
          /\ job'[w].ok = job[w].ok /\ job'[w].bad = job[w].bad
          /\ job'[w].fatal = job[w].fatal
          BY <1>1, <2>2 DEF Jobs
    <2>4. /\ gen'.id = gen.id /\ gen'.ident = gen.ident /\ gen'.msgs = gen.msgs
          /\ gen'.items = gen.items \cup (page \cap srv.uids)
          BY <2>2 DEF TypeOK
    <2>5. Selected(w)'
          BY <1>1, <1>2, <2>3, SelectedStays, Naturals DEF Sound
    <2>6. Staged(w)'
          BY <1>1, <1>4, <2>1, <2>2, <2>3, <2>4
          DEF Sound, Staged, Begun, Planned, Active
    <2>7. Sound(w)'
          BY <1>1, <2>2, <2>3, <2>5, <2>6
          DEF Sound, Quiet, Early, Asked, Answered, Verified, Full, Planned
    <2>8. Numbered'
          BY <1>1, <1>2, <2>4, NumberedStays
    <2>9. Go(w, "stage")
          BY <1>1, <2>2 DEF Go
    <2>. QED  BY <1>1, <2>7, <2>8, <2>9, WorkerSteps DEF Steps, Sole
  <1>. QED  BY <1>3, <1>4

(* What a plan sets. *)
LEMMA Plans ==
    ASSUME TypeOK, NEW w \in Workers, Plan(w), ~Finish(w)
    PROVE  /\ InventoryWhole(w) /\ Go(w, "fetch")
           /\ \E retried \in SUBSET (failures \cap gen.items), inc \in SUBSET gen.items,
                 local \in {{}, Local} :
                /\ w \in Rebuilders => retried = failures \cap gen.items
                /\ ~(w \in Rebuilders /\ job[w].replace) => local = Local
                /\ job[w].replace => inc = {}
                /\ ~job[w].replace /\ w \in Rebuilders =>
                     inc = (gen.items \ local) \ retried
                /\ ~job[w].replace /\ w \notin Rebuilders => inc = Incremental(w, retried)
                /\ job' = [job EXCEPT ![w] = [job[w] EXCEPT
                     !.view = gen.items, !.local = local, !.fails = retried, !.inc = inc,
                     !.todo = IF job[w].replace THEN Unstaged ELSE inc \cup retried]]
  <1>. DEFINE local == IF w \in Rebuilders /\ job[w].replace THEN {} ELSE Local
              seen  == failures \cap gen.items
              inc(retried) == IF job[w].replace THEN {}
                              ELSE IF w \in Rebuilders THEN (gen.items \ local) \ seen
                              ELSE Incremental(w, retried)
  <1>1. PICK retried \in SUBSET seen :
           /\ w \in Rebuilders => retried = seen
           /\ job' = [job EXCEPT
                       ![w].view = gen.items, ![w].local = local,
                       ![w].fails = retried, ![w].inc = inc(retried),
                       ![w].todo = IF job[w].replace THEN Unstaged
                                   ELSE inc(retried) \cup retried]
        BY Zenon DEF Plan
  <1>2. InventoryWhole(w) /\ Go(w, "fetch")
        BY DEF Plan
  <1>3. inc(retried) \in SUBSET gen.items
    <2>1. \A S, n : Highest(S, n) \subseteq S /\ Lowest(S, n) \subseteq S
          BY HighestIn
    <2>2. Incremental(w, retried) \subseteq gen.items
          BY <2>1 DEF Incremental
    <2>. QED  BY <2>2
  <1>4. job' = [job EXCEPT ![w] = [job[w] EXCEPT
                 !.view = gen.items, !.local = local, !.fails = retried,
                 !.inc = inc(retried),
                 !.todo = IF job[w].replace THEN Unstaged ELSE inc(retried) \cup retried]]
    <2>. HIDE DEF local, inc, seen
    <2>. QED  BY <1>1 DEF TypeOK
  <1>5. local \in {{}, Local} /\ (~(w \in Rebuilders /\ job[w].replace) => local = Local)
        OBVIOUS
  <1>6. /\ job[w].replace => inc(retried) = {}
        /\ ~job[w].replace /\ w \in Rebuilders =>
             inc(retried) = (gen.items \ local) \ retried
        /\ ~job[w].replace /\ w \notin Rebuilders => inc(retried) = Incremental(w, retried)
        BY <1>1
  <1>. HIDE DEF local, inc
  <1>. QED  BY ZenonT(60), <1>1, <1>2, <1>3, <1>4, <1>5, <1>6

(* A sync plans once its inventory is whole: the generation holds what it   *)
(* sees, and a full sync means to fetch every UID it has no row for.        *)
LEMMA PlanSole ==
    ASSUME TypeOK, Sole, NEW w \in Workers, Plan(w) PROVE Sole'
  <1>1. /\ job \in [Workers -> Jobs] /\ pc \in [Workers -> Steps] /\ job[w] \in Jobs
        /\ Running(w) /\ Sound(w) /\ Numbered /\ pc[w] = "stage"
        BY DEF TypeOK, Plan, Running, Sole
  <1>2. UNCHANGED <<srv, rows, catalog, sync, failures, tombs, gen, user>>
        BY DEF Plan, server, store
  <1>3. CASE Finish(w)
        BY <1>1, <1>2, <1>3, Ends
  <1>4. CASE ~Finish(w)
    <2>1. InventoryWhole(w) /\ Go(w, "fetch") /\ pc'[w] = "fetch"
          BY <1>1, <1>4, Plans DEF Go
    <2>2. PICK retried \in SUBSET (failures \cap gen.items), inc \in SUBSET gen.items,
               local \in {{}, Local} :
            /\ ~(w \in Rebuilders /\ job[w].replace) => local = Local
            /\ ~job[w].replace /\ w \in Rebuilders =>
                 inc = (gen.items \ local) \ retried
            /\ job' = [job EXCEPT ![w] = [job[w] EXCEPT
                 !.view = gen.items, !.local = local, !.fails = retried, !.inc = inc,
                 !.todo = IF job[w].replace THEN Unstaged ELSE inc \cup retried]]
          BY ZenonT(60), <1>4, Plans
    <2>3. job'[w] = [job[w] EXCEPT
             !.view = gen.items, !.local = local, !.fails = retried, !.inc = inc,
             !.todo = IF job[w].replace THEN Unstaged ELSE inc \cup retried]
          BY <1>1, <2>2
    <2>4. /\ job'[w].ident = job[w].ident /\ job'[w].id = job[w].id
          /\ job'[w].replace = job[w].replace /\ job'[w].view = gen.items
          /\ job'[w].fails = retried /\ job'[w].inc = inc
          /\ job'[w].todo = IF job[w].replace THEN Unstaged ELSE inc \cup retried
          /\ job'[w].ok = job[w].ok /\ job'[w].bad = job[w].bad
          /\ job'[w].fatal = job[w].fatal
          BY <1>1, <2>3 DEF Jobs
    <2>5. gen.items = job[w].view
          BY <1>1, <2>1, WholeInventory
    <2>6. Selected(w)'
          BY <1>1, <1>2, <2>4, <2>5, SelectedStays, Naturals DEF Sound
    <2>7. Staged(w)'
          BY <1>1, <1>2, <2>1, <2>4 DEF Sound, Staged, Begun, Planned, Active
    <2>8. Quiet(w)' /\ Asked(w)'
      <3>1. job[w].ok = {} /\ job[w].bad = {} /\ job[w].fatal = FALSE
            BY <1>1 DEF Sound, Quiet, Early
      <3>2. Unstaged \subseteq gen.items
            BY DEF Unstaged
      <3>. QED  BY <2>2, <2>4, <3>1, <3>2 DEF Quiet, Asked
    <2>9. Full(w)'
      <3>1. ASSUME w \in Rebuilders, ~job[w].replace PROVE Covered(w, job[w].todo)'
        <4>1. job'[w].todo = inc \cup retried /\ inc = (gen.items \ Local) \ retried
              BY <2>2, <2>4, <3>1
        <4>2. \A u \in gen.items : rows[u] # 0 \/ u \in job'[w].todo
              BY <4>1, Fields DEF Local
        <4>. QED  BY <1>2, <2>4, <4>2 DEF Covered
      <3>. QED  BY <2>1, <2>4, <3>1 DEF Full
    <2>10. Sound(w)'
          BY <2>1, <2>6, <2>7, <2>8, <2>9 DEF Sound, Answered, Verified
    <2>11. Numbered'
          BY <1>1, <1>2, NumberedStays
    <2>. QED  BY <1>1, <2>1, <2>10, <2>11, WorkerSteps DEF Steps, Sole
  <1>. QED  BY <1>3, <1>4

-----------------------------------------------------------------------------
(* Fetching and storing *)

(* A fetch that is answered, whole or in part, for some of what was planned.*)
LEMMA FetchedSole ==
    ASSUME TypeOK, Sole, NEW w \in Workers, pc[w] = "fetch",
           NEW ok \in SUBSET (job[w].view \cap srv.uids), NEW bad \in SUBSET job[w].view,
           NEW step \in {"save", "store"}, Go(w, step),
           Incrementing(w) <=> step = "save",
           job'[w].ident = job[w].ident, job'[w].view = job[w].view,
           job'[w].id = job[w].id, job'[w].replace = job[w].replace,
           job'[w].todo = job[w].todo, job'[w].inc = job[w].inc,
           job'[w].fails = job[w].fails, job'[w].failed = job[w].failed,
           job'[w].ok = ok, job'[w].bad = bad, job'[w].from = srv.validity,
           UNCHANGED <<srv, rows, catalog, sync, failures, tombs, gen, user>>
    PROVE  Sole'
  <1>1. /\ pc \in [Workers -> Steps] /\ Running(w) /\ Sound(w) /\ Numbered /\ pc'[w] = step
        /\ step # "finalize"
        BY DEF TypeOK, Running, Sole, Go
  <1>2. Numbered'
        BY <1>1, NumberedStays
  <1>3. Selected(w)'
        BY <1>1, SelectedStays, Naturals DEF Sound
  <1>4. Staged(w)' /\ Quiet(w)' /\ Verified(w)'
        BY <1>1 DEF Sound, Staged, Quiet, Verified, Early, Begun, Planned, Active
  <1>5. Asked(w)'
        BY <1>1 DEF Sound, Asked, Planned
  <1>6. Answered(w)'
    <2>1. job[w].ident.validity \in 1..srv.validity
          BY <1>1 DEF Sound, Selected
    <2>2. srv.validity \in job[w].ident.validity..srv.validity
          BY <2>1, Naturals
    <2>3. \A u \in ok : u < srv.next
          BY <1>1 DEF Numbered
    <2>. QED  BY <1>1, <2>2, <2>3 DEF Answered, Incrementing
  <1>7. Full(w)'
        BY <1>1 DEF Sound, Full, Covered
  <1>8. Sound(w)'
        BY <1>3, <1>4, <1>5, <1>6, <1>7 DEF Sound
  <1>. QED  BY <1>1, <1>2, <1>8, WorkerSteps DEF Sole, Steps

(* What a fetch does to the locals of its worker. *)
KeepsPlan(w) ==
    /\ job'[w].ident = job[w].ident /\ job'[w].view = job[w].view
    /\ job'[w].id = job[w].id /\ job'[w].replace = job[w].replace
    /\ job'[w].todo = job[w].todo /\ job'[w].inc = job[w].inc
    /\ job'[w].fails = job[w].fails /\ job'[w].failed = job[w].failed
    /\ job'[w].highest = job[w].highest /\ job'[w].local = job[w].local
    /\ job'[w].fresh = job[w].fresh

(* A fetch rejects what has left the mailbox, and keeps the plan. *)
LEMMA FetchDoes ==
    ASSUME TypeOK, NEW w \in Workers, Fetch(w)
    PROVE  \E batch \in Batches(w) : \E bad \in SUBSET batch :
             /\ batch \ srv.uids \subseteq bad /\ KeepsPlan(w)
             /\ job'[w].ok = batch \ bad /\ job'[w].bad = bad
             /\ job'[w].from = srv.validity /\ job'[w].fatal = job[w].fatal
  <1>1. PICK batch \in Batches(w) : \E bad \in SUBSET batch :
             /\ batch \ srv.uids \subseteq bad
             /\ job' = [job EXCEPT ![w].ok = batch \ bad, ![w].bad = bad,
                                   ![w].from = srv.validity]
        BY DEF Fetch
  <1>2. PICK bad \in SUBSET batch :
             /\ batch \ srv.uids \subseteq bad
             /\ job' = [job EXCEPT ![w].ok = batch \ bad, ![w].bad = bad,
                                   ![w].from = srv.validity]
        BY <1>1
  <1>3. job[w] \in Jobs /\ job \in [Workers -> Jobs]
        BY DEF TypeOK
  <1>4. job'[w] = [job[w] EXCEPT !.ok = batch \ bad, !.bad = bad, !.from = srv.validity]
        BY <1>2, <1>3
  <1>5. /\ KeepsPlan(w) /\ job'[w].ok = batch \ bad /\ job'[w].bad = bad
        /\ job'[w].from = srv.validity /\ job'[w].fatal = job[w].fatal
        BY <1>3, <1>4 DEF Jobs, KeepsPlan
  <1>. QED  BY <1>2, <1>5

(* A fetch answered brings headers of the mailbox as it is now. *)
LEMMA FetchSole ==
    ASSUME TypeOK, Sole, NEW w \in Workers, Fetch(w) PROVE Sole'
  <1>1. PICK batch \in Batches(w) : \E bad \in SUBSET batch :
             /\ batch \ srv.uids \subseteq bad /\ KeepsPlan(w)
             /\ job'[w].ok = batch \ bad /\ job'[w].bad = bad
             /\ job'[w].from = srv.validity
        BY FetchDoes
  <1>2. PICK bad \in SUBSET batch :
             /\ batch \ srv.uids \subseteq bad /\ KeepsPlan(w)
             /\ job'[w].ok = batch \ bad /\ job'[w].bad = bad
             /\ job'[w].from = srv.validity
        BY <1>1
  <1>3. batch \subseteq job[w].todo /\ job[w].todo \subseteq job[w].view
    <2>1. Sound(w)
          BY DEF Fetch, Sole, Running
    <2>. QED  BY <2>1, BatchPlanned DEF Fetch, Sound, Asked, Planned
  <1>4. batch \ bad \in SUBSET (job[w].view \cap srv.uids) /\ bad \in SUBSET job[w].view
        BY <1>2, <1>3
  <1>5. PICK step \in {"save", "store"} : Go(w, step) /\ (Incrementing(w) <=> step = "save")
        BY DEF Fetch
  <1>6. pc[w] = "fetch" /\ UNCHANGED <<srv, rows, catalog, sync, failures, tombs, gen, user>>
        BY DEF Fetch, server, store
  <1>. QED  BY <1>2, <1>4, <1>5, <1>6, FetchedSole DEF KeepsPlan

(* A fetch that breaks off has been answered for a part, in the order of    *)
(* the batches for a real-time cycle.                                       *)
LEMMA FetchFatalDoes ==
    ASSUME TypeOK, NEW w \in Workers, FetchFatal(w)
    PROVE  \E batch \in Batches(w) : \E f \in batch :
             \E ok \in SUBSET ((batch \cup job[w].inc \cup job[w].fails) \cap srv.uids) :
               /\ Incrementing(w) => ok \subseteq FetchedBefore(w, f)
               /\ KeepsPlan(w) /\ job'[w].ok = ok /\ job'[w].bad = {f}
               /\ job'[w].from = srv.validity /\ job'[w].fatal = TRUE
  <1>1. PICK batch \in Batches(w) : \E f \in batch :
             LET answered == IF Incrementing(w) THEN FetchedBefore(w, f) ELSE batch \ {f}
             IN \E ok \in SUBSET (answered \cap srv.uids) :
                  job' = [job EXCEPT ![w].ok = ok, ![w].bad = {f},
                              ![w].fatal = TRUE, ![w].from = srv.validity]
        BY DEF FetchFatal
  <1>2. PICK f \in batch :
             LET answered == IF Incrementing(w) THEN FetchedBefore(w, f) ELSE batch \ {f}
             IN \E ok \in SUBSET (answered \cap srv.uids) :
                  job' = [job EXCEPT ![w].ok = ok, ![w].bad = {f},
                              ![w].fatal = TRUE, ![w].from = srv.validity]
        BY <1>1
  <1>3. FetchedBefore(w, f) \subseteq job[w].inc \cup job[w].fails
        BY DEF FetchedBefore
  <1>4. PICK ok \in SUBSET ((batch \cup job[w].inc \cup job[w].fails) \cap srv.uids) :
             /\ Incrementing(w) => ok \subseteq FetchedBefore(w, f)
             /\ job' = [job EXCEPT ![w].ok = ok, ![w].bad = {f},
                                   ![w].fatal = TRUE, ![w].from = srv.validity]
        BY <1>2, <1>3
  <1>5. job[w] \in Jobs /\ job \in [Workers -> Jobs]
        BY DEF TypeOK
  <1>6. job'[w] = [job[w] EXCEPT !.ok = ok, !.bad = {f}, !.fatal = TRUE,
                                 !.from = srv.validity]
        BY <1>4, <1>5
  <1>7. /\ KeepsPlan(w) /\ job'[w].ok = ok /\ job'[w].bad = {f}
        /\ job'[w].from = srv.validity /\ job'[w].fatal = TRUE
        BY <1>5, <1>6 DEF Jobs, KeepsPlan
  <1>. QED  BY <1>4, <1>7

(* A fetch that breaks off brings headers of the mailbox as it is now. *)
LEMMA FetchFatalSole ==
    ASSUME TypeOK, Sole, NEW w \in Workers, FetchFatal(w) PROVE Sole'
  <1>1. PICK batch \in Batches(w) : \E f \in batch :
             \E ok \in SUBSET ((batch \cup job[w].inc \cup job[w].fails) \cap srv.uids) :
               /\ KeepsPlan(w) /\ job'[w].ok = ok /\ job'[w].bad = {f}
               /\ job'[w].from = srv.validity
        BY FetchFatalDoes
  <1>2. PICK f \in batch,
             ok \in SUBSET ((batch \cup job[w].inc \cup job[w].fails) \cap srv.uids) :
               /\ KeepsPlan(w) /\ job'[w].ok = ok /\ job'[w].bad = {f}
               /\ job'[w].from = srv.validity
        BY <1>1
  <1>3. /\ batch \subseteq job[w].todo /\ job[w].todo \subseteq job[w].view
        /\ job[w].inc \subseteq job[w].view /\ job[w].fails \subseteq job[w].view
    <2>1. Sound(w)
          BY DEF FetchFatal, Sole, Running
    <2>. QED  BY <2>1, BatchPlanned DEF FetchFatal, Sound, Asked, Planned
  <1>4. ok \in SUBSET (job[w].view \cap srv.uids) /\ {f} \in SUBSET job[w].view
        BY <1>2, <1>3
  <1>5. PICK step \in {"save", "store"} : Go(w, step) /\ (Incrementing(w) <=> step = "save")
        BY DEF FetchFatal
  <1>6. pc[w] = "fetch" /\ UNCHANGED <<srv, rows, catalog, sync, failures, tombs, gen, user>>
        BY DEF FetchFatal, server, store
  <1>. QED  BY <1>2, <1>4, <1>5, <1>6, FetchedSole DEF KeepsPlan

(* An end of a sync that commits nothing. *)
LEMMA StopsSole ==
    ASSUME TypeOK, Sole, NEW w \in Workers,
           Discard(w) \/ FinalizeRefused(w) \/ Abort(w)
    PROVE  Sole'
  <1>1. Running(w) /\ Finish(w) /\ gen' \in {gen, NoStage}
        BY DEF Discard, FinalizeRefused, Abort, Running, store
  <1>2. UNCHANGED <<srv, rows, catalog, sync, failures>>
        BY DEF Discard, FinalizeRefused, Abort, server, store
  <1>. QED  BY <1>1, <1>2, Ends

(* A sync that left a UID behind ends without its commit; the other goes on *)
(* to verify a mailbox it has fetched whole.                                *)
LEMMA FetchDoneSole ==
    ASSUME TypeOK, Sole, NEW w \in Workers, FetchDone(w) PROVE Sole'
  <1>1. /\ pc \in [Workers -> Steps] /\ Running(w) /\ Sound(w) /\ Numbered
        /\ pc[w] = "fetch" /\ ~Incrementing(w) /\ job[w].todo = {}
        /\ job[w] \in Jobs
        BY DEF TypeOK, FetchDone, Running, Sole
  <1>2. UNCHANGED <<srv, rows, catalog, sync, failures, tombs, gen, user>>
        BY DEF FetchDone, server, store
  <1>3. CASE Finish(w)
        BY <1>1, <1>2, <1>3, Ends
  <1>4. CASE ~Finish(w)
    <2>1. PICK step \in {"discard", "verify"} :
             /\ Go(w, step) /\ job' = job /\ pc'[w] = step
             /\ step = "verify" => job[w].failed = FALSE
          BY <1>1, <1>4 DEF FetchDone, Go, Jobs
    <2>2. Selected(w)'
          BY <1>1, <1>2, <2>1, SelectedStays, Naturals DEF Sound
    <2>3. Full(w)'
          BY <1>1, <1>2, <2>1 DEF Sound, Full, Covered
    <2>4. Sound(w)'
          BY <1>1, <1>2, <2>1, <2>2, <2>3
          DEF Sound, Staged, Quiet, Early, Asked, Answered, Verified, Begun, Planned, Active
    <2>5. Numbered'
          BY <1>1, <1>2, NumberedStays
    <2>. QED  BY <1>1, <2>1, <2>4, <2>5, WorkerSteps DEF Steps, Sole
  <1>. QED  BY <1>3, <1>4

(* The final SELECT shows the mailbox still under the UIDVALIDITY of the    *)
(* inventory, so everything known of it is of that namespace or older.      *)
LEMMA VerifySole ==
    ASSUME TypeOK, Sole, NEW w \in Workers, Verify(w) PROVE Sole'
  <1>1. /\ pc \in [Workers -> Steps] /\ Running(w) /\ Sound(w) /\ Numbered
        /\ pc[w] = "verify" /\ job[w] \in Jobs
        BY DEF TypeOK, Verify, Running, Sole
  <1>2. UNCHANGED <<srv, rows, catalog, sync, failures, tombs, user>>
        BY DEF Verify, server
  <1>3. CASE Finish(w)
    <2>1. gen' = gen
          BY <1>1, <1>3 DEF Verify, Finish, Go
    <2>. QED  BY <1>1, <1>2, <1>3, <2>1, Ends
  <1>4. CASE ~Finish(w)
    <2>1. PICK step \in {"discard", "finalize"} :
             /\ Go(w, step) /\ job' = job /\ pc'[w] = step
             /\ step = "finalize" => srv.validity = job[w].ident.validity
          BY <1>1, <1>4 DEF Verify, Go, Identity
    <2>2. /\ gen'.id = gen.id /\ gen'.ident = gen.ident /\ gen'.msgs = gen.msgs
          /\ Active(w) => gen'.items = gen.items \cup job[w].view
                          \/ gen'.items = gen.items
      <3>1. CASE gen' = gen
            BY <3>1
      <3>2. CASE gen' # gen
        <4>1. gen' = [gen EXCEPT !.items = @ \cup job[w].view]
              BY <1>1, <1>4, <3>2 DEF Verify
        <4>. QED  BY <4>1 DEF TypeOK
      <3>. QED  BY <3>1, <3>2
    <2>3. Selected(w)'
          BY <1>1, <1>2, <2>1, SelectedStays, Naturals DEF Sound
    <2>4. Staged(w)' /\ Full(w)'
          BY <1>1, <1>2, <2>1, <2>2
          DEF Sound, Full, Covered, Staged, Begun, Planned, Active
    <2>5. Verified(w)'
          BY <1>1, <1>2, <2>1, <2>2 DEF Verified, Numbered, Older
    <2>6. Sound(w)'
          BY <1>1, <1>2, <2>1, <2>3, <2>4, <2>5
          DEF Sound, Quiet, Early, Asked, Answered, Planned
    <2>7. Numbered'
          BY <1>1, <1>2, <2>2, NumberedStays
    <2>. QED  BY <1>1, <2>1, <2>6, <2>7, WorkerSteps DEF Steps, Sole
  <1>. QED  BY <1>3, <1>4

(* What a fetch has brought is of the namespace it was asked in. *)
LEMMA PersistOlder ==
    ASSUME TypeOK, Older(rows), NEW w \in Workers, NEW new,
           new = Persist(w), job[w].from \in Nat, job[w].from <= srv.validity,
           job[w].from = srv.validity => \A u \in job[w].ok : u < srv.next
    PROVE  /\ Older(new) /\ new \in [Uids -> Nat]
           /\ \A u \in Uids : rows[u] # 0 /\ job[w].from # 0 => new[u] # 0
  <1>1. rows \in [Uids -> Nat]
        BY Naturals
  <1>. QED  BY <1>1 DEF Persist, Older

(* The rows a fetch stores are of messages it has seen; the others stay.    *)
LEMMA PersistSeen ==
    ASSUME TypeOK, NEW w \in Workers, job[w].ok \subseteq job[w].view
    PROVE  /\ \A u \in Uids \ job[w].view : Persist(w)[u] = rows[u]
           /\ job[w].from # 0 => \A u \in Uids :
                 u \in job[w].ok \/ rows[u] # 0 => Persist(w)[u] # 0 \/ u \in tombs
  BY DEF Persist

(* A real-time cycle stores what it was answered and moves its watermark.   *)
LEMMA SaveSole ==
    ASSUME TypeOK, Sole, NEW w \in Workers, Save(w) PROVE Sole'
  <1>1. /\ pc \in [Workers -> Steps] /\ Running(w) /\ Sound(w) /\ Numbered
        /\ pc[w] = "save" /\ job[w] \in Jobs /\ job \in [Workers -> Jobs]
        /\ Go(w, "record") /\ pc'[w] = "record"
        BY DEF TypeOK, Save, Running, Sole, Go
  <1>2. /\ UNCHANGED <<srv, catalog, failures, tombs, gen, user>>
        /\ rows' \in {rows, Persist(w)}
        /\ rows' = rows => job[w].ok = {} \/ rows = Persist(w)
        BY DEF Save, server
  <1>3. /\ job'[w].ident = job[w].ident /\ job'[w].view = job[w].view
        /\ job'[w].id = job[w].id /\ job'[w].replace = job[w].replace
        /\ job'[w].todo = job[w].todo /\ job'[w].inc = job[w].inc
        /\ job'[w].fails = job[w].fails /\ job'[w].ok = job[w].ok
        /\ job'[w].bad = job[w].bad /\ job'[w].from = job[w].from
    <2>1. job' = job \/ \E F \in SUBSET Uids : job' = [job EXCEPT ![w].fresh = F]
          BY <1>1 DEF Save, NewMail, Jobs
    <2>. QED  BY <1>1, <2>1 DEF Jobs
  <1>4. /\ job[w].ok \subseteq job[w].view /\ Incrementing(w)
        /\ job[w].from \in Nat \ {0} /\ job[w].from <= srv.validity
        /\ job[w].from = srv.validity => \A u \in job[w].ok : u < srv.next
    <2>1. job[w].ident.validity \in Nat \ {0}
          BY <1>1, Naturals DEF Sound, Selected
    <2>. QED  BY <1>1, <2>1, Naturals DEF Sound, Answered, Asked, Planned
  <1>5. /\ \A u \in Uids \ job[w].view : rows'[u] = rows[u]
        /\ \A u \in job[w].ok : rows'[u] # 0 \/ u \in tombs
    <2>1. job[w].ok \subseteq Uids
          BY <1>1 DEF Jobs
    <2>. QED  BY <1>2, <1>4, <2>1, PersistSeen
  <1>6. Numbered'
    <2>1. Older(rows)'
          BY <1>1, <1>2, <1>4, PersistOlder DEF Numbered, Older
    <2>2. catalog.validity # 0 => sync'.validity = sync.validity /\ sync'.known
          BY <1>1 DEF Save, Numbered, TypeOK
    <2>. QED  BY <1>1, <1>2, <2>1, <2>2 DEF Numbered, Older
  <1>7. Selected(w)'
        BY <1>1, <1>2, <1>3, <1>5, SelectedStays, Naturals DEF Sound
  <1>8. Staged(w)' /\ Asked(w)'
        BY <1>1, <1>2, <1>3 DEF Sound, Staged, Asked, Begun, Planned, Active
  <1>9. Answered(w)'
        BY <1>1, <1>2, <1>3, <1>4, <1>5 DEF Answered, Incrementing
  <1>10. Sound(w)'
        BY <1>1, <1>7, <1>8, <1>9 DEF Sound, Quiet, Early, Verified, Full
  <1>. QED  BY <1>1, <1>6, <1>10, WorkerSteps DEF Sole, Steps

(* A retry of the catalogue's namespace is of a UID that namespace has had. *)
LEMMA RetriesNumbered ==
    ASSUME TypeOK, Numbered, NEW w \in Workers, Selected(w),
           UNCHANGED <<srv, catalog>>, failures' \subseteq failures \cup job[w].view
    PROVE  catalog'.validity = srv'.validity => \A u \in failures' : u < srv'.next
  <1>1. ASSUME catalog.validity = srv.validity PROVE \A x \in job[w].view : x < srv.next
    <2>1. srv.validity = job[w].ident.validity
          BY <1>1, Naturals DEF Selected
    <2>. QED  BY <2>1 DEF Selected, Unseen, InSession
  <1>. QED  BY <1>1 DEF Numbered

(* A real-time cycle queues what was rejected and drops what it stored.     *)
LEMMA RecordSole ==
    ASSUME TypeOK, Sole, NEW w \in Workers, Record(w) PROVE Sole'
  <1>1. /\ pc \in [Workers -> Steps] /\ Running(w) /\ Sound(w) /\ Numbered
        /\ pc[w] = "record" /\ job[w] \in Jobs
        BY DEF TypeOK, Record, Running, Sole
  <1>2. UNCHANGED <<srv, rows, catalog, sync, tombs, gen, job, user>>
        BY DEF Record, server
  <1>3. PICK step \in {"verify", "discard"} : Go(w, step) /\ pc'[w] = step
        BY <1>1 DEF Record, Go
  <1>4. failures' \subseteq failures \cup job[w].view
        BY <1>1 DEF Record, Sound, Asked, Planned
  <1>5. Numbered'
        BY <1>1, <1>2, <1>4, RetriesNumbered DEF Sound, Numbered, Older
  <1>6. Selected(w)'
        BY <1>1, <1>2, <1>4, SelectedStays, Naturals DEF Sound
  <1>7. w \notin Rebuilders
        BY <1>1, SyncAssumption DEF Sound, Answered, Incrementing
  <1>8. Sound(w)'
        BY <1>1, <1>2, <1>3, <1>6, <1>7
        DEF Sound, Staged, Quiet, Early, Asked, Answered, Verified, Full, Begun,
            Planned, Active
  <1>. QED  BY <1>1, <1>3, <1>5, <1>8, WorkerSteps DEF Sole, Steps

(* A batch leaves of what is to be fetched only what it has not asked for.  *)
LEMMA StoreGoesOn ==
    ASSUME TypeOK, NEW w \in Workers, Store(w), ~Finish(w)
    PROVE  /\ Go(w, "fetch") /\ job[w].fatal = FALSE
           /\ job'[w].ident = job[w].ident /\ job'[w].view = job[w].view
           /\ job'[w].id = job[w].id /\ job'[w].replace = job[w].replace
           /\ job'[w].todo = job[w].todo \ (job[w].ok \cup job[w].bad)
           /\ job'[w].inc = job[w].inc /\ job'[w].fails = job[w].fails
           /\ job'[w].failed = Failed(w) /\ job'[w].ok = {} /\ job'[w].bad = {}
           /\ job'[w].fatal = FALSE
  <1>1. /\ Go(w, "fetch") /\ ~job[w].fatal
        /\ job' = [job EXCEPT ![w].todo = @ \ (job[w].ok \cup job[w].bad),
                     ![w].failed = Failed(w),
                     ![w].ok = {}, ![w].bad = {}, ![w].from = 0]
        BY DEF Store
  <1>2. job \in [Workers -> Jobs] /\ job[w] \in Jobs
        BY DEF TypeOK
  <1>3. job'[w] = [job[w] EXCEPT !.todo = job[w].todo \ (job[w].ok \cup job[w].bad),
                     !.failed = Failed(w), !.ok = {}, !.bad = {}, !.from = 0]
        BY <1>1, <1>2
  <1>. QED  BY <1>1, <1>2, <1>3 DEF Jobs

(* What a batch does to the store. *)
LEMMA StoreWrites ==
    ASSUME TypeOK, NEW w \in Workers, Store(w)
    PROVE  /\ UNCHANGED <<srv, catalog, sync, tombs, user>>
           /\ rows' \in {rows, Persist(w)}
           /\ ~job[w].replace => rows' = Persist(w)
           /\ gen'.id = gen.id /\ gen'.ident = gen.ident /\ gen'.items = gen.items
           /\ \A u \in Uids : \/ gen'.msgs[u] = gen.msgs[u]
                              \/ /\ Active(w) /\ u \in job[w].ok
                                 /\ gen'.msgs[u] = job[w].from
           /\ \A u \in Uids \cap job[w].ok : u \in failures \ failures' =>
                 ~job[w].replace \/ gen'.msgs[u] = job[w].from
           /\ failures' \subseteq failures \cup job[w].bad
           /\ failures \subseteq failures' \cup job[w].ok
  <1>1. /\ UNCHANGED <<srv, catalog, sync, tombs, user>>
        /\ rows' \in {rows, Persist(w)}
        /\ ~job[w].replace => rows' = Persist(w)
        BY DEF Store, server
  <1>. DEFINE taken == job[w].replace => Active(w) /\ job[w].ok \subseteq gen.items
  <1>2. /\ gen' = IF job[w].replace /\ taken
                  THEN [gen EXCEPT !.msgs = [u \in Uids |->
                           IF u \in job[w].ok THEN job[w].from ELSE gen.msgs[u]]]
                  ELSE gen
        /\ failures' = (failures \cup job[w].bad) \ (IF taken THEN job[w].ok ELSE {})
        BY DEF Store
  <1>. HIDE DEF taken
  <1>3. /\ gen'.id = gen.id /\ gen'.ident = gen.ident /\ gen'.items = gen.items
        /\ IF job[w].replace /\ taken
           THEN gen'.msgs = [u \in Uids |->
                               IF u \in job[w].ok THEN job[w].from ELSE gen.msgs[u]]
           ELSE gen'.msgs = gen.msgs
        BY <1>2 DEF TypeOK
  <1>4. /\ failures' \subseteq failures \cup job[w].bad
        /\ failures \subseteq failures' \cup job[w].ok
        /\ failures \ failures' # {} => taken
        BY <1>2
  <1>5. \A u \in Uids : \/ gen'.msgs[u] = gen.msgs[u]
                        \/ /\ Active(w) /\ u \in job[w].ok
                           /\ gen'.msgs[u] = job[w].from
    <2>1. job[w].replace /\ taken => Active(w)
          BY DEF taken
    <2>. QED  BY <1>3, <2>1
  <1>6. \A u \in Uids \cap job[w].ok : u \in failures \ failures' =>
              ~job[w].replace \/ gen'.msgs[u] = job[w].from
        BY <1>3, <1>4
  <1>. QED  BY <1>1, <1>3, <1>4, <1>5, <1>6

(* A batch of a full sync or of a replacement is stored or staged. *)
LEMMA StoreSole ==
    ASSUME TypeOK, Sole, NEW w \in Workers, Store(w) PROVE Sole'
  <1>1. /\ pc \in [Workers -> Steps] /\ Running(w) /\ Sound(w) /\ Numbered
        /\ pc[w] = "store" /\ job[w] \in Jobs
        BY DEF TypeOK, Store, Running, Sole
  <1>2. /\ UNCHANGED <<srv, catalog, sync, tombs, user>>
        /\ rows' \in {rows, Persist(w)} /\ (~job[w].replace => rows' = Persist(w))
        /\ gen'.id = gen.id /\ gen'.ident = gen.ident /\ gen'.items = gen.items
        /\ \A u \in Uids : \/ gen'.msgs[u] = gen.msgs[u]
                           \/ u \in job[w].ok /\ gen'.msgs[u] = job[w].from
        /\ failures' \subseteq failures \cup job[w].bad
        BY StoreWrites
  <1>3. /\ job[w].ok \subseteq job[w].view /\ job[w].bad \subseteq job[w].view
        /\ job[w].view \subseteq Uids
        /\ job[w].from \in Nat \ {0} /\ job[w].from <= srv.validity
        /\ job[w].from = srv.validity => \A u \in job[w].ok : u < srv.next
    <2>1. job[w].ident.validity \in Nat \ {0}
          BY <1>1, Naturals DEF Sound, Selected
    <2>. QED  BY <1>1, <2>1, Naturals DEF Sound, Answered, Asked, Planned, Jobs
  <1>4. Numbered'
    <2>1. Older(rows)'
          BY <1>1, <1>2, <1>3, PersistOlder DEF Numbered, Older
    <2>2. Older(gen.msgs)'
          BY <1>1, <1>2, <1>3 DEF Numbered, Older
    <2>3. catalog'.validity = srv'.validity => \A u \in failures' : u < srv'.next
          BY <1>1, <1>2, <1>3, RetriesNumbered DEF Sound
    <2>. QED  BY <1>1, <1>2, <2>1, <2>2, <2>3 DEF Numbered
  <1>5. CASE Finish(w)
        BY <1>1, <1>4, <1>5, WorkerSteps DEF Sole, Steps, Finish
  <1>6. CASE ~Finish(w)
    <2>1. /\ Go(w, "fetch") /\ job[w].fatal = FALSE
          /\ job'[w].ident = job[w].ident /\ job'[w].view = job[w].view
          /\ job'[w].id = job[w].id /\ job'[w].replace = job[w].replace
          /\ job'[w].todo = job[w].todo \ (job[w].ok \cup job[w].bad)
          /\ job'[w].inc = job[w].inc /\ job'[w].fails = job[w].fails
          /\ job'[w].failed = Failed(w) /\ job'[w].ok = {} /\ job'[w].bad = {}
          /\ job'[w].fatal = FALSE
          BY <1>6, StoreGoesOn
    <2>2. pc'[w] = "fetch"
          BY <1>1, <2>1 DEF Go
    <2>3. /\ \A u \in Uids \ job[w].view : rows'[u] = rows[u]
          /\ ~job[w].replace =>
               \A u \in Uids : u \in job[w].ok \/ rows[u] # 0 => rows'[u] # 0 \/ u \in tombs
          BY <1>2, <1>3, PersistSeen
    <2>4. Selected(w)'
          BY <1>1, <1>2, <1>3, <2>1, <2>3, SelectedStays, Naturals DEF Sound
    <2>5. Staged(w)'
          BY <1>1, <1>2, <2>1, <2>2 DEF Sound, Staged, Begun, Planned, Active
    <2>6. Quiet(w)' /\ Asked(w)'
          BY <1>1, <2>1, <2>2 DEF Sound, Asked, Quiet, Planned
    <2>7. Full(w)'
      <3>1. ASSUME w \in Rebuilders, ~job[w].replace, ~job'[w].failed
            PROVE  Covered(w, job[w].todo)'
        <4>1. job[w].failed = FALSE /\ job[w].bad = {}
              BY <1>1, <2>1, <3>1 DEF Failed, Jobs
        <4>2. Covered(w, job[w].todo)
              BY <1>1, <3>1, <4>1 DEF Sound, Full
        <4>. QED  BY <1>2, <1>3, <2>1, <2>3, <3>1, <4>1, <4>2 DEF Covered
      <3>. QED  BY <2>1, <2>2, <3>1 DEF Full
    <2>8. Sound(w)'
          BY <2>2, <2>4, <2>5, <2>6, <2>7 DEF Sound, Answered, Verified
    <2>. QED  BY <1>1, <1>4, <2>1, <2>8, WorkerSteps DEF Sole, Steps
  <1>. QED  BY <1>5, <1>6

(* A commit: the rows, the catalogue and the watermark are of the namespace *)
(* that was inventoried and verified.                                       *)
LEMMA FinalizeSole ==
    ASSUME TypeOK, Sole, NEW w \in Workers, Finalize(w) PROVE Sole'
  <1>1. /\ pc \in [Workers -> Steps] /\ Running(w) /\ Sound(w) /\ Numbered
        /\ pc[w] = "finalize" /\ Finish(w)
        BY DEF TypeOK, Finalize, Running, Sole
  <1>2. gen.ident = job[w].ident /\ gen.items = job[w].view
        BY <1>1 DEF Finalize, Sound, Staged, Begun, Planned
  <1>3. /\ srv' = srv /\ catalog' = job[w].ident /\ gen' = NoStage
        /\ failures' = failures \cap job[w].view
        /\ sync'.known = TRUE /\ sync'.validity = job[w].ident.validity
        /\ \A u \in Uids : rows'[u] \in {0, rows[u], gen.msgs[u]}
        BY <1>1, <1>2 DEF Finalize, server
  <1>4. job[w].ident.validity \in 1..srv.validity
        BY <1>1 DEF Sound, Selected
  <1>5. Older(rows)' /\ Older(gen.msgs)'
    <2>1. \A u \in Uids : gen'.msgs[u] = 0
          BY <1>3 DEF NoStage
    <2>. QED  BY <1>1, <1>3, <2>1, Naturals DEF Numbered, Older
  <1>6. catalog'.validity = srv'.validity => \A u \in failures' : u < srv'.next
        BY <1>1, <1>3 DEF Sound, Selected, Unseen, InSession
  <1>7. Numbered'
        BY <1>1, <1>3, <1>4, <1>5, <1>6, Naturals DEF Numbered
  <1>. QED  BY <1>1, <1>7, WorkerSteps DEF Sole, Steps, Finish

-----------------------------------------------------------------------------
(* The user and the server *)

(* Messages leave the mailbox or the catalogue, for good. *)
LEMMA LeavesSole ==
    ASSUME TypeOK, Sole,
           UNCHANGED <<catalog, sync, failures, gen, pc, job>>,
           srv'.validity = srv.validity, srv'.next = srv.next, srv'.uids \subseteq srv.uids,
           \A u \in Uids : rows'[u] = rows[u] \/ (rows'[u] = 0 /\ u \in tombs'),
           tombs \subseteq tombs',
           (\E w \in Rebuilders : Running(w)) => user'.uid = 0
    PROVE  Sole'
  <1>1. Numbered'
    <2>1. Older(rows)'
          BY Naturals DEF Sole, Numbered, Older
    <2>. QED  BY <2>1 DEF Sole, Numbered, Older
  <1>2. ASSUME NEW w \in Workers, Running(w)' PROVE Sound(w)'
    <2>1. Sound(w) /\ job[w] \in Jobs /\ Running(w)
          BY <1>2 DEF Sole, Running, TypeOK
    <2>2. Selected(w)'
      <3>1. Unseen(w) => Unseen(w)'
            BY Naturals DEF Unseen
      <3>2. InSession(w)' <=> InSession(w)
            BY DEF InSession
      <3>. QED  BY <2>1, <3>1, <3>2 DEF Sound, Selected
    <2>3. Staged(w)' /\ Quiet(w)' /\ Asked(w)'
          BY <2>1 DEF Sound, Staged, Quiet, Asked, Active
    <2>4. Answered(w)' /\ Verified(w)' /\ Full(w)'
      <3>1. \A u \in Uids : rows[u] # 0 \/ u \in tombs => rows'[u] # 0 \/ u \in tombs'
            OBVIOUS
      <3>2. job[w].ok \subseteq Uids /\ job[w].view \subseteq Uids
            BY <2>1 DEF Jobs
      <3>3. Answered(w)'
            BY <2>1, <3>1, <3>2 DEF Sound, Answered, Incrementing
      <3>4. Verified(w)'
        <4>1. ASSUME pc[w] = "finalize" PROVE job[w].ident.validity \in Nat
              BY <2>1 DEF Jobs, Identities
        <4>. QED  BY <2>1, <4>1 DEF Sound, Verified
      <3>5. Full(w)'
            BY <2>1, <3>1, <3>2 DEF Sound, Full, Covered
      <3>. QED  BY <3>3, <3>4, <3>5
    <2>. QED  BY <2>2, <2>3, <2>4 DEF Sound
  <1>. QED  BY <1>1, <1>2 DEF Sole, Alone, Running

(* A move starts on the server with no full sync running; the message       *)
(* leaves.                                                                  *)
LEMMA MoveOnServerSole ==
    ASSUME TypeOK, Sole, NEW u \in Uids, MoveOnServer(u) PROVE Sole'
  <1>1. /\ srv'.validity = srv.validity /\ srv'.next = srv.next
        /\ srv'.uids = srv.uids \ {u}
        BY DEF MoveOnServer, TypeOK
  <1>2. UNCHANGED <<rows, tombs, catalog, sync, failures, gen, pc, job>>
        BY DEF MoveOnServer, store
  <1>3. \A w \in Rebuilders : ~Running(w)
        BY DEF MoveOnServer, Running
  <1>. QED  BY <1>1, <1>2, <1>3, LeavesSole

(* The second half of a move swaps the row for a tombstone. *)
LEMMA MoveLocallySole ==
    ASSUME TypeOK, Sole, MoveLocally PROVE Sole'
  <1>1. /\ UNCHANGED <<srv, catalog, sync, failures, gen, pc, job>>
        /\ user'.uid = 0 /\ tombs' = tombs \cup {user.uid}
        /\ rows' = [rows EXCEPT ![user.uid] = 0]
        BY DEF MoveLocally, server
  <1>2. \A u \in Uids : rows'[u] = rows[u] \/ (rows'[u] = 0 /\ u \in tombs')
        BY <1>1 DEF TypeOK
  <1>. QED  BY <1>1, <1>2, LeavesSole

(* A message expunged by another client leaves the mailbox. *)
LEMMA ExpungeSole ==
    ASSUME TypeOK, Sole, NEW u \in Uids, ExpungeElsewhere(u) PROVE Sole'
  <1>1. /\ srv'.validity = srv.validity /\ srv'.next = srv.next
        /\ srv'.uids = srv.uids \ {u}
        BY DEF ExpungeElsewhere, TypeOK
  <1>2. UNCHANGED <<rows, tombs, catalog, sync, failures, gen, pc, job, user>>
        BY DEF ExpungeElsewhere, store
  <1>3. (\E w \in Rebuilders : Running(w)) => user.uid = 0
        BY DEF Sole, Sound, Selected, Workers
  <1>. QED  BY <1>1, <1>2, <1>3, LeavesSole

(* A new message takes the next UID, of which nothing is known. *)
LEMMA DeliverSole ==
    ASSUME TypeOK, Sole, Deliver PROVE Sole'
  <1>1. /\ srv'.validity = srv.validity /\ srv'.next = srv.next + 1
        /\ srv'.uids = srv.uids \cup {srv.next} /\ srv.next \in Uids
    <2>1. srv.next \in Uids
          BY Naturals DEF Deliver, Uids
    <2>. QED  BY <2>1 DEF Deliver, TypeOK
  <1>2. UNCHANGED <<rows, catalog, sync, failures, tombs, gen, pc, job, user>>
        BY DEF Deliver, store
  <1>3. Numbered'
    <2>1. Older(rows)' /\ Older(gen.msgs)'
          BY <1>1, <1>2, Naturals DEF Sole, Numbered, Older
    <2>2. \A u \in srv'.uids : u < srv'.next
          BY <1>1, Naturals DEF Sole, Numbered
    <2>3. failures \subseteq Nat
          BY Naturals DEF TypeOK
    <2>. QED  BY <1>1, <1>2, <2>1, <2>2, <2>3, Naturals DEF Sole, Numbered
  <1>4. ASSUME NEW w \in Workers, Running(w)' PROVE Sound(w)'
    <2>1. Sound(w) /\ job[w] \in Jobs /\ Running(w) /\ Numbered
          BY <1>2, <1>4 DEF Sole, Running, TypeOK
    <2>2. job[w].view \subseteq Nat /\ job[w].ok \subseteq Nat
          BY <2>1, Naturals DEF Jobs
    <2>3. Selected(w)'
      <3>1. ASSUME Unseen(w) PROVE Unseen(w)'
        <4>1. \A x \in job[w].view : x < srv'.next
              BY <1>1, <2>2, <3>1, Naturals DEF Unseen
        <4>2. ASSUME NEW u \in srv'.uids \ job[w].view
              PROVE  /\ \A x \in job[w].view : x < u
                     /\ rows[u] # srv.validity
                     /\ u \in failures => catalog.validity # srv.validity
          <5>1. CASE u \in srv.uids
                BY <3>1, <4>2, <5>1 DEF Unseen
          <5>2. CASE u = srv.next
            <6>1. ~(srv.next < srv.next)
                  BY Naturals
            <6>. QED  BY <1>1, <2>1, <3>1, <5>2, <6>1 DEF Unseen, Numbered, Older
          <5>. QED  BY <1>1, <4>2, <5>1, <5>2
        <4>. QED  BY <1>1, <1>2, <4>1, <4>2 DEF Unseen
      <3>2. InSession(w)' <=> InSession(w)
            BY <1>1, <1>2 DEF InSession
      <3>. QED  BY <1>1, <1>2, <2>1, <3>1, <3>2 DEF Sound, Selected
    <2>4. Staged(w)' /\ Quiet(w)' /\ Asked(w)' /\ Verified(w)' /\ Full(w)'
          BY <1>2, <2>1
          DEF Sound, Staged, Quiet, Asked, Verified, Full, Covered, Active
    <2>5. Answered(w)'
          BY <1>1, <1>2, <2>1, <2>2, Naturals DEF Sound, Answered, Incrementing
    <2>. QED  BY <2>3, <2>4, <2>5 DEF Sound
  <1>. QED  BY <1>2, <1>3, <1>4 DEF Sole, Alone, Running

(* A mailbox recreated is one no running sync has selected, and all that is *)
(* known is of an older namespace.                                          *)
LEMMA ResetSole ==
    ASSUME TypeOK, Sole, ResetValidity PROVE Sole'
  <1>1. PICK n \in 0..MaxUid : /\ srv'.validity = srv.validity + 1
                               /\ srv'.uids = 1..n /\ srv'.next = n + 1
        BY DEF ResetValidity, TypeOK
  <1>2. UNCHANGED <<rows, catalog, sync, failures, tombs, gen, pc, job, user>>
        BY DEF ResetValidity, store
  <1>3. Numbered'
    <2>1. \A u \in srv'.uids : u < srv'.next
          BY <1>1, Naturals
    <2>2. Older(rows)' /\ Older(gen.msgs)'
          BY <1>1, <1>2, Naturals DEF Sole, Numbered, Older
    <2>. QED  BY <1>1, <1>2, <2>1, <2>2, Naturals DEF Sole, Numbered
  <1>4. ASSUME NEW w \in Workers, Running(w)' PROVE Sound(w)'
    <2>1. Sound(w) /\ job[w] \in Jobs /\ Running(w)
          BY <1>2, <1>4 DEF Sole, Running, TypeOK
    <2>2. job[w].ident.validity \in 1..srv.validity /\ ~InSession(w)'
          BY <1>1, <1>2, <2>1, Naturals DEF Sound, Selected, InSession
    <2>3. Selected(w)'
          BY <1>1, <1>2, <2>1, <2>2, Naturals DEF Sound, Selected
    <2>4. Staged(w)' /\ Quiet(w)' /\ Asked(w)' /\ Verified(w)' /\ Full(w)'
          BY <1>2, <2>1
          DEF Sound, Staged, Quiet, Asked, Verified, Full, Covered, Active
    <2>5. Answered(w)'
          BY <1>1, <1>2, <2>1, <2>2, Naturals DEF Sound, Answered, Incrementing
    <2>. QED  BY <2>3, <2>4, <2>5 DEF Sound
  <1>. QED  BY <1>2, <1>3, <1>4 DEF Sole, Alone, Running

-----------------------------------------------------------------------------
(* The invariant holds *)

(* No sync runs at first, and the store holds nothing or an older           *)
(* inventory.                                                               *)
LEMMA InitSole == Init => Sole
  <1>. SUFFICES ASSUME Init PROVE Sole
       OBVIOUS
  <1>1. TypeOK
        BY InitType
  <1>2. PICK fresh \in StartFresh, n \in 0..MaxUid, c \in Capabilities :
          /\ srv = [validity |-> 1, uids |-> 1..n, next |-> n + 1, caps |-> c]
          /\ rows = [u \in Uids |-> IF ~fresh /\ u <= n THEN 1 ELSE 0]
          /\ catalog = IF fresh THEN NoCatalog ELSE Identity
          /\ sync = IF fresh THEN NoSync
                    ELSE [known |-> TRUE, validity |-> 1, highest |-> Top(1..n)]
          /\ failures = {} /\ gen = NoStage
          /\ pc = [w \in Workers |-> "idle"]
        BY DEF Init
  <1>3. srv.validity = 1 /\ srv.next = n + 1 /\ srv.uids = 1..n /\ n \in Nat
        BY <1>2, Naturals, <1>1
  <1>4. Older(rows) /\ Older(gen.msgs)
    <2>1. \A u \in Uids : u \in Nat /\ (rows[u] = 0 \/ (rows[u] = 1 /\ u <= n))
          BY <1>1, <1>2, Naturals
    <2>2. \A u \in Uids : gen.msgs[u] = 0
          BY <1>2 DEF NoStage
    <2>. QED  BY <1>3, <2>1, <2>2 DEF Older
  <1>5. /\ catalog.validity \in {0, 1}
        /\ catalog.validity # 0 => sync.known /\ sync.validity = catalog.validity
        BY <1>2, <1>3 DEF NoCatalog, Identity
  <1>6. Numbered
        BY <1>2, <1>3, <1>4, <1>5 DEF Numbered
  <1>7. \A w \in Workers : ~Running(w)
        BY <1>2 DEF Running
  <1>. QED  BY <1>6, <1>7 DEF Sole, Alone

(* Nothing changes in a stuttering step. *)
LEMMA StutterSole ==
    ASSUME Sole, UNCHANGED vars PROVE Sole'
  BY DEF Sole, vars, Alone, Running, Numbered, Older, Sound, Selected, Unseen, InSession,
         Staged, Active, Quiet, Asked, Answered, Incrementing, Verified, Full, Covered

(* Every step keeps Sole, one action at a time. *)
LEMMA NextSole ==
    ASSUME Exclusive, TypeOK, Sole, [Next]_vars PROVE Sole'
  <1>1. CASE UNCHANGED vars
        BY <1>1, StutterSole
  <1>2. ASSUME NEW w \in Watchers, StartWatcher(w) PROVE Sole'
        BY <1>2, StartWatcherSole
  <1>3. ASSUME NEW w \in Rebuilders, NEW reset \in BOOLEAN, StartRebuilder(w, reset)
        PROVE  Sole'
        BY <1>3, StartRebuilderSole
  <1>4. ASSUME NEW w \in Workers, Progress(w) \/ FetchFatal(w) \/ Abort(w) PROVE Sole'
        BY <1>4, PrepareSole, DeltaVerifySole, DeltaApplySole, BeginSole, StagePageSole,
           PlanSole, FetchSole, FetchFatalSole, SaveSole, RecordSole, StoreSole,
           FetchDoneSole, VerifySole, FinalizeSole, StopsSole DEF Progress
  <1>5. ASSUME NEW u \in Uids, MoveOnServer(u) \/ ExpungeElsewhere(u) PROVE Sole'
        BY <1>5, MoveOnServerSole, ExpungeSole
  <1>6. CASE MoveLocally \/ Deliver \/ ResetValidity
        BY <1>6, MoveLocallySole, DeliverSole, ResetSole
  <1>. QED  BY <1>1, <1>2, <1>3, <1>4, <1>5, <1>6 DEF Next

(* Workers that exclude each other: one sync at a time, and it knows the    *)
(* mailbox it works against.                                                *)
THEOREM SoleHolds ==
    ASSUME Exclusive PROVE Spec => [](TypeOK /\ Sole)
  <1>1. Init => TypeOK /\ Sole
        BY InitType, InitSole
  <1>2. TypeOK /\ Sole /\ [Next]_vars => (TypeOK /\ Sole)'
        BY NextType, NextSole
  <1>. QED  BY <1>1, <1>2, PTL DEF Spec

-----------------------------------------------------------------------------
(* What a commit, a deletion and a retry may do *)

(* A generation that goes as its sync ends was committed by that sync. *)
LEMMA Commits ==
    ASSUME Exclusive, TypeOK, Sole, [Next]_vars, NEW w \in Workers,
           pc[w] = "finalize", pc'[w] = "idle", gen.id = job[w].id, gen'.id = NoGen
    PROVE  Finalize(w)
  <1>1. gen.id # NoGen /\ pc \in [Workers -> Steps]
        BY DEF Sole, Sound, Staged, Begun, Planned, Running, TypeOK
  <1>2. gen' # gen /\ pc' # pc
        BY <1>1
  <1>3. \A x \in Workers : ~CanStart(x)
        BY DEF CanStart
  <1>4. ~(UNCHANGED vars)
        BY <1>2 DEF vars
  <1>5. ~(\E u \in Uids : MoveOnServer(u) \/ ExpungeElsewhere(u))
        BY <1>2 DEF MoveOnServer, ExpungeElsewhere
  <1>6. ~(MoveLocally \/ Deliver \/ ResetValidity)
        BY <1>2 DEF MoveLocally, Deliver, ResetValidity
  <1>7. ~(\E x \in Watchers : StartWatcher(x))
        BY <1>3 DEF StartWatcher, Workers
  <1>8. ~(\E x \in Rebuilders, reset \in BOOLEAN : StartRebuilder(x, reset))
        BY <1>3 DEF StartRebuilder, Workers
  <1>9. PICK x \in Workers : Progress(x) \/ FetchFatal(x) \/ Abort(x)
        BY <1>4, <1>5, <1>6, <1>7, <1>8 DEF Next
  <1>10. Running(x)
        BY <1>9 DEF Progress, FetchFatal, Abort, Prepare, DeltaVerify, DeltaApply, Begin,
                    StagePage, Plan, Fetch, Save, Record, Store, FetchDone, Discard,
                    Verify, Finalize, FinalizeRefused, Running
  <1>11. x = w
        BY <1>10 DEF Sole, Alone, Running
  <1>12. ~(FinalizeRefused(w) \/ FetchFatal(w) \/ Abort(w))
        BY <1>2 DEF FinalizeRefused, FetchFatal, Abort, store
  <1>13. ~(\/ Prepare(w) \/ DeltaVerify(w) \/ DeltaApply(w) \/ Begin(w) \/ StagePage(w)
           \/ Plan(w) \/ Fetch(w) \/ Save(w) \/ Record(w) \/ Store(w) \/ FetchDone(w)
           \/ Discard(w) \/ Verify(w))
        BY DEF Prepare, DeltaVerify, DeltaApply, Begin, StagePage, Plan, Fetch, Save,
               Record, Store, FetchDone, Discard, Verify
  <1>. QED  BY <1>9, <1>11, <1>12, <1>13 DEF Progress

(* A full sync that commits has a row for all it inventoried. *)
LEMMA CommitIsWhole ==
    ASSUME TypeOK, Sole, NEW w \in Rebuilders, Finalize(w)
    PROVE  \A u \in gen.items : rows'[u] # 0 \/ u \in tombs
  <1>1. w \in Workers /\ Sound(w) /\ pc[w] = "finalize" /\ Active(w)
        BY DEF Workers, Finalize, Sole, Running
  <1>2. gen.items = job[w].view /\ gen.items \subseteq Uids
        BY <1>1 DEF Sound, Staged, Planned, Begun, TypeOK
  <1>3. \A u \in gen.items : rows'[u] = IF job[w].replace THEN gen.msgs[u] ELSE rows[u]
        BY <1>2 DEF Finalize
  <1>4. CASE job[w].replace
        BY <1>2, <1>3, <1>4 DEF Finalize, Unstaged
  <1>5. CASE ~job[w].replace
        BY <1>1, <1>2, <1>3, <1>5 DEF Sound, Full, Covered
  <1>. QED  BY <1>4, <1>5

(* A commit drops no row of a message the server holds: what it does not    *)
(* see is of an older namespace, or newer than all it has seen.             *)
LEMMA CommitKeepsRows ==
    ASSUME TypeOK, Sole, NEW w \in Workers, Finalize(w), NEW u \in srv.uids,
           rows[u] = srv.validity
    PROVE  rows'[u] # 0
  <1>1. Sound(w) /\ pc[w] = "finalize" /\ Active(w) /\ u \in Uids
        BY DEF Finalize, Sole, Running, TypeOK
  <1>2. gen.items = job[w].view
        BY <1>1 DEF Sound, Staged, Planned, Begun
  <1>3. u \in job[w].view
    <2>1. CASE InSession(w)
          BY <1>1, <2>1 DEF Sound, Selected, Unseen
    <2>2. CASE ~InSession(w)
          BY <1>1, <2>2, Naturals DEF Sound, Selected, Verified, InSession
    <2>. QED  BY <2>1, <2>2
  <1>4. rows'[u] = IF job[w].replace THEN gen.msgs[u] ELSE rows[u]
        BY <1>1, <1>2, <1>3 DEF Finalize
  <1>. QED  BY <1>2, <1>3, <1>4, Naturals DEF Finalize, Unstaged

(* The steps of a worker that touch rows or retries. *)
LEMMA QuietSteps ==
    ASSUME NEW w \in Workers, Progress(w) \/ FetchFatal(w) \/ Abort(w)
    PROVE  \/ Save(w) \/ Store(w) \/ Finalize(w)
           \/ rows' = rows /\ (failures' = failures \/ Prepare(w) \/ Record(w))
  <1>1. CASE Prepare(w) \/ Record(w)
        BY <1>1 DEF Prepare, Record
  <1>2. CASE DeltaVerify(w) \/ DeltaApply(w) \/ Begin(w) \/ StagePage(w) \/ Plan(w)
             \/ Fetch(w) \/ FetchDone(w)
        BY <1>2 DEF DeltaVerify, DeltaApply, Begin, StagePage, Plan, Fetch, FetchDone, store
  <1>3. CASE Discard(w) \/ Verify(w) \/ FinalizeRefused(w) \/ FetchFatal(w) \/ Abort(w)
        BY <1>3 DEF Discard, Verify, FinalizeRefused, FetchFatal, Abort, store
  <1>. QED  BY <1>1, <1>2, <1>3 DEF Progress

(* What is stored stays stored through a fetch. *)
LEMMA PersistKeeps ==
    ASSUME TypeOK, Sole, NEW w \in Workers, pc[w] \in {"save", "store"}
    PROVE  /\ \A u \in Uids : rows[u] # 0 => Persist(w)[u] # 0
           /\ \A u \in Uids \cap job[w].ok : Persist(w)[u] # 0 \/ u \in tombs
           /\ job[w].from # 0
  <1>1. job[w].ident.validity \in Nat \ {0}
        BY Naturals DEF Sole, Sound, Selected, Running
  <1>2. job[w].from # 0
        BY <1>1, Naturals DEF Sole, Sound, Answered, Running
  <1>. QED  BY <1>2 DEF Persist

(* A row of a message the server holds goes with a move of the user's only. *)
LEMMA NextKeepsRows ==
    ASSUME Exclusive, TypeOK, Sole, [Next]_vars PROVE LosesNoLiveRow
  <1>. SUFFICES ASSUME NEW u \in Uids, u \in srv.uids, rows[u] = srv.validity, rows'[u] = 0
                PROVE  user.uid = u
       BY DEF LosesNoLiveRow
  <1>1. srv.validity # 0 /\ rows' # rows
        BY Naturals
  <1>2. ASSUME NEW w \in Workers, Progress(w) \/ FetchFatal(w) \/ Abort(w) PROVE FALSE
    <2>1. Save(w) \/ Store(w) \/ Finalize(w)
          BY <1>1, <1>2, QuietSteps
    <2>2. CASE Save(w) \/ Store(w)
      <3>1. rows' = Persist(w)
            BY <1>1, <2>2 DEF Save, Store
      <3>2. Persist(w)[u] # 0
            BY <1>1, <2>2, PersistKeeps DEF Save, Store
      <3>. QED  BY <3>1, <3>2
    <2>. QED  BY <2>1, <2>2, CommitKeepsRows
  <1>3. CASE MoveLocally
        BY <1>1, <1>3 DEF MoveLocally, TypeOK
  <1>4. ASSUME UNCHANGED vars \/ Deliver \/ ResetValidity
               \/ \E x \in Uids : MoveOnServer(x) \/ ExpungeElsewhere(x)
        PROVE  FALSE
        BY <1>1, <1>4 DEF vars, Deliver, ResetValidity, MoveOnServer, ExpungeElsewhere, store
  <1>5. ASSUME (\E w \in Watchers : StartWatcher(w))
               \/ \E w \in Rebuilders, reset \in BOOLEAN : StartRebuilder(w, reset)
        PROVE  FALSE
        BY <1>1, <1>5 DEF StartWatcher, StartRebuilder, store
  <1>. QED  BY <1>2, <1>3, <1>4, <1>5 DEF Next

(* A catalogue of the current namespace is the one every sync has selected, *)
(* so its retries are not those of an old one.                              *)
LEMMA PrepareKeepsRetries ==
    ASSUME TypeOK, Sole, NEW w \in Workers, Prepare(w), catalog.validity = srv.validity
    PROVE  failures' = failures
  <1>1. job[w].ident.validity = srv.validity
        BY Naturals DEF Prepare, Sole, Sound, Selected, Running
  <1>2. sync.validity = srv.validity /\ srv.validity # 0
        BY Naturals DEF Sole, Numbered
  <1>. QED  BY <1>1, <1>2 DEF Prepare, NamespaceChanged

(* A retry leaves the queue for a row, a staged header or a tombstone. *)
LEMMA NextKeepsRetries ==
    ASSUME Exclusive, TypeOK, Sole, [Next]_vars PROVE KeepsRetries
  <1>. SUFFICES ASSUME NEW u \in failures, u \notin failures', u \in srv.uids,
                       catalog.validity = srv.validity
                PROVE  rows'[u] # 0 \/ gen'.msgs[u] # 0 \/ u \in tombs'
       BY DEF KeepsRetries
  <1>1. failures' # failures /\ u \in Uids
        BY DEF TypeOK
  <1>2. ASSUME NEW w \in Workers, Progress(w) \/ FetchFatal(w) \/ Abort(w)
        PROVE  rows'[u] # 0 \/ gen'.msgs[u] # 0 \/ u \in tombs'
    <2>1. Store(w) \/ Finalize(w) \/ Record(w)
      <3>1. ~Save(w)
            BY <1>1 DEF Save
      <3>2. ~Prepare(w)
            BY <1>1, PrepareKeepsRetries
      <3>. QED  BY <1>1, <1>2, <3>1, <3>2, QuietSteps
    <2>2. CASE Record(w)
      <3>1. u \in job[w].ok /\ rows' = rows /\ tombs' = tombs /\ pc[w] = "record"
            BY <2>2 DEF Record
      <3>. QED  BY <3>1 DEF Sole, Sound, Answered, Running
    <2>3. CASE Store(w)
      <3>1. u \in job[w].ok /\ (~job[w].replace \/ gen'.msgs[u] = job[w].from)
            BY <1>1, <2>3, StoreWrites
      <3>2. job[w].from # 0 /\ (Persist(w)[u] # 0 \/ u \in tombs)
            BY <1>1, <2>3, <3>1, PersistKeeps DEF Store
      <3>3. tombs' = tombs /\ (~job[w].replace => rows' = Persist(w))
            BY <2>3, StoreWrites
      <3>. QED  BY <3>1, <3>2, <3>3
    <2>4. CASE Finalize(w)
      <3>1. Sound(w) /\ pc[w] = "finalize" /\ Active(w)
            BY <2>4 DEF Finalize, Sole, Running
      <3>2. gen.items = job[w].view
            BY <3>1 DEF Sound, Staged, Planned, Begun
      <3>3. u \in srv.uids \ job[w].view
            BY <2>4, <3>2 DEF Finalize
      <3>4. InSession(w)
            BY <3>1, Naturals DEF Sound, Selected, InSession
      <3>. QED  BY <3>1, <3>3, <3>4 DEF Sound, Selected, Unseen
    <2>. QED  BY <2>1, <2>2, <2>3, <2>4
  <1>3. ASSUME UNCHANGED vars \/ Deliver \/ ResetValidity \/ MoveLocally
               \/ \E x \in Uids : MoveOnServer(x) \/ ExpungeElsewhere(x)
        PROVE  FALSE
        BY <1>1, <1>3 DEF vars, Deliver, ResetValidity, MoveLocally, MoveOnServer,
                          ExpungeElsewhere, store
  <1>4. ASSUME (\E w \in Watchers : StartWatcher(w))
               \/ \E w \in Rebuilders, reset \in BOOLEAN : StartRebuilder(w, reset)
        PROVE  FALSE
        BY <1>1, <1>4 DEF StartWatcher, StartRebuilder, store
  <1>. QED  BY <1>2, <1>3, <1>4 DEF Next

(* FullSyncIsComplete: a full sync or a rebuild that commits its generation *)
(* has stored, or staged, every message it inventoried, but for those the   *)
(* user moved away meanwhile.                                               *)
THEOREM FullSyncStoresAll ==
    ASSUME Exclusive PROVE Spec => FullSyncIsComplete
  <1>. DEFINE Whole(w) ==
                pc[w] = "finalize" /\ pc'[w] = "idle"
                  /\ gen.id = job[w].id /\ gen'.id = NoGen
                => \A u \in gen.items : rows'[u] # 0 \/ u \in tombs
  <1>1. TypeOK /\ Sole /\ [Next]_vars => \A w \in Rebuilders : Whole(w)
        BY Commits, CommitIsWhole DEF Workers
  <1>2. Spec => [][\A w \in Rebuilders : Whole(w)]_vars
        BY <1>1, SoleHolds, PTL DEF Spec
  <1>. QED  BY <1>2 DEF FullSyncIsComplete

(* LiveRowsSurvive: no interrupted, resumed or short inventory is taken for *)
(* deletions; only the user's own move drops the row of a live message.     *)
THEOREM LiveRowsAlwaysSurvive ==
    ASSUME Exclusive PROVE Spec => LiveRowsSurvive
  <1>1. TypeOK /\ Sole /\ [Next]_vars => LosesNoLiveRow
        BY NextKeepsRows
  <1>. QED  BY <1>1, SoleHolds, PTL DEF Spec, LiveRowsSurvive

(* RetriesAreKept: a UID that failed leaves the retry queue for a row, for  *)
(* a staged header, for the user's move, or with its namespace.             *)
THEOREM RetriesAlwaysKept ==
    ASSUME Exclusive PROVE Spec => RetriesAreKept
  <1>1. TypeOK /\ Sole /\ [Next]_vars => KeepsRetries
        BY NextKeepsRetries
  <1>. QED  BY <1>1, SoleHolds, PTL DEF Spec, RetriesAreKept

-----------------------------------------------------------------------------
(* The namespace of the rows *)

(* A sync that keeps the stored rows works in their namespace. *)
Named(w) == {catalog.validity, sync.validity} \subseteq {0, job[w].ident.validity}

(* Whatever was learned since the last commit is at least as new as it. *)
Dated ==
    /\ \A u \in Uids : rows[u] # 0 => rows[u] >= catalog.validity
    /\ gen.id # NoGen =>
          \A u \in Uids : gen.msgs[u] # 0 => gen.msgs[u] >= gen.ident.validity
    /\ \A w \in Workers :
          pc[w] \notin {"idle", "prepare"} /\ job[w].replace = FALSE => Named(w)
    /\ MaxValidity = 1 \/ (catalog.validity # 0 /\ \A w \in Workers : pc[w] # "delta")

(* When the namespace of the rows is always known: the mailbox is never     *)
(* recreated; or the store begins with a committed catalogue and the server *)
(* offers no CONDSTORE delta, which would select the mailbox a second time  *)
(* without comparing its UIDVALIDITY again.                                 *)
KnownNamespace ==
    \/ MaxValidity = 1
    \/ TRUE \notin StartFresh /\ \A c \in Capabilities : ~(c.condstore /\ c.uidnext)

(* With one UIDVALIDITY there is nothing to confuse. *)
LEMMA OneValidity ==
    ASSUME TypeOK, Sole, MaxValidity = 1 PROVE Dated
  <1>1. catalog.validity \in 0..1 /\ sync.validity \in 0..1 /\ gen.ident.validity \in 0..1
        BY DEF TypeOK, Identities
  <1>2. srv.validity = 1
        BY DEF TypeOK, Validities
  <1>3. ASSUME NEW w \in Workers, Running(w) PROVE Named(w)
        BY <1>1, <1>2, <1>3 DEF Sole, Sound, Selected, Named
  <1>4. \A u \in Uids : rows[u] \in 0..1 /\ gen.msgs[u] \in 0..1
        BY DEF TypeOK
  <1>. QED  BY <1>1, <1>3, <1>4 DEF Dated, Running

(* A step of a sync that has selected its mailbox keeps what is known of    *)
(* the namespaces, when what it brings is of its own or newer.              *)
LEMMA DatedStays ==
    ASSUME Sole, Dated, NEW w \in Workers, NEW step \in Steps \ {"prepare", "delta"},
           Go(w, step), Running(w), pc \in [Workers -> Steps],
           UNCHANGED <<catalog.validity, sync.validity>>,
           \A u \in Uids : rows'[u] \in {0, rows[u]} \/ rows'[u] >= catalog.validity,
           gen'.id # NoGen =>
               \A u \in Uids : gen'.msgs[u] # 0 => gen'.msgs[u] >= gen'.ident.validity,
           step # "idle" => /\ pc[w] # "prepare" /\ job'[w].replace = job[w].replace
                            /\ job'[w].ident = job[w].ident
    PROVE  Dated'
  <1>1. \A x \in Workers : pc'[x] = IF x = w THEN step ELSE "idle"
        BY DEF Sole, Alone, Running, Go
  <1>2. step # "idle" /\ job'[w].replace = FALSE => Named(w)'
        BY DEF Dated, Named, Running
  <1>. QED  BY <1>1, <1>2 DEF Dated, Named

(* A full sync that keeps the rows starts in the namespace of the           *)
(* catalogue.                                                               *)
LEMMA DatedStarts ==
    ASSUME TypeOK, Sole, Dated, KnownNamespace, MaxValidity # 1, Exclusive,
           (\E w \in Watchers : StartWatcher(w))
           \/ \E w \in Rebuilders, reset \in BOOLEAN : StartRebuilder(w, reset)
    PROVE  Dated'
  <1>1. pc \in [Workers -> Steps] /\ job \in [Workers -> Jobs] /\ srv.caps \in Capabilities
        BY DEF TypeOK
  <1>2. CASE \E w \in Watchers : StartWatcher(w)
    <2>1. PICK w \in Watchers : StartWatcher(w)
          BY <1>2
    <2>2. /\ \A x \in Workers : pc'[x] = IF x = w THEN "prepare" ELSE "idle"
          /\ UNCHANGED <<rows, catalog, sync, gen>>
          BY <1>1, <2>1 DEF StartWatcher, CanStart, Go, store
    <2>. QED  BY <2>2 DEF Dated, Named
  <1>3. CASE \E w \in Rebuilders, reset \in BOOLEAN : StartRebuilder(w, reset)
    <2>1. PICK w \in Rebuilders, reset \in BOOLEAN : StartRebuilder(w, reset)
          BY <1>3
    <2>. DEFINE changed == catalog.validity # 0 /\ catalog.validity # srv.validity
    <2>2. /\ \A x \in Workers : pc'[x] = IF x = w THEN "begin" ELSE "idle"
          /\ job' = [job EXCEPT ![w] = SelectedJob(reset, changed, NoMark)]
          /\ UNCHANGED <<rows, catalog, sync, gen>>
          BY <1>1, <2>1 DEF StartRebuilder, CanStart, Go, store, KnownNamespace
    <2>3. job'[w] = SelectedJob(reset, changed, NoMark) /\ w \in Workers
          BY <1>1, <2>2 DEF Workers
    <2>4. job'[w].replace = (reset \/ changed) /\ job'[w].ident.validity = srv.validity
          BY <2>3 DEF SelectedJob, NoJob, Identity
    <2>5. job'[w].replace = FALSE => Named(w)'
          BY <2>2, <2>4 DEF Named, Sole, Numbered, Dated
    <2>. QED  BY <2>2, <2>5 DEF Dated, Named
  <1>. QED  BY <1>2, <1>3

(* A real-time cycle that keeps the rows has found their namespace          *)
(* unchanged.                                                               *)
LEMMA DatedPrepare ==
    ASSUME TypeOK, Sole, Dated, MaxValidity # 1, NEW w \in Workers, Prepare(w)
    PROVE  Dated'
  <1>. DEFINE v == job[w].ident.validity
              changed == NamespaceChanged(w)
  <1>1. /\ job \in [Workers -> Jobs] /\ pc \in [Workers -> Steps]
        /\ catalog.validity # 0 /\ sync.validity = catalog.validity
        BY DEF TypeOK, Dated, Sole, Numbered
  <1>2. /\ \A x \in Workers : pc'[x] = IF x = w THEN "begin" ELSE "idle"
        /\ UNCHANGED <<rows, catalog, sync>> /\ gen' \in {gen, NoStage}
        BY <1>1 DEF Prepare, Go, Sole, Alone, Running
  <1>3. job'[w].ident = job[w].ident /\ job'[w].replace = changed
        BY <1>1 DEF Prepare, Jobs
  <1>4. job'[w].replace = FALSE => Named(w)'
        BY <1>1, <1>2, <1>3 DEF Named, NamespaceChanged
  <1>5. gen'.id # NoGen =>
            \A u \in Uids : gen'.msgs[u] # 0 => gen'.msgs[u] >= gen'.ident.validity
        BY <1>2 DEF Dated, NoStage
  <1>. QED  BY <1>2, <1>4, <1>5 DEF Dated, Named

(* A generation resumed was staged for the namespace the sync has selected. *)
LEMMA DatedBegin ==
    ASSUME TypeOK, Sole, Dated, NEW w \in Workers, Begin(w) PROVE Dated'
  <1>1. /\ job \in [Workers -> Jobs] /\ pc \in [Workers -> Steps] /\ Running(w)
        /\ Go(w, "stage") /\ pc[w] = "begin"
        /\ UNCHANGED <<rows, catalog, sync>>
        BY DEF TypeOK, Begin, Running
  <1>2. job'[w].ident = job[w].ident /\ job'[w].replace = job[w].replace
        BY ZenonT(60), <1>1 DEF Begin, Jobs
  <1>3. gen'.id # NoGen =>
            \A u \in Uids : gen'.msgs[u] # 0 => gen'.msgs[u] >= gen'.ident.validity
    <2>1. CASE gen.id # NoGen /\ gen.ident = job[w].ident
      <3>1. gen' = [gen EXCEPT !.items = {}]
            BY <2>1 DEF Begin
      <3>2. gen'.msgs = gen.msgs /\ gen'.ident = gen.ident
            BY <3>1 DEF TypeOK
      <3>. QED  BY <2>1, <3>2 DEF Dated
    <2>2. CASE ~(gen.id # NoGen /\ gen.ident = job[w].ident)
      <3>1. gen'.msgs = [u \in Uids |-> 0]
            BY <2>2 DEF Begin, NoStage
      <3>. QED  BY <3>1
    <2>. QED  BY <2>1, <2>2
  <1>. QED  BY <1>1, <1>2, <1>3, DatedStays DEF Steps

(* A page staged or verified changes which UIDs there are, not their headers.*)
LEMMA DatedStaging ==
    ASSUME TypeOK, Sole, Dated, NEW w \in Workers, StagePage(w) \/ Verify(w) PROVE Dated'
  <1>1. /\ job \in [Workers -> Jobs] /\ pc \in [Workers -> Steps] /\ Running(w)
        /\ pc[w] \in {"stage", "verify"} /\ UNCHANGED <<rows, catalog, sync>>
        BY DEF TypeOK, StagePage, Verify, Running
  <1>2. PICK step \in {"idle", "stage", "discard", "finalize"} : Go(w, step)
    <2>1. CASE StagePage(w)
          BY <1>1, <2>1 DEF StagePage, Finish, Go
    <2>2. CASE Verify(w)
          BY <1>1, <2>2 DEF Verify, Finish, Go
    <2>. QED  BY <2>1, <2>2
  <1>3. step # "idle" =>
            job'[w].ident = job[w].ident /\ job'[w].replace = job[w].replace
    <2>1. ASSUME step # "idle" PROVE ~Finish(w)
          BY <1>1, <1>2, <2>1 DEF Finish, Go
    <2>2. ASSUME ~Finish(w)
          PROVE  job' = job \/ job' = [job EXCEPT ![w].left = @ \ Highest(@, PageSize)]
          BY <2>2 DEF StagePage, Verify
    <2>. QED  BY <1>1, <2>1, <2>2 DEF Jobs
  <1>4. gen'.id = gen.id /\ gen'.ident = gen.ident /\ gen'.msgs = gen.msgs
    <2>1. gen' = gen \/ \E S \in SUBSET Uids : gen' = [gen EXCEPT !.items = S]
          BY DEF StagePage, Verify, TypeOK
    <2>. QED  BY <2>1 DEF TypeOK
  <1>. QED  BY <1>1, <1>2, <1>3, <1>4, DatedStays DEF Steps, Dated

(* The steps of a sync that leave the rows and the generation as they are.  *)
LEMMA DatedIdle ==
    ASSUME TypeOK, Sole, Dated, NEW w \in Workers,
           Plan(w) \/ Fetch(w) \/ FetchFatal(w) \/ Record(w) \/ FetchDone(w)
    PROVE  Dated'
  <1>1. /\ job \in [Workers -> Jobs] /\ pc \in [Workers -> Steps] /\ Running(w)
        /\ pc[w] \notin {"prepare", "idle"}
        /\ UNCHANGED <<rows, catalog, sync, gen>>
        BY DEF TypeOK, Plan, Fetch, FetchFatal, Record, FetchDone, Running, store
  <1>2. PICK step \in Steps \ {"prepare", "delta"} : Go(w, step)
        BY DEF Plan, Fetch, FetchFatal, Record, FetchDone, Finish, Steps
  <1>3. step # "idle" =>
            job'[w].ident = job[w].ident /\ job'[w].replace = job[w].replace
    <2>1. CASE Plan(w)
      <3>1. step # "idle" => ~Finish(w)
            BY <1>1, <1>2 DEF Finish, Go
      <3>2. ASSUME ~Finish(w)
            PROVE  job'[w].ident = job[w].ident /\ job'[w].replace = job[w].replace
        <4>1. PICK retried \in SUBSET (failures \cap gen.items), inc \in SUBSET gen.items,
                   local \in {{}, Local} :
                job' = [job EXCEPT ![w] = [job[w] EXCEPT
                  !.view = gen.items, !.local = local, !.fails = retried, !.inc = inc,
                  !.todo = IF job[w].replace THEN Unstaged ELSE inc \cup retried]]
              BY ZenonT(60), <2>1, <3>2, Plans
        <4>. QED  BY <1>1, <4>1 DEF Jobs
      <3>. QED  BY <3>1, <3>2
    <2>2. CASE Fetch(w)
          BY <2>2, FetchDoes DEF KeepsPlan
    <2>3. CASE FetchFatal(w)
          BY <2>3, FetchFatalDoes DEF KeepsPlan
    <2>4. CASE Record(w)
          BY <2>4 DEF Record
    <2>5. CASE FetchDone(w)
          BY <1>1, <1>2, <2>5 DEF FetchDone, Finish, Go
    <2>. QED  BY <2>1, <2>2, <2>3, <2>4, <2>5
  <1>4. gen.id # NoGen => \A u \in Uids : gen.msgs[u] # 0 => gen.msgs[u] >= gen.ident.validity
        BY DEF Dated
  <1>. QED  BY <1>1, <1>2, <1>3, <1>4, DatedStays

(* What is stored or staged comes from the mailbox as it was selected, or   *)
(* from a later one.                                                        *)
LEMMA DatedStoring ==
    ASSUME TypeOK, Sole, Dated, MaxValidity # 1, NEW w \in Workers, Save(w) \/ Store(w) PROVE Dated'
  <1>1. /\ job \in [Workers -> Jobs] /\ pc \in [Workers -> Steps] /\ Running(w)
        /\ pc[w] \in {"save", "store"} /\ Sound(w) /\ job[w] \in Jobs
        BY DEF TypeOK, Save, Store, Running, Sole
  <1>2. /\ job[w].from >= catalog.validity /\ job[w].from >= job[w].ident.validity
        /\ rows \in [Uids -> Nat]
    <2>1. /\ job[w].ident.validity \in 1..srv.validity
          /\ job[w].from \in job[w].ident.validity..srv.validity
          /\ catalog.validity <= job[w].ident.validity
          BY <1>1 DEF Sound, Selected, Answered
    <2>. QED  BY <2>1, Naturals
  <1>3. \A u \in Uids : Persist(w)[u] \in {0, rows[u]} \/ Persist(w)[u] >= catalog.validity
        BY <1>2 DEF Persist
  <1>4. CASE Save(w)
    <2>1. /\ Go(w, "record") /\ UNCHANGED <<catalog, gen>> /\ rows' \in {rows, Persist(w)}
          BY <1>4 DEF Save
    <2>2. sync'.validity = sync.validity
      <3>1. sync.known
            BY DEF Dated, Sole, Numbered
      <3>. QED  BY <1>4, <3>1 DEF Save, TypeOK
    <2>3. job'[w].ident = job[w].ident /\ job'[w].replace = job[w].replace
      <3>1. job' = job \/ \E F \in SUBSET Uids : job' = [job EXCEPT ![w].fresh = F]
            BY <1>1, <1>4 DEF Save, NewMail, Jobs
      <3>. QED  BY <1>1, <3>1 DEF Jobs
    <2>4. gen'.id # NoGen =>
              \A u \in Uids : gen'.msgs[u] # 0 => gen'.msgs[u] >= gen'.ident.validity
          BY <2>1 DEF Dated
    <2>. QED  BY <1>1, <1>3, <2>1, <2>2, <2>3, <2>4, DatedStays DEF Steps
  <1>5. CASE Store(w)
    <2>1. /\ UNCHANGED <<catalog, sync>> /\ rows' \in {rows, Persist(w)}
          /\ gen'.id = gen.id /\ gen'.ident = gen.ident
          /\ \A u \in Uids : \/ gen'.msgs[u] = gen.msgs[u]
                             \/ /\ Active(w) /\ u \in job[w].ok
                                /\ gen'.msgs[u] = job[w].from
          BY <1>5, StoreWrites
    <2>2. Active(w) => gen.ident = job[w].ident
          BY <1>1 DEF Sound, Staged, Begun, Planned
    <2>3. gen'.id # NoGen =>
              \A u \in Uids : gen'.msgs[u] # 0 => gen'.msgs[u] >= gen'.ident.validity
          BY <1>2, <2>1, <2>2 DEF Dated
    <2>4. PICK step \in {"idle", "fetch"} : /\ Go(w, step)
                                            /\ step # "idle" => ~Finish(w)
          BY <1>1, <1>5 DEF Store, Finish, Go
    <2>5. ~Finish(w) =>
              job'[w].ident = job[w].ident /\ job'[w].replace = job[w].replace
          BY <1>5, StoreGoesOn
    <2>. QED  BY <1>1, <1>3, <2>1, <2>3, <2>4, <2>5, DatedStays DEF Steps
  <1>. QED  BY <1>4, <1>5

(* A sync that ends, and a catalogue whose totals alone are renewed. *)
LEMMA DatedEnds ==
    ASSUME TypeOK, Sole, Dated, NEW w \in Workers,
           Discard(w) \/ FinalizeRefused(w) \/ Abort(w) \/ DeltaApply(w)
    PROVE  Dated'
  <1>1. /\ pc \in [Workers -> Steps] /\ Running(w) /\ Go(w, "idle")
        /\ UNCHANGED <<rows, sync>> /\ catalog'.validity = catalog.validity
        /\ gen' \in {gen, NoStage}
        BY DEF TypeOK, Discard, FinalizeRefused, Abort, DeltaApply, Finish, Running, store
  <1>2. gen'.id # NoGen =>
            \A u \in Uids : gen'.msgs[u] # 0 => gen'.msgs[u] >= gen'.ident.validity
        BY <1>1 DEF Dated, NoStage
  <1>. QED  BY <1>1, <1>2, DatedStays DEF Steps

(* A commit leaves rows of the namespace it was staged for, and no other. *)
LEMMA CommitNamespace ==
    ASSUME TypeOK, Sole, Dated, NEW w \in Workers, Finalize(w)
    PROVE  \A u \in Uids : rows'[u] \in {0, gen.ident.validity}
  <1>1. /\ Sound(w) /\ pc[w] = "finalize" /\ Active(w)
        /\ gen.id # NoGen /\ gen.ident = job[w].ident
        BY DEF Finalize, Sole, Running, Active, Sound, Staged, Begun, Planned
  <1>2. /\ job[w].ident.validity \in 1..srv.validity
        /\ \A u \in Uids : rows[u] <= job[w].ident.validity
                           /\ gen.msgs[u] <= job[w].ident.validity
        BY <1>1 DEF Sound, Selected, Verified
  <1>3. ASSUME NEW u \in Uids, job[w].replace = FALSE
        PROVE  rows[u] \in {0, job[w].ident.validity}
    <2>1. CASE catalog.validity # 0
      <3>1. catalog.validity = job[w].ident.validity
            BY <1>1, <1>3, <2>1 DEF Dated, Named
      <3>. QED  BY <1>2, <3>1, Naturals DEF Dated
    <2>2. CASE catalog.validity = 0
      <3>1. MaxValidity = 1
            BY <2>2 DEF Dated
      <3>2. rows[u] \in 0..1 /\ srv.validity = 1
            BY <3>1 DEF TypeOK, Validities
      <3>. QED  BY <1>2, <3>2
    <2>. QED  BY <2>1, <2>2
  <1>4. \A u \in Uids : gen.msgs[u] \in {0, job[w].ident.validity}
        BY <1>1, <1>2, Naturals DEF Dated
  <1>5. job[w].replace \in BOOLEAN
        BY DEF TypeOK, Jobs
  <1>. QED  BY <1>1, <1>3, <1>4, <1>5 DEF Finalize

(* What a commit leaves is of the namespace it puts in the catalogue. *)
LEMMA DatedFinalize ==
    ASSUME TypeOK, Sole, Dated, NEW w \in Workers, Finalize(w) PROVE Dated'
  <1>1. /\ catalog' = gen.ident /\ gen' = NoStage
        /\ \A x \in Workers : pc'[x] = "idle"
        BY DEF Finalize, Finish, Go, Sole, Alone, Running, TypeOK
  <1>2. gen.ident = job[w].ident /\ job[w].ident.validity \in Nat \ {0}
        BY Naturals DEF Finalize, Sole, Running, Sound, Staged, Selected, Begun, Planned
  <1>3. catalog'.validity = gen.ident.validity /\ gen'.id = NoGen
        BY <1>1 DEF NoStage
  <1>4. \A u \in Uids : rows'[u] # 0 => rows'[u] >= gen.ident.validity
        BY <1>2, CommitNamespace
  <1>. QED  BY <1>1, <1>2, <1>3, <1>4 DEF Dated

(* The user and the server add no row and leave the stored namespaces       *)
(* alone.                                                                   *)
LEMMA DatedEnvironment ==
    ASSUME TypeOK, Sole, Dated,
           \/ MoveLocally \/ Deliver \/ ResetValidity \/ UNCHANGED vars
           \/ \E u \in Uids : MoveOnServer(u) \/ ExpungeElsewhere(u)
    PROVE  Dated'
  <1>1. UNCHANGED <<catalog, sync, gen, pc, job>>
        BY DEF MoveLocally, Deliver, ResetValidity, MoveOnServer, ExpungeElsewhere, store, vars
  <1>2. \A u \in Uids : rows'[u] \in {0, rows[u]}
    <2>1. rows' = rows \/ rows' = [rows EXCEPT ![user.uid] = 0]
          BY DEF MoveLocally, Deliver, ResetValidity, MoveOnServer, ExpungeElsewhere, store, vars
    <2>. QED  BY <2>1 DEF TypeOK
  <1>. QED  BY <1>1, <1>2 DEF Dated, Named

(* Every step keeps Dated while mailboxes are recreated. *)
LEMMA NextDated ==
    ASSUME Exclusive, KnownNamespace, MaxValidity # 1, TypeOK, Sole, Dated, [Next]_vars
    PROVE  Dated'
  <1>1. ASSUME NEW w \in Workers, Progress(w) \/ FetchFatal(w) \/ Abort(w) PROVE Dated'
    <2>1. ~DeltaVerify(w)
          BY DEF DeltaVerify, Dated
    <2>2. CASE Prepare(w)
          BY <2>2, DatedPrepare
    <2>3. CASE Begin(w) \/ StagePage(w) \/ Verify(w)
          BY <2>3, DatedBegin, DatedStaging
    <2>4. CASE Plan(w) \/ Fetch(w) \/ FetchFatal(w) \/ Record(w) \/ FetchDone(w)
          BY <2>4, DatedIdle
    <2>5. CASE Save(w) \/ Store(w) \/ Finalize(w)
          BY <2>5, DatedStoring, DatedFinalize
    <2>6. CASE Discard(w) \/ FinalizeRefused(w) \/ Abort(w) \/ DeltaApply(w)
          BY <2>6, DatedEnds
    <2>. QED  BY <1>1, <2>1, <2>2, <2>3, <2>4, <2>5, <2>6 DEF Progress
  <1>2. CASE \/ MoveLocally \/ Deliver \/ ResetValidity \/ UNCHANGED vars
             \/ \E u \in Uids : MoveOnServer(u) \/ ExpungeElsewhere(u)
        BY <1>2, DatedEnvironment
  <1>3. CASE \/ \E w \in Watchers : StartWatcher(w)
             \/ \E w \in Rebuilders, reset \in BOOLEAN : StartRebuilder(w, reset)
        BY <1>3, DatedStarts
  <1>. QED  BY <1>1, <1>2, <1>3 DEF Next

(* The store begins with the rows and the catalogue of one namespace. *)
LEMMA InitDated == ASSUME KnownNamespace, MaxValidity # 1, Init PROVE Dated
  <1>1. PICK fresh \in StartFresh, n \in 0..MaxUid, c \in Capabilities :
        /\ srv = [validity |-> 1, uids |-> 1..n, next |-> n + 1, caps |-> c]
        /\ rows = [u \in Uids |-> IF ~fresh /\ u <= n THEN 1 ELSE 0]
        /\ catalog = IF fresh THEN NoCatalog ELSE Identity
        /\ gen = NoStage /\ pc = [w \in Workers |-> "idle"]
        BY DEF Init
  <1>2. fresh = FALSE
        BY SyncAssumption DEF KnownNamespace
  <1>3. catalog.validity = 1 /\ \A u \in Uids : rows[u] \in {0, 1}
        BY <1>1, <1>2 DEF Identity
  <1>4. gen.id = NoGen /\ \A w \in Workers : pc[w] = "idle"
        BY <1>1 DEF NoStage
  <1>. QED  BY <1>3, <1>4 DEF Dated

(* Where the namespace of the rows is always known, no row is older than    *)
(* the last commit.                                                         *)
THEOREM DatedHolds ==
    ASSUME Exclusive, KnownNamespace PROVE Spec => []Dated
  <1>1. CASE MaxValidity = 1
    <2>1. TypeOK /\ Sole => Dated
          BY <1>1, OneValidity
    <2>. QED  BY <2>1, SoleHolds, PTL
  <1>2. CASE MaxValidity # 1
    <2>1. Init => Dated
          BY <1>2, InitDated
    <2>2. TypeOK /\ Sole /\ Dated /\ [Next]_vars => Dated'
          BY <1>2, NextDated
    <2>. QED  BY <2>1, <2>2, SoleHolds, PTL DEF Spec
  <1>. QED  BY <1>1, <1>2

(* OneNamespace: what a commit leaves is of one namespace; no header of an  *)
(* earlier one stands under a recycled UID.                                 *)
THEOREM CommitsOneNamespace ==
    ASSUME Exclusive, KnownNamespace PROVE Spec => OneNamespace
  <1>. DEFINE Commit(w) == pc[w] = "finalize" /\ pc'[w] = "idle"
                           /\ gen.id = job[w].id /\ gen'.id = NoGen
              Pure == \A w \in Workers :
                         Commit(w) => \A u \in Uids : rows'[u] \in {0, gen.ident.validity}
  <1>1. TypeOK /\ Sole /\ Dated /\ [Next]_vars => Pure
        BY Commits, CommitNamespace
  <1>2. Spec => [][Pure]_vars
        BY <1>1, SoleHolds, DatedHolds, PTL DEF Spec
  <1>. QED  BY <1>2 DEF OneNamespace

-----------------------------------------------------------------------------
(* The watermark *)

(* A real-time cycle works from the stored watermark, takes for local only  *)
(* what is, and goes on to commit only a watermark already stored.          *)
Marked(w) ==
    /\ pc[w] \notin {"delta", "apply", "store"}
    /\ pc[w] \in {"begin", "stage", "fetch", "save"} => job[w].highest = sync.highest
    /\ pc[w] \in {"fetch", "save"} => \A u \in job[w].local : rows[u] # 0 \/ u \in tombs
    /\ pc[w] \in {"save", "record"} /\ job[w].fatal => job[w].bad # {}
    /\ pc[w] = "record" /\ job[w].bad = {} => Watermark(w) <= sync.highest
    /\ pc[w] \in {"verify", "finalize"} => Watermark(w) <= sync.highest
AllMarked ==
    /\ sync.known = FALSE => sync.highest = NoMark
    /\ \A w \in Watchers : Running(w) /\ job[w].replace = FALSE => Marked(w)

(* Only the sync that takes the step has to keep its marks. *)
LEMMA MarksStay ==
    ASSUME TypeOK, Sole, AllMarked, NEW w \in Workers, NEW step \in Steps, Go(w, step),
           Running(w), sync'.known = FALSE => sync'.highest = NoMark,
           w \in Watchers /\ step # "idle" /\ job'[w].replace = FALSE => Marked(w)'
    PROVE  AllMarked'
  <1>1. \A x \in Workers : pc'[x] = IF x = w THEN step ELSE "idle"
        BY DEF Sole, Alone, Running, Go, TypeOK
  <1>. QED  BY <1>1 DEF AllMarked, Running, Workers

(* A sync that ends has no marks to keep. *)
LEMMA MarksEnd ==
    ASSUME TypeOK, Sole, AllMarked, NEW w \in Workers, Running(w), Finish(w), UNCHANGED sync
    PROVE  AllMarked'
  BY MarksStay DEF Finish, Steps, AllMarked

(* A sync that starts has not claimed anything yet. *)
LEMMA MarksStart ==
    ASSUME TypeOK, Sole, AllMarked, Exclusive,
           (\E w \in Watchers : StartWatcher(w))
           \/ \E w \in Rebuilders, reset \in BOOLEAN : StartRebuilder(w, reset)
    PROVE  AllMarked'
  <1>1. pc \in [Workers -> Steps] /\ Watchers \cap Rebuilders = {}
        BY SyncAssumption DEF TypeOK
  <1>2. ASSUME NEW w \in Watchers, StartWatcher(w) PROVE AllMarked'
    <2>1. \A x \in Workers : pc'[x] = IF x = w THEN "prepare" ELSE "idle"
          BY <1>1, <1>2 DEF StartWatcher, CanStart, Go
    <2>2. sync' = sync
          BY <1>2 DEF StartWatcher, store
    <2>. QED  BY <2>1, <2>2 DEF AllMarked, Marked, Running, Workers
  <1>3. ASSUME NEW w \in Rebuilders, NEW reset \in BOOLEAN, StartRebuilder(w, reset)
        PROVE  AllMarked'
    <2>1. \A x \in Workers : x # w => pc'[x] = "idle"
          BY <1>1, <1>3 DEF StartRebuilder, CanStart, Go
    <2>2. sync' = sync /\ w \notin Watchers
          BY <1>1, <1>3 DEF StartRebuilder, store
    <2>. QED  BY <2>1, <2>2 DEF AllMarked, Running, Workers
  <1>. QED  BY <1>2, <1>3

(* A cycle reads the watermark after the comparison of namespaces has       *)
(* stored it.                                                               *)
LEMMA MarksPrepare ==
    ASSUME TypeOK, Sole, AllMarked, NEW w \in Workers, Prepare(w) PROVE AllMarked'
  <1>1. job \in [Workers -> Jobs] /\ Running(w) /\ Go(w, "begin") /\ pc'[w] = "begin"
        BY DEF TypeOK, Prepare, Running, Go
  <1>2. sync'.highest = sync.highest /\ sync'.known = sync.known
        BY DEF Prepare, TypeOK
  <1>3. job'[w].replace = FALSE => job'[w].highest = sync.highest
        BY <1>1 DEF Prepare, Jobs
  <1>4. job'[w].replace = FALSE => Marked(w)'
        BY <1>1, <1>2, <1>3 DEF Marked
  <1>. QED  BY <1>1, <1>2, <1>4, MarksStay DEF Steps, AllMarked

(* Staging leaves the watermark alone. *)
LEMMA MarksStage ==
    ASSUME TypeOK, Sole, AllMarked, NEW w \in Workers,
           Begin(w) \/ StagePage(w) \/ DeltaVerify(w)
    PROVE  AllMarked'
  <1>1. /\ job \in [Workers -> Jobs] /\ pc \in [Workers -> Steps] /\ Running(w)
        /\ UNCHANGED sync
        BY DEF TypeOK, Begin, StagePage, DeltaVerify, Running, store
  <1>2. CASE Finish(w)
        BY <1>1, <1>2, MarksEnd
  <1>3. CASE ~Finish(w)
    <2>1. PICK step \in {"apply", "begin", "stage"} :
            /\ Go(w, step) /\ pc'[w] = step
            /\ step \in {"apply", "begin"} => pc[w] = "delta"
            /\ step = "stage" => pc[w] \in {"begin", "stage"}
      <3>1. CASE StagePage(w)
            BY <1>1, <1>3, <3>1 DEF StagePage, Go
      <3>2. CASE Begin(w) \/ DeltaVerify(w)
            BY <1>1, <3>2 DEF Begin, DeltaVerify, Go
      <3>. QED  BY <3>1, <3>2
    <2>2. job'[w].highest = job[w].highest /\ job'[w].replace = job[w].replace
      <3>1. CASE StagePage(w)
        <4>1. job' = [job EXCEPT ![w].left = @ \ Highest(@, PageSize)]
              BY <1>3, <3>1 DEF StagePage
        <4>. QED  BY <1>1, <4>1 DEF Jobs
      <3>2. CASE Begin(w)
            BY ZenonT(60), <1>1, <3>2 DEF Begin, Jobs
      <3>3. CASE DeltaVerify(w)
        <4>1. \/ job' = job
              \/ job' = [job EXCEPT ![w].ident = Identity, ![w].view = srv.uids]
              BY <3>3 DEF DeltaVerify
        <4>. QED  BY <1>1, <4>1 DEF Jobs
      <3>. QED  BY <3>1, <3>2, <3>3
    <2>3. w \in Watchers /\ job'[w].replace = FALSE => Marked(w)'
          BY <1>1, <2>1, <2>2 DEF AllMarked, Marked
    <2>. QED  BY <1>1, <2>1, <2>3, MarksStay DEF Steps, AllMarked
  <1>. QED  BY <1>2, <1>3

(* A plan takes for local what has a row or a tombstone. *)
LEMMA MarksPlan ==
    ASSUME TypeOK, Sole, AllMarked, NEW w \in Workers, Plan(w) PROVE AllMarked'
  <1>1. /\ job \in [Workers -> Jobs] /\ pc \in [Workers -> Steps] /\ Running(w)
        /\ UNCHANGED <<sync, rows, tombs>> /\ pc[w] = "stage"
        BY DEF TypeOK, Plan, Running, store
  <1>2. CASE Finish(w)
        BY <1>1, <1>2, MarksEnd
  <1>3. CASE ~Finish(w)
    <2>1. Go(w, "fetch") /\ pc'[w] = "fetch"
          BY <1>1, <1>3, Plans DEF Go
    <2>2. PICK retried \in SUBSET (failures \cap gen.items), inc \in SUBSET gen.items,
               local \in {{}, Local} :
            /\ ~(w \in Rebuilders /\ job[w].replace) => local = Local
            /\ job' = [job EXCEPT ![w] = [job[w] EXCEPT
                 !.view = gen.items, !.local = local, !.fails = retried, !.inc = inc,
                 !.todo = IF job[w].replace THEN Unstaged ELSE inc \cup retried]]
          BY <1>3, Plans
    <2>3. /\ job'[w].highest = job[w].highest /\ job'[w].replace = job[w].replace
          /\ job'[w].local = local
          BY <1>1, <2>2 DEF Jobs
    <2>4. \A u \in local : rows[u] # 0
          BY <2>2 DEF Local
    <2>5. w \in Watchers /\ job'[w].replace = FALSE => Marked(w)'
          BY <1>1, <2>1, <2>3, <2>4 DEF AllMarked, Marked
    <2>. QED  BY <1>1, <2>1, <2>5, MarksStay DEF Steps, AllMarked
  <1>. QED  BY <1>2, <1>3

(* A fetch keeps the plan, and names a UID it left behind when it breaks    *)
(* off.                                                                     *)
LEMMA MarksFetch ==
    ASSUME TypeOK, Sole, AllMarked, NEW w \in Workers, Fetch(w) \/ FetchFatal(w) PROVE AllMarked'
  <1>1. /\ pc \in [Workers -> Steps] /\ Running(w) /\ Sound(w)
        /\ UNCHANGED <<sync, rows, tombs>> /\ pc[w] = "fetch"
        BY DEF TypeOK, Fetch, FetchFatal, Running, store, Sole
  <1>2. PICK step \in {"save", "store"} : /\ Go(w, step) /\ pc'[w] = step
                                          /\ Incrementing(w) => step = "save"
        BY <1>1 DEF Fetch, FetchFatal, Go
  <1>3. KeepsPlan(w) /\ (job'[w].fatal = TRUE => job'[w].bad # {})
    <2>1. CASE Fetch(w)
      <3>1. KeepsPlan(w) /\ job'[w].fatal = job[w].fatal
            BY <2>1, FetchDoes
      <3>2. job[w].fatal = FALSE
            BY <1>1 DEF Sound, Quiet, Early
      <3>. QED  BY <3>1, <3>2
    <2>2. CASE FetchFatal(w)
          BY <2>2, FetchFatalDoes
    <2>. QED  BY <2>1, <2>2
  <1>4. w \in Watchers /\ job'[w].replace = FALSE => Marked(w)'
        BY <1>1, <1>2, <1>3 DEF AllMarked, Marked, KeepsPlan, Incrementing
  <1>. QED  BY <1>1, <1>2, <1>4, MarksStay DEF Steps, AllMarked

(* What was seen as local is still stored, or was moved away. *)
LEMMA LocalStays ==
    ASSUME TypeOK, NEW w \in Workers, \A u \in job[w].local : rows[u] # 0 \/ u \in tombs,
           \A u \in Uids : rows[u] # 0 => rows'[u] # 0 \/ u \in tombs',
           tombs \subseteq tombs'
    PROVE  \A u \in job[w].local : rows'[u] # 0 \/ u \in tombs'
  BY DEF TypeOK, Jobs

(* The watermark a cycle may claim depends on its own locals alone. *)
LEMMA WatermarkStays ==
    ASSUME TypeOK, NEW w \in Workers, NEW F \in SUBSET Uids,
           job' = [job EXCEPT ![w].fresh = F]
    PROVE  /\ Watermark(w)' = Watermark(w)
           /\ job'[w].replace = job[w].replace /\ job'[w].bad = job[w].bad
           /\ job'[w].fatal = job[w].fatal
  <1>1. job \in [Workers -> Jobs] /\ job[w] \in Jobs
        BY DEF TypeOK
  <1>2. /\ job'[w].replace = job[w].replace /\ job'[w].bad = job[w].bad
        /\ job'[w].fatal = job[w].fatal /\ job'[w].fails = job[w].fails
        /\ job'[w].ok = job[w].ok /\ job'[w].local = job[w].local
        /\ job'[w].view = job[w].view /\ job'[w].highest = job[w].highest
        /\ job'[w].inc = job[w].inc
        BY <1>1 DEF Jobs
  <1>. QED  BY <1>2 DEF Watermark

(* A cycle that has lost nothing stores the watermark it will commit. *)
LEMMA MarksSave ==
    ASSUME TypeOK, Sole, AllMarked, NEW w \in Workers, Save(w) PROVE AllMarked'
  <1>1. /\ job \in [Workers -> Jobs] /\ pc \in [Workers -> Steps] /\ Running(w)
        /\ pc[w] = "save" /\ Go(w, "record") /\ pc'[w] = "record"
        BY DEF TypeOK, Save, Running, Go
  <1>. DEFINE mark == Watermark(w)
              old  == IF sync.highest < 0 THEN 0 ELSE sync.highest
  <1>2. /\ sync.highest \in Int /\ mark \in Int
        BY WatermarkType DEF TypeOK, Marks, NoMark
  <1>3. /\ sync'.known = FALSE => sync'.highest = NoMark
        /\ job[w].fatal = FALSE \/ job[w].ok # {} => mark <= sync'.highest
    <2>. HIDE DEF mark
    <2>1. CASE job[w].fatal /\ job[w].ok = {}
          BY <2>1 DEF Save, AllMarked
    <2>2. CASE ~(job[w].fatal /\ job[w].ok = {}) /\ sync.known
      <3>1. sync' = [sync EXCEPT !.highest = IF mark > old THEN mark ELSE old]
            BY <2>2 DEF Save, mark
      <3>2. sync'.highest = IF mark > old THEN mark ELSE old
            BY <3>1 DEF TypeOK
      <3>3. sync'.known = TRUE
            BY <2>2, <3>1 DEF TypeOK
      <3>. QED  BY <1>2, <3>2, <3>3
    <2>3. CASE ~(job[w].fatal /\ job[w].ok = {}) /\ ~sync.known
      <3>1. sync' = [NoSync EXCEPT !.known = TRUE, !.highest = mark]
            BY <2>3 DEF Save, mark
      <3>2. sync'.highest = mark /\ sync'.known = TRUE
            BY <3>1 DEF NoSync
      <3>. QED  BY <1>2, <3>2
    <2>. QED  BY <2>1, <2>2, <2>3
  <1>4. job' = job \/ \E F \in SUBSET Uids : job' = [job EXCEPT ![w].fresh = F]
        BY <1>1 DEF Save, NewMail, Jobs
  <1>5. /\ Watermark(w)' = mark
        /\ job'[w].replace = job[w].replace /\ job'[w].bad = job[w].bad
        /\ job'[w].fatal = job[w].fatal
    <2>1. CASE job' = job
          BY <2>1 DEF Watermark
    <2>2. CASE job' # job
          BY <1>4, <2>2, WatermarkStays
    <2>. QED  BY <2>1, <2>2
  <1>6. w \in Watchers /\ job[w].replace = FALSE => (job[w].fatal => job[w].bad # {})
        BY <1>1 DEF AllMarked, Marked
  <1>. HIDE DEF mark
  <1>7. w \in Watchers /\ job'[w].replace = FALSE => Marked(w)'
    <2>1. job[w].fatal \in BOOLEAN
          BY <1>1 DEF Jobs
    <2>. QED  BY <1>1, <1>3, <1>5, <1>6, <2>1 DEF Marked
  <1>. QED  BY <1>1, <1>3, <1>7, MarksStay DEF Steps

(* A cycle goes on to its commit with the watermark already stored. *)
LEMMA MarksVerify ==
    ASSUME TypeOK, Sole, AllMarked, NEW w \in Workers, Record(w) \/ Verify(w)
    PROVE  AllMarked'
  <1>1. /\ pc \in [Workers -> Steps] /\ Running(w) /\ pc[w] \in {"record", "verify"}
        /\ sync' = sync
        BY DEF TypeOK, Record, Verify, Running
  <1>2. CASE Finish(w)
        BY <1>1, <1>2, MarksEnd
  <1>3. CASE ~Finish(w)
    <2>1. PICK step \in {"verify", "discard", "finalize"} :
            /\ Go(w, step) /\ pc'[w] = step /\ job' = job
            /\ step = "verify" => pc[w] = "record" /\ job[w].bad = {}
            /\ step = "finalize" => pc[w] = "verify"
          BY <1>1, <1>3 DEF Record, Verify, Go
    <2>2. Watermark(w)' = Watermark(w)
          BY <2>1 DEF Watermark
    <2>3. w \in Watchers /\ job'[w].replace = FALSE => Marked(w)'
          BY <1>1, <2>1, <2>2 DEF AllMarked, Marked
    <2>. QED  BY <1>1, <2>1, <2>3, MarksStay DEF Steps, AllMarked
  <1>. QED  BY <1>2, <1>3

(* A batch is stored by a full sync or for a replacement, which claims no   *)
(* watermark of its own.                                                    *)
LEMMA MarksStore ==
    ASSUME TypeOK, Sole, AllMarked, NEW w \in Workers, Store(w) \/ FetchDone(w)
    PROVE  AllMarked'
  <1>1. /\ pc \in [Workers -> Steps] /\ Running(w) /\ sync' = sync
        BY DEF TypeOK, Store, FetchDone, Running, store
  <1>2. CASE Finish(w)
        BY <1>1, <1>2, MarksEnd
  <1>3. CASE ~Finish(w)
    <2>1. PICK step \in {"fetch", "discard", "verify"} : Go(w, step)
          BY <1>3 DEF Store, FetchDone
    <2>2. job'[w].replace = job[w].replace
      <3>1. CASE Store(w)
            BY <1>3, <3>1, StoreGoesOn
      <3>2. CASE FetchDone(w)
            BY <1>3, <3>2 DEF FetchDone
      <3>. QED  BY <3>1, <3>2
    <2>3. ~(w \in Watchers /\ job[w].replace = FALSE)
          BY <1>1 DEF Store, FetchDone, Incrementing, AllMarked, Marked
    <2>. QED  BY <1>1, <2>1, <2>2, <2>3, MarksStay DEF Steps, AllMarked
  <1>. QED  BY <1>2, <1>3

(* The last step of a sync leaves no marks to keep. *)
LEMMA MarksFinish ==
    ASSUME TypeOK, Sole, AllMarked, NEW w \in Workers,
           \/ Finalize(w) \/ Discard(w) \/ FinalizeRefused(w) \/ Abort(w) \/ DeltaApply(w)
    PROVE  AllMarked'
  <1>1. Running(w) /\ Finish(w)
        BY DEF Finalize, Discard, FinalizeRefused, Abort, DeltaApply, Running
  <1>2. sync' = sync \/ sync'.known = TRUE
        BY DEF Finalize, Discard, FinalizeRefused, Abort, DeltaApply, store
  <1>. QED  BY <1>1, <1>2, MarksStay DEF Finish, Steps, AllMarked

(* A move replaces a row by a tombstone, and nobody else touches the        *)
(* watermark.                                                               *)
LEMMA MarksEnvironment ==
    ASSUME TypeOK, Sole, AllMarked,
           \/ MoveLocally \/ Deliver \/ ResetValidity \/ UNCHANGED vars
           \/ \E u \in Uids : MoveOnServer(u) \/ ExpungeElsewhere(u)
    PROVE  AllMarked'
  <1>1. /\ UNCHANGED <<sync, pc, job>>
        /\ \/ UNCHANGED <<rows, tombs>>
           \/ /\ rows' = [rows EXCEPT ![user.uid] = 0]
              /\ tombs' = tombs \cup {user.uid}
        BY DEF MoveLocally, Deliver, ResetValidity, MoveOnServer, ExpungeElsewhere, store, vars
  <1>2. /\ tombs \subseteq tombs'
        /\ \A u \in Uids : rows[u] # 0 => rows'[u] # 0 \/ u \in tombs'
        BY <1>1 DEF TypeOK
  <1>3. \A w \in Workers : Watermark(w)' = Watermark(w)
        BY <1>1 DEF Watermark
  <1>4. ASSUME NEW w \in Watchers, Running(w), job[w].replace = FALSE PROVE Marked(w)'
    <2>1. Marked(w) /\ w \in Workers
          BY <1>4 DEF AllMarked, Workers
    <2>2. pc[w] \in {"fetch", "save"} => \A u \in job[w].local : rows'[u] # 0 \/ u \in tombs'
          BY <1>2, <2>1, LocalStays DEF Marked
    <2>. QED  BY <1>1, <1>3, <2>1, <2>2 DEF Marked
  <1>. QED  BY <1>1, <1>4 DEF AllMarked, Running

(* Every step keeps AllMarked. *)
LEMMA NextMarked ==
    ASSUME Exclusive, TypeOK, Sole, AllMarked, [Next]_vars PROVE AllMarked'
  <1>1. ASSUME NEW w \in Workers, Progress(w) \/ FetchFatal(w) \/ Abort(w)
        PROVE  AllMarked'
        BY <1>1, MarksPrepare, MarksStage, MarksPlan, MarksFetch, MarksSave, MarksVerify,
           MarksStore, MarksFinish DEF Progress
  <1>2. CASE \/ MoveLocally \/ Deliver \/ ResetValidity \/ UNCHANGED vars
             \/ \E u \in Uids : MoveOnServer(u) \/ ExpungeElsewhere(u)
        BY <1>2, MarksEnvironment
  <1>3. CASE \/ \E w \in Watchers : StartWatcher(w)
             \/ \E w \in Rebuilders, reset \in BOOLEAN : StartRebuilder(w, reset)
        BY <1>3, MarksStart
  <1>. QED  BY <1>1, <1>2, <1>3 DEF Next

(* The run a cycle may claim: every message it has seen above the old       *)
(* watermark and up to the new one is local or was answered.                *)
LEMMA WatermarkRun ==
    ASSUME TypeOK, NEW w \in Workers, job[w].replace = FALSE, job[w].highest # NoMark,
           Watermark(w) # job[w].highest
    PROVE  /\ Watermark(w) \in job[w].view
           /\ \A x \in job[w].view : job[w].highest < x /\ x <= Watermark(w) =>
                 x \in job[w].local \cup job[w].ok
  <1>. DEFINE j          == job[w]
              unresolved == (j.fails \cup j.bad) \ j.ok
              stored(u)  == u \notin unresolved /\ u \in j.local \cup j.ok
              run        == {u \in j.view : u > j.highest /\
                               \A x \in j.view : j.highest < x /\ x <= u => stored(x)}
  <1>1. Watermark(w) = IF run = {} THEN j.highest ELSE Top(run)
        BY DEF Watermark
  <1>2. run # {} /\ Watermark(w) = Top(run)
        BY <1>1
  <1>3. run \in SUBSET Uids
        BY DEF TypeOK, Jobs
  <1>4. Top(run) \in run
    <2>. HIDE DEF run
    <2>. QED  BY <1>2, <1>3, TopIsGreatest, Naturals
  <1>. QED  BY <1>2, <1>4

(* A replacement, or a full sync, marks the end of what it has seen.        *)
LEMMA WatermarkEnd ==
    ASSUME TypeOK, Sole, NEW w \in Workers, Finalize(w),
           job[w].replace = TRUE \/ w \notin Watchers
    PROVE  sync'.highest = Top(job[w].view)
  <1>1. gen.items = job[w].view
        BY DEF Finalize, Sole, Running, Sound, Staged, Planned, Begun
  <1>2. w \in Watchers => Watermark(w) = Top(job[w].view)
        BY DEF Watermark
  <1>3. sync'.highest = IF w \in Watchers THEN Watermark(w) ELSE Top(gen.items)
        BY DEF Finalize
  <1>. QED  BY <1>1, <1>2, <1>3

(* A message a sync does not see is newer than all it sees. *)
LEMMA SeenBelow ==
    ASSUME TypeOK, NEW w \in Workers, Selected(w), InSession(w), job[w] \in Jobs,
           NEW u \in srv.uids, NEW top \in job[w].view, u <= top
    PROVE  u \in job[w].view
  <1>1. job[w].view \subseteq Nat /\ u \in Nat
        BY Naturals DEF Jobs
  <1>. QED  BY <1>1 DEF Selected, Unseen

(* A cycle's watermark: nothing it passes is left behind. *)
LEMMA SavePasses ==
    ASSUME TypeOK, Sole, Dated, AllMarked, NEW w \in Workers, Save(w),
           sync.highest # NoMark, sync'.highest > sync.highest,
           sync'.validity = srv.validity,
           NEW u \in srv.uids, sync.highest < u, u <= sync'.highest
    PROVE  rows'[u] # 0 \/ u \in tombs'
  <1>1. /\ Sound(w) /\ pc[w] = "save" /\ job[w] \in Jobs /\ u \in Uids
        /\ w \in Watchers /\ job[w].replace = FALSE /\ tombs' = tombs
        /\ sync.highest \in Nat /\ sync.known = TRUE
    <2>1. Sound(w) /\ pc[w] = "save" /\ job[w] \in Jobs /\ u \in Uids /\ tombs' = tombs
          BY DEF TypeOK, Save, Sole, Running
    <2>2. w \in Watchers /\ job[w].replace = FALSE
          BY <2>1 DEF Sound, Answered, Incrementing, Jobs
    <2>3. sync.highest \in Nat /\ sync.known = TRUE
          BY DEF TypeOK, Marks, AllMarked
    <2>. QED  BY <2>1, <2>2, <2>3
  <1>2. /\ job[w].highest = sync.highest
        /\ \A x \in job[w].local : rows[x] # 0 \/ x \in tombs
        BY <1>1 DEF AllMarked, Running, Marked
  <1>3. /\ rows' = Persist(w)
        /\ sync' = [sync EXCEPT !.highest =
                      IF Watermark(w) > sync.highest THEN Watermark(w) ELSE sync.highest]
    <2>1. sync' # sync /\ ~(sync.highest < 0)
          BY <1>1
    <2>. QED  BY <1>1, <2>1 DEF Save
  <1>4. sync'.highest = Watermark(w) /\ sync'.validity = sync.validity
    <2>1. sync'.highest = IF Watermark(w) > sync.highest
                          THEN Watermark(w) ELSE sync.highest
          BY <1>3 DEF TypeOK
    <2>2. sync'.validity = sync.validity
          BY <1>3 DEF TypeOK
    <2>. QED  BY <1>1, <2>1, <2>2
  <1>5. InSession(w) /\ Selected(w)
    <2>1. Named(w)
          BY <1>1 DEF Dated
    <2>2. sync.validity # 0 /\ sync.validity = srv.validity
          BY <1>4, Naturals
    <2>. QED  BY <1>1, <2>1, <2>2 DEF Named, InSession, Sound
  <1>6. /\ Watermark(w) \in job[w].view
        /\ \A x \in job[w].view : job[w].highest < x /\ x <= Watermark(w) =>
              x \in job[w].local \cup job[w].ok
    <2>1. Watermark(w) # job[w].highest
          BY <1>1, <1>2, <1>4
    <2>2. job[w].replace = FALSE /\ job[w].highest # NoMark
          BY <1>1, <1>2
    <2>. QED  BY <2>1, <2>2, WatermarkRun
  <1>7. u \in job[w].view
        BY <1>1, <1>4, <1>5, <1>6, SeenBelow
  <1>8. u \in job[w].local \cup job[w].ok
        BY <1>2, <1>4, <1>6, <1>7
  <1>. QED  BY <1>1, <1>2, <1>3, <1>8, PersistKeeps

(* A commit's watermark: what lies below the end of the inventory was in it.*)
LEMMA CommitPasses ==
    ASSUME TypeOK, Sole, Dated, AllMarked, NEW w \in Workers, Finalize(w),
           sync.highest # NoMark, sync'.highest > sync.highest,
           sync'.validity = srv.validity,
           NEW u \in srv.uids, sync.highest < u, u <= sync'.highest
    PROVE  rows'[u] # 0 \/ u \in tombs'
  <1>1. /\ Sound(w) /\ pc[w] = "finalize" /\ job[w] \in Jobs /\ u \in Uids /\ Active(w)
        BY DEF TypeOK, Finalize, Sole, Running
  <1>2. gen.items = job[w].view /\ gen.ident = job[w].ident
        BY <1>1 DEF Sound, Staged, Planned, Begun
  <1>3. sync'.validity = job[w].ident.validity
        BY <1>2 DEF Finalize
  <1>4. InSession(w) /\ Selected(w)
        BY <1>1, <1>3 DEF InSession, Sound
  <1>5. job[w].replace = TRUE \/ w \notin Watchers
    <2>1. ASSUME w \in Watchers, job[w].replace = FALSE PROVE FALSE
      <3>1. Watermark(w) <= sync.highest /\ Watermark(w) \in Int /\ sync.highest \in Int
            BY <1>1, <2>1, WatermarkType DEF AllMarked, Running, Marked, TypeOK, Marks, NoMark
      <3>2. sync'.highest = Watermark(w)
            BY <2>1 DEF Finalize
      <3>. QED  BY <3>1, <3>2
    <2>. QED  BY <1>1, <2>1 DEF Jobs
  <1>6. u \in job[w].view
    <2>1. sync'.highest = Top(job[w].view) /\ job[w].view \in SUBSET Uids
          BY <1>1, <1>5, WatermarkEnd DEF Jobs
    <2>2. job[w].view # {}
      <3>1. Top({}) = NoMark
            BY DEF Top
      <3>2. sync.highest \in Nat
            BY DEF TypeOK, Marks
      <3>. QED  BY <2>1, <3>1, <3>2 DEF NoMark
    <2>3. Top(job[w].view) \in job[w].view
          BY <2>1, <2>2, TopIsGreatest, Naturals
    <2>. QED  BY <1>1, <1>4, <2>1, <2>3, SeenBelow
  <1>7. rows'[u] = IF job[w].replace THEN gen.msgs[u] ELSE rows[u]
        BY <1>1, <1>2, <1>6 DEF Finalize
  <1>8. CASE job[w].replace
        BY <1>2, <1>6, <1>7, <1>8 DEF Finalize, Unstaged
  <1>9. CASE job[w].replace = FALSE
    <2>1. rows[u] # 0 \/ u \in tombs
          BY <1>1, <1>5, <1>6, <1>9 DEF Sound, Full, Covered, Workers
    <2>2. Named(w)
          BY <1>1, <1>9 DEF Dated
    <2>3. tombs' = tombs
          BY <1>2, <1>9, <2>2 DEF Finalize, Named
    <2>. QED  BY <1>7, <1>9, <2>1, <2>3
  <1>. QED  BY <1>1, <1>8, <1>9 DEF Jobs

(* The steps that move the watermark. *)
LEMMA MarkingSteps ==
    ASSUME [Next]_vars, sync'.highest # sync.highest
    PROVE  \E w \in Workers : Prepare(w) \/ Save(w) \/ Finalize(w)
  <1>1. sync' # sync
        OBVIOUS
  <1>2. ~(UNCHANGED vars \/ MoveLocally \/ Deliver \/ ResetValidity)
        BY <1>1 DEF vars, MoveLocally, Deliver, ResetValidity, store
  <1>3. ~(\E u \in Uids : MoveOnServer(u) \/ ExpungeElsewhere(u))
        BY <1>1 DEF MoveOnServer, ExpungeElsewhere, store
  <1>4. ~(\E w \in Watchers : StartWatcher(w))
        BY <1>1 DEF StartWatcher, store
  <1>5. ~(\E w \in Rebuilders, reset \in BOOLEAN : StartRebuilder(w, reset))
        BY <1>1 DEF StartRebuilder, store
  <1>6. ASSUME NEW w \in Workers, Progress(w) \/ FetchFatal(w) \/ Abort(w)
        PROVE  Prepare(w) \/ Save(w) \/ Finalize(w)
    <2>1. ~(DeltaVerify(w) \/ DeltaApply(w) \/ Begin(w) \/ StagePage(w) \/ Plan(w)
            \/ Fetch(w) \/ FetchFatal(w) \/ Record(w))
          BY <1>1 DEF DeltaVerify, DeltaApply, Begin, StagePage, Plan, Fetch, FetchFatal,
                      Record, store
    <2>2. ~(Store(w) \/ FetchDone(w) \/ Discard(w) \/ Verify(w) \/ FinalizeRefused(w)
            \/ Abort(w))
          BY <1>1 DEF Store, FetchDone, Discard, Verify, FinalizeRefused, Abort, store
    <2>. QED  BY <1>6, <2>1, <2>2 DEF Progress
  <1>. QED  BY <1>2, <1>3, <1>4, <1>5, <1>6 DEF Next

(* What the watermark moves past is stored, queued, deleted or being moved. *)
LEMMA NextPasses ==
    ASSUME TypeOK, Sole, Dated, AllMarked, [Next]_vars,
           sync.highest # NoMark, sync'.highest > sync.highest,
           sync'.validity = srv.validity,
           NEW u \in srv.uids, sync.highest < u, u <= sync'.highest
    PROVE  rows'[u] # 0 \/ u \in failures' \cup tombs' \cup {user.uid}
  <1>1. sync'.highest # sync.highest
    <2>1. sync.highest \in Int
          BY DEF TypeOK, Marks, NoMark
    <2>. QED  BY <2>1
  <1>2. PICK w \in Workers : Prepare(w) \/ Save(w) \/ Finalize(w)
        BY <1>1, MarkingSteps
  <1>3. ~Prepare(w)
        BY <1>1 DEF Prepare, TypeOK
  <1>. QED  BY <1>2, <1>3, SavePasses, CommitPasses

(* A store that knows no mailbox has no watermark. *)
LEMMA InitMarked == Init => AllMarked
  <1>. SUFFICES ASSUME Init PROVE AllMarked
       OBVIOUS
  <1>1. PICK fresh \in StartFresh, n \in 0..MaxUid :
          /\ sync = IF fresh THEN NoSync
                    ELSE [known |-> TRUE, validity |-> 1, highest |-> Top(1..n)]
          /\ pc = [w \in Workers |-> "idle"]
        BY DEF Init
  <1>2. sync.known = FALSE => sync.highest = NoMark
        BY <1>1 DEF NoSync
  <1>. QED  BY <1>1, <1>2 DEF AllMarked, Running, Workers

(* The watermark a real-time cycle may claim is already stored when it      *)
(* verifies the mailbox.                                                    *)
THEOREM MarksHold ==
    ASSUME Exclusive PROVE Spec => []AllMarked
  <1>1. TypeOK /\ Sole /\ AllMarked /\ [Next]_vars => AllMarked'
        BY NextMarked
  <1>. QED  BY <1>1, InitMarked, SoleHolds, PTL DEF Spec

(* WatermarkPassesNothing: the watermark moves past a message only when it  *)
(* is stored, queued for retry, or moved away by the user.                  *)
THEOREM WatermarkPassesOnlyStored ==
    ASSUME Exclusive, KnownNamespace PROVE Spec => WatermarkPassesNothing
  <1>. DEFINE Passes ==
                /\ sync.highest # NoMark /\ sync'.highest > sync.highest
                /\ sync'.validity = srv.validity
                => \A u \in srv.uids : sync.highest < u /\ u <= sync'.highest
                      => rows'[u] # 0 \/ u \in failures' \cup tombs' \cup {user.uid}
  <1>1. TypeOK /\ Sole /\ Dated /\ AllMarked /\ [Next]_vars => Passes
        BY NextPasses
  <1>2. Spec => [][Passes]_vars
        BY <1>1, SoleHolds, DatedHolds, MarksHold, PTL DEF Spec
  <1>. QED  BY <1>2 DEF WatermarkPassesNothing

-----------------------------------------------------------------------------
(* Moves and announcements, in a mailbox that is not recreated *)

(* What the steps of a sync do to the locals that outlive them.             *)
LEMMA StepLocals ==
    ASSUME TypeOK, Sole, NEW w \in Workers, Progress(w) \/ FetchFatal(w) \/ Abort(w),
           ~Finish(w)
    PROVE  /\ \/ job'[w].view = job[w].view /\ job'[w].ident = job[w].ident
              \/ job'[w].view = srv.uids /\ job'[w].ident = Identity
           /\ job'[w].replace = job[w].replace \/ Prepare(w)
           /\ job'[w].fresh = job[w].fresh \/ Save(w)
  <1>1. job \in [Workers -> Jobs] /\ job[w] \in Jobs
        BY DEF TypeOK
  <1>2. CASE Prepare(w)
        BY <1>1, <1>2 DEF Prepare, Jobs
  <1>3. CASE DeltaVerify(w)
    <2>1. \/ job' = job
          \/ job' = [job EXCEPT ![w].ident = Identity, ![w].view = srv.uids]
          BY <1>3 DEF DeltaVerify
    <2>. QED  BY <1>1, <2>1 DEF Jobs
  <1>4. CASE Begin(w)
        BY <1>1, <1>4 DEF Begin, Jobs
  <1>5. CASE StagePage(w)
    <2>1. job' = [job EXCEPT ![w].left = @ \ Highest(@, PageSize)]
          BY <1>5 DEF StagePage
    <2>. QED  BY <1>1, <2>1 DEF Jobs
  <1>6. CASE Plan(w)
    <2>1. PICK retried \in SUBSET (failures \cap gen.items), inc \in SUBSET gen.items,
               local \in {{}, Local} :
            job' = [job EXCEPT ![w] = [job[w] EXCEPT
              !.view = gen.items, !.local = local, !.fails = retried, !.inc = inc,
              !.todo = IF job[w].replace THEN Unstaged ELSE inc \cup retried]]
          BY ZenonT(60), <1>6, Plans
    <2>2. gen.items = job[w].view
      <3>1. InventoryWhole(w) /\ pc[w] = "stage" /\ Sound(w)
            BY <1>6, Plans DEF Plan, Sole, Running
      <3>. QED  BY <3>1, WholeInventory
    <2>. QED  BY <1>1, <2>1, <2>2 DEF Jobs
  <1>7. CASE Fetch(w)
        BY <1>7, FetchDoes DEF KeepsPlan
  <1>8. CASE FetchFatal(w)
        BY <1>8, FetchFatalDoes DEF KeepsPlan
  <1>9. CASE Save(w)
    <2>1. job' = job \/ \E F \in SUBSET Uids : job' = [job EXCEPT ![w].fresh = F]
          BY <1>1, <1>9 DEF Save, NewMail, Jobs
    <2>. QED  BY <1>1, <1>9, <2>1 DEF Jobs
  <1>10. CASE Store(w)
    <2>1. job' = [job EXCEPT ![w].todo = @ \ (job[w].ok \cup job[w].bad),
                    ![w].failed = Failed(w), ![w].ok = {}, ![w].bad = {}, ![w].from = 0]
          BY <1>10 DEF Store
    <2>2. job'[w] = [job[w] EXCEPT !.todo = job[w].todo \ (job[w].ok \cup job[w].bad),
                       !.failed = Failed(w), !.ok = {}, !.bad = {}, !.from = 0]
          BY <1>1, <2>1
    <2>. QED  BY <1>1, <2>2 DEF Jobs
  <1>11. CASE Record(w) \/ FetchDone(w) \/ Verify(w)
        BY <1>11 DEF Record, FetchDone, Verify
  <1>12. ~(DeltaApply(w) \/ Discard(w) \/ Finalize(w) \/ FinalizeRefused(w) \/ Abort(w))
        BY DEF DeltaApply, Discard, Finalize, FinalizeRefused, Abort
  <1>. QED  BY <1>2, <1>3, <1>4, <1>5, <1>6, <1>7, <1>8, <1>9, <1>10, <1>11, <1>12
            DEF Progress

(* A step of a sync ends it or goes on. *)
LEMMA StepGoes ==
    ASSUME NEW w \in Workers, Progress(w) \/ FetchFatal(w) \/ Abort(w),
           pc \in [Workers -> Steps]
    PROVE  /\ Running(w) /\ UNCHANGED <<srv, user, gone>>
           /\ \E step \in Steps : Go(w, step) /\ (step = "idle" <=> Finish(w))
  <1>1. Running(w) /\ UNCHANGED <<srv, user, gone>>
        BY DEF Progress, Prepare, DeltaVerify, DeltaApply, Begin, StagePage, Plan, Fetch,
               FetchFatal, Save, Record, Store, FetchDone, Discard, Verify, Finalize,
               FinalizeRefused, Abort, Running, server
  <1>2. ASSUME NEW step \in Steps \ {"idle"}, Go(w, step) PROVE ~Finish(w)
        BY <1>2 DEF Go, Finish
  <1>3. CASE Prepare(w) \/ DeltaVerify(w) \/ Begin(w) \/ Fetch(w) \/ FetchFatal(w)
             \/ Save(w) \/ Record(w)
    <2>1. \E step \in Steps \ {"idle"} : Go(w, step)
          BY <1>3 DEF Prepare, DeltaVerify, Begin, Fetch, FetchFatal, Save, Record, Steps
    <2>. QED  BY <1>1, <1>2, <2>1
  <1>4. CASE StagePage(w) \/ Plan(w) \/ Store(w) \/ FetchDone(w) \/ Verify(w)
    <2>1. CASE Finish(w)
          BY <1>1, <2>1 DEF Finish, Steps
    <2>2. CASE ~Finish(w)
      <3>1. CASE StagePage(w)
        <4>1. Go(w, "stage") /\ "stage" \in Steps \ {"idle"}
              BY <2>2, <3>1 DEF StagePage, Go, Steps
        <4>. QED  BY <1>1, <1>2, <4>1
      <3>2. CASE Plan(w) \/ Store(w) \/ FetchDone(w) \/ Verify(w)
        <4>1. \E step \in Steps \ {"idle"} : Go(w, step)
              BY <2>2, <3>2 DEF Plan, Store, FetchDone, Verify, Steps
        <4>. QED  BY <1>1, <1>2, <4>1
      <3>. QED  BY <1>4, <3>1, <3>2
    <2>. QED  BY <2>1, <2>2
  <1>5. CASE DeltaApply(w) \/ Discard(w) \/ Finalize(w) \/ FinalizeRefused(w) \/ Abort(w)
        BY <1>1, <1>5 DEF DeltaApply, Discard, Finalize, FinalizeRefused, Abort, Finish, Steps
  <1>. QED  BY <1>3, <1>4, <1>5 DEF Progress

(* What the user has moved has left the mailbox; a sync that still sees it  *)
(* finds its tombstone, and a rebuild, which clears the tombstones, does    *)
(* not see it.                                                              *)
Moved ==
    /\ user.uid # 0 => user.uid \notin srv.uids /\ user.uid < srv.next
    /\ \A u \in tombs \cup gone : u \notin srv.uids /\ u < srv.next
    /\ \A u \in gone : rows[u] = 0
    /\ \A w \in Workers : Running(w) => gone \cap job[w].view \subseteq tombs
    /\ \A w \in Rebuilders : Running(w) => gone \cap job[w].view = {}
    /\ \A w \in Watchers : Running(w) => job[w].replace = FALSE

(* A step that brings no moved message back keeps what is known of the      *)
(* moves.                                                                   *)
LEMMA MovedStays ==
    ASSUME TypeOK, Sole, Moved, NEW w \in Workers, NEW step \in Steps, Go(w, step),
           Running(w), UNCHANGED <<srv, user, gone>>, tombs' \subseteq tombs,
           \A u \in gone : rows'[u] = 0,
           step # "idle" =>
              /\ tombs' = tombs
              /\ job'[w].view \in {job[w].view, srv.uids}
              /\ w \in Watchers => job'[w].replace = FALSE
    PROVE  Moved'
  <1>1. \A x \in Workers : pc'[x] = IF x = w THEN step ELSE "idle"
        BY DEF Sole, Alone, Running, Go, TypeOK
  <1>2. /\ user'.uid # 0 => user'.uid \notin srv'.uids /\ user'.uid < srv'.next
        /\ \A u \in tombs' \cup gone' : u \notin srv'.uids /\ u < srv'.next
        /\ \A u \in gone' : rows'[u] = 0
        BY DEF Moved
  <1>3. step # "idle" => /\ gone \cap job'[w].view \subseteq tombs
                         /\ w \in Rebuilders => gone \cap job'[w].view = {}
        BY DEF Moved
  <1>. QED  BY <1>1, <1>2, <1>3 DEF Moved, Running, Workers

(* A sync starts after every move has left the mailbox. *)
LEMMA MovedStarts ==
    ASSUME TypeOK, Sole, Moved, Exclusive,
           (\E w \in Watchers : StartWatcher(w))
           \/ \E w \in Rebuilders, reset \in BOOLEAN : StartRebuilder(w, reset)
    PROVE  Moved'
  <1>1. PICK w \in Workers, reset \in BOOLEAN, changed \in BOOLEAN,
             step \in {"prepare", "delta", "begin"} :
           /\ job' = [job EXCEPT ![w] = SelectedJob(reset, changed, NoMark)]
           /\ Go(w, step) /\ CanStart(w)
           /\ UNCHANGED <<srv, rows, tombs, user, gone>>
           /\ w \in Watchers => reset = FALSE /\ changed = FALSE
    <2>1. ASSUME NEW w \in Watchers, StartWatcher(w)
          PROVE  /\ job' = [job EXCEPT ![w] = SelectedJob(FALSE, FALSE, NoMark)]
                 /\ Go(w, "prepare") /\ CanStart(w)
                 /\ UNCHANGED <<srv, rows, tombs, user, gone>>
          BY <2>1 DEF StartWatcher, server, store
    <2>2. ASSUME NEW w \in Rebuilders, NEW reset \in BOOLEAN, StartRebuilder(w, reset)
          PROVE  \E changed \in BOOLEAN, step \in {"delta", "begin"} :
                   /\ job' = [job EXCEPT ![w] = SelectedJob(reset, changed, NoMark)]
                   /\ Go(w, step) /\ CanStart(w)
                   /\ UNCHANGED <<srv, rows, tombs, user, gone>>
          BY <2>2, Zenon DEF StartRebuilder, server, store
    <2>3. Watchers \cap Rebuilders = {}
          BY SyncAssumption
    <2>. QED  BY <2>1, <2>2, <2>3 DEF Workers
  <1>2. \A x \in Workers : pc'[x] = IF x = w THEN step ELSE "idle"
        BY <1>1 DEF CanStart, Go, TypeOK
  <1>3. job'[w] = SelectedJob(reset, changed, NoMark)
        BY <1>1 DEF TypeOK
  <1>4. job'[w].view = srv.uids /\ (w \in Watchers => job'[w].replace = FALSE)
    <2>1. job'[w].view = srv.uids /\ job'[w].replace = (reset \/ changed)
          BY <1>3 DEF SelectedJob, NoJob
    <2>. QED  BY <1>1, <2>1
  <1>. QED  BY <1>1, <1>2, <1>4 DEF Moved, Running, Workers

(* With one UIDVALIDITY a cycle never takes the namespace for a new one. *)
LEMMA NeverChanged ==
    ASSUME TypeOK, Sole, MaxValidity = 1, NEW w \in Workers, Prepare(w)
    PROVE  job'[w].replace = FALSE
  <1>1. /\ catalog.validity \in 0..1 /\ sync.validity \in 0..1
        /\ job \in [Workers -> Jobs] /\ srv.validity = 1
        BY DEF TypeOK, Identities, Validities
  <1>2. job[w].ident.validity = 1
        BY <1>1 DEF Sole, Sound, Selected, Prepare, Running
  <1>3. NamespaceChanged(w) = FALSE
        BY <1>1, <1>2 DEF NamespaceChanged
  <1>. QED  BY <1>1, <1>3 DEF Prepare, Jobs

(* No step of a sync brings back the row of a message moved away. *)
LEMMA GoneStays ==
    ASSUME TypeOK, Sole, Moved, NEW w \in Workers,
           Progress(w) \/ FetchFatal(w) \/ Abort(w), NEW u \in gone
    PROVE  rows'[u] = 0
  <1>1. /\ Running(w) /\ Sound(w) /\ u \in Uids /\ rows[u] = 0
        /\ u \in job[w].view => u \in tombs /\ w \notin Rebuilders
        BY StepGoes DEF Sole, Moved, TypeOK
  <1>2. CASE Save(w) \/ Store(w)
    <2>1. rows' \in {rows, Persist(w)}
          BY <1>2 DEF Save, Store
    <2>2. job[w].ok \subseteq job[w].view
          BY <1>1, <1>2 DEF Save, Store, Sound, Asked, Planned
    <2>3. Persist(w)[u] = rows[u]
          BY <1>1, <2>2 DEF Persist
    <2>. QED  BY <1>1, <2>1, <2>3
  <1>3. CASE Finalize(w)
    <2>1. gen.items = job[w].view
          BY <1>1, <1>3 DEF Finalize, Sound, Staged, Planned, Begun
    <2>2. u \in job[w].view => job[w].replace = FALSE
          BY <1>1 DEF Moved, Workers
    <2>. QED  BY <1>1, <1>3, <2>1, <2>2 DEF Finalize
  <1>. QED  BY <1>1, <1>2, <1>3, QuietSteps

(* The steps of a sync keep Moved. *)
LEMMA MovedSteps ==
    ASSUME TypeOK, Sole, Moved, MaxValidity = 1, NEW w \in Workers,
           Progress(w) \/ FetchFatal(w) \/ Abort(w)
    PROVE  Moved'
  <1>1. /\ Running(w) /\ UNCHANGED <<srv, user, gone>>
        /\ pc \in [Workers -> Steps]
        BY StepGoes DEF TypeOK
  <1>2. PICK step \in Steps : Go(w, step) /\ (step = "idle" <=> Finish(w))
        BY <1>1, StepGoes
  <1>3. tombs' \subseteq tombs /\ (~Finish(w) => tombs' = tombs)
    <2>1. CASE Finalize(w)
          BY <2>1 DEF Finalize
    <2>2. CASE ~Finalize(w)
      <3>1. tombs' = tombs
            BY <2>2 DEF Progress, Prepare, DeltaVerify, DeltaApply, Begin, StagePage, Plan,
                   Fetch, FetchFatal, Save, Record, Store, FetchDone, Discard, Verify,
                   FinalizeRefused, Abort, store
      <3>. QED  BY <3>1
    <2>. QED  BY <2>1, <2>2
  <1>4. \A u \in gone : rows'[u] = 0
        BY GoneStays
  <1>5. ~Finish(w) => /\ job'[w].view \in {job[w].view, srv.uids}
                      /\ w \in Watchers => job'[w].replace = FALSE
        BY <1>1, StepLocals, NeverChanged DEF Moved
  <1>. QED  BY <1>1, <1>2, <1>3, <1>4, <1>5, MovedStays

(* A move is in the mailbox no more when it reaches the store, and the      *)
(* server numbers no new message with its UID.                              *)
LEMMA MovedEnvironment ==
    ASSUME TypeOK, Sole, Moved, MaxValidity = 1,
           \/ MoveLocally \/ Deliver \/ ResetValidity \/ UNCHANGED vars
           \/ \E u \in Uids : MoveOnServer(u) \/ ExpungeElsewhere(u)
    PROVE  Moved'
  <1>0. tombs \subseteq Uids /\ gone \subseteq Uids /\ user.uid \in Uids \cup {0}
        BY DEF TypeOK
  <1>1. CASE UNCHANGED vars
        BY <1>1 DEF vars, Moved, Running
  <1>2. CASE ResetValidity
    <2>1. srv.validity = 1
          BY DEF TypeOK, Validities
    <2>. QED  BY <1>2, <2>1 DEF ResetValidity
  <1>3. CASE Deliver
    <2>1. /\ UNCHANGED <<rows, tombs, pc, job, user, gone>>
          /\ srv'.next = srv.next + 1 /\ srv'.uids = srv.uids \cup {srv.next}
          BY <1>3 DEF Deliver, store, TypeOK
    <2>2. \A u \in Nat : u < srv.next => u < srv'.next /\ u # srv.next
          BY <2>1, Naturals
    <2>3. Uids \cup {0} \subseteq Nat
          BY Naturals
    <2>. QED  BY <1>0, <2>1, <2>2, <2>3 DEF Moved, Running
  <1>4. ASSUME NEW u \in Uids, MoveOnServer(u) PROVE Moved'
    <2>1. /\ UNCHANGED <<rows, tombs, pc, job, gone>>
          /\ srv'.next = srv.next /\ srv'.uids = srv.uids \ {u}
          /\ user'.uid = u /\ rows[u] # 0
          BY <1>4 DEF MoveOnServer, store, TypeOK
    <2>2. u < srv.next
      <3>1. rows[u] \in 0..1 /\ srv.validity = 1
            BY DEF TypeOK, Validities
      <3>. QED  BY <2>1, <3>1 DEF Sole, Numbered, Older
    <2>. QED  BY <2>1, <2>2 DEF Moved, Running
  <1>5. ASSUME NEW u \in Uids, ExpungeElsewhere(u) PROVE Moved'
    <2>1. /\ UNCHANGED <<rows, tombs, pc, job, user, gone>>
          /\ srv'.next = srv.next /\ srv'.uids = srv.uids \ {u}
          BY <1>5 DEF ExpungeElsewhere, store, TypeOK
    <2>. QED  BY <2>1 DEF Moved, Running
  <1>6. CASE MoveLocally
    <2>1. /\ UNCHANGED <<srv, pc, job>> /\ user.uid \in Uids /\ user'.uid = 0
          /\ tombs' = tombs \cup {user.uid}
          /\ rows' = [rows EXCEPT ![user.uid] = 0]
          /\ gone' \subseteq gone \cup {user.uid}
          BY <1>0, <1>6 DEF MoveLocally, server
    <2>2. \A u \in gone' : rows'[u] = 0
          BY <1>0, <2>1 DEF Moved, TypeOK
    <2>3. \A w \in Rebuilders : ~Running(w)
          BY <1>6 DEF MoveLocally, Sole, Sound, Selected, Workers
    <2>4. user.uid \notin srv.uids /\ user.uid < srv.next
          BY <2>1, Naturals DEF Moved
    <2>5. \A u \in tombs' \cup gone' : u \notin srv'.uids /\ u < srv'.next
          BY <2>1, <2>4 DEF Moved
    <2>6. \A w \in Workers : Running(w) => gone' \cap job[w].view \subseteq tombs'
          BY <2>1 DEF Moved
    <2>. QED  BY <2>1, <2>2, <2>3, <2>5, <2>6 DEF Moved, Running
  <1>. QED  BY <1>1, <1>2, <1>3, <1>4, <1>5, <1>6

(* Every step keeps Moved. *)
LEMMA NextMoved ==
    ASSUME Exclusive, MaxValidity = 1, TypeOK, Sole, Moved, [Next]_vars PROVE Moved'
  <1>1. ASSUME NEW w \in Workers, Progress(w) \/ FetchFatal(w) \/ Abort(w) PROVE Moved'
        BY <1>1, MovedSteps
  <1>2. CASE \/ MoveLocally \/ Deliver \/ ResetValidity \/ UNCHANGED vars
             \/ \E u \in Uids : MoveOnServer(u) \/ ExpungeElsewhere(u)
        BY <1>2, MovedEnvironment
  <1>3. CASE \/ \E w \in Watchers : StartWatcher(w)
             \/ \E w \in Rebuilders, reset \in BOOLEAN : StartRebuilder(w, reset)
        BY <1>3, MovedStarts
  <1>. QED  BY <1>1, <1>2, <1>3 DEF Next

(* Where the mailbox is not recreated, what the user moved is neither in    *)
(* the mailbox nor in the catalogue, and no sync brings it back.            *)
THEOREM MovedHolds ==
    ASSUME Exclusive, MaxValidity = 1 PROVE Spec => []Moved
  <1>1. Init => Moved
    <2>. SUFFICES ASSUME Init PROVE Moved
         OBVIOUS
    <2>1. user.uid = 0 /\ tombs = {} /\ gone = {} /\ \A w \in Workers : ~Running(w)
          BY DEF Init, Running
    <2>. QED  BY <2>1 DEF Moved, Workers
  <1>2. TypeOK /\ Sole /\ Moved /\ [Next]_vars => Moved'
        BY NextMoved
  <1>. QED  BY <1>1, <1>2, SoleHolds, PTL DEF Spec

(* MovedStaysGone: a message the user has moved away has no row again,      *)
(* whatever a sync fetched before the move and stores after it.             *)
THEOREM MovedNeverReturns ==
    ASSUME Exclusive, MaxValidity = 1 PROVE Spec => []MovedStaysGone
  <1>1. TypeOK /\ Moved => MovedStaysGone
        BY Naturals DEF Moved, MovedStaysGone
  <1>. QED  BY <1>1, TypeCorrect, MovedHolds, PTL

(* The new mail of a running cycle: stored by it, seen by it, and not yet   *)
(* announced, unless the message has left the mailbox since.                *)
Unannounced(w) ==
    /\ srv.caps.uidnext => job[w].ident.next <= srv.next
    /\ srv.caps.uidnext /\ job[w].ident.next = srv.next => srv.uids \subseteq job[w].view
    /\ job[w].fresh # {} =>
          w \in Watchers /\ pc[w] \in {"record", "discard", "verify", "finalize"}
    /\ \A u \in job[w].fresh : u \in job[w].view /\ (rows[u] # 0 \/ u \in tombs)
    /\ \A u \in job[w].fresh \cap notified : u \notin srv.uids
    /\ pc[w] = "finalize" => job[w].fresh \cap notified = {}
News ==
    /\ \A u \in notified : u < srv.next /\ (rows[u] # 0 \/ u \notin srv.uids)
    /\ \A w \in Workers : Running(w) => Unannounced(w)

(* A step of a sync that drops no row and announces nothing keeps News. *)
LEMMA NewsStays ==
    ASSUME TypeOK, Sole, News, NEW w \in Workers, NEW step \in Steps, Go(w, step),
           Running(w), UNCHANGED <<srv, notified>>,
           \A u \in Uids : rows[u] # 0 => rows'[u] # 0,
           step # "idle" => Unannounced(w)'
    PROVE  News'
  <1>1. \A x \in Workers : pc'[x] = IF x = w THEN step ELSE "idle"
        BY DEF Sole, Alone, Running, Go, TypeOK
  <1>2. notified \subseteq Uids
        BY DEF TypeOK
  <1>. QED  BY <1>1, <1>2 DEF News, Running

(* A sync starts with no new mail. *)
LEMMA NewsStarts ==
    ASSUME TypeOK, Sole, News, Exclusive,
           (\E w \in Watchers : StartWatcher(w))
           \/ \E w \in Rebuilders, reset \in BOOLEAN : StartRebuilder(w, reset)
    PROVE  News'
  <1>1. PICK w \in Workers, reset \in BOOLEAN, changed \in BOOLEAN,
             step \in {"prepare", "delta", "begin"} :
           /\ job' = [job EXCEPT ![w] = SelectedJob(reset, changed, NoMark)]
           /\ Go(w, step) /\ CanStart(w)
           /\ UNCHANGED <<srv, rows, tombs, notified>>
    <2>1. ASSUME NEW w \in Watchers, StartWatcher(w)
          PROVE  /\ job' = [job EXCEPT ![w] = SelectedJob(FALSE, FALSE, NoMark)]
                 /\ Go(w, "prepare") /\ CanStart(w)
                 /\ UNCHANGED <<srv, rows, tombs, notified>>
          BY <2>1 DEF StartWatcher, server, store
    <2>2. ASSUME NEW w \in Rebuilders, NEW reset \in BOOLEAN, StartRebuilder(w, reset)
          PROVE  \E changed \in BOOLEAN, step \in {"delta", "begin"} :
                   /\ job' = [job EXCEPT ![w] = SelectedJob(reset, changed, NoMark)]
                   /\ Go(w, step) /\ CanStart(w)
                   /\ UNCHANGED <<srv, rows, tombs, notified>>
          BY <2>2, Zenon DEF StartRebuilder, server, store
    <2>. QED  BY <2>1, <2>2 DEF Workers
  <1>2. \A x \in Workers : pc'[x] = IF x = w THEN step ELSE "idle"
        BY <1>1 DEF CanStart, Go, TypeOK
  <1>3. job'[w] = SelectedJob(reset, changed, NoMark)
        BY <1>1 DEF TypeOK
  <1>4. job'[w].view = srv.uids /\ job'[w].ident = Identity /\ job'[w].fresh = {}
        BY <1>3 DEF SelectedJob, NoJob
  <1>5. Identity.next = IF srv.caps.uidnext THEN srv.next ELSE 0
        BY DEF Identity
  <1>6. Unannounced(w)'
        BY <1>1, <1>4, <1>5, Naturals DEF Unannounced
  <1>7. \A u \in notified' : u < srv'.next /\ (rows'[u] # 0 \/ u \notin srv'.uids)
        BY <1>1 DEF News
  <1>. QED  BY <1>2, <1>6, <1>7 DEF News, Running

(* The steps before and after the new mail is known. *)
LEMMA NewsGoesOn ==
    ASSUME TypeOK, Sole, News, NEW w \in Workers, ~Finish(w), ~Save(w), ~Verify(w),
           Progress(w) \/ FetchFatal(w) \/ Abort(w), UNCHANGED notified
    PROVE  News'
  <1>1. /\ Running(w) /\ srv' = srv /\ pc \in [Workers -> Steps]
        BY StepGoes DEF TypeOK
  <1>2. PICK step \in Steps : Go(w, step) /\ step # "idle"
        BY <1>1, StepGoes
  <1>3. ~Finalize(w) /\ ~Discard(w) /\ ~FinalizeRefused(w) /\ ~Abort(w) /\ ~DeltaApply(w)
        BY DEF Finalize, Discard, FinalizeRefused, Abort, DeltaApply
  <1>4. tombs' = tombs
        BY <1>3 DEF Progress, Prepare, DeltaVerify, Begin, StagePage, Plan, Fetch,
               FetchFatal, Record, Store, FetchDone, store
  <1>5. \A u \in Uids : rows[u] # 0 => rows'[u] # 0
    <2>1. CASE Store(w)
          BY <2>1, PersistKeeps DEF Store
    <2>2. CASE ~Store(w)
          BY <1>3, <2>2, QuietSteps
    <2>. QED  BY <2>1, <2>2
  <1>6. /\ \/ job'[w].view = job[w].view /\ job'[w].ident = job[w].ident
           \/ job'[w].view = srv.uids /\ job'[w].ident = Identity
        /\ job'[w].fresh = job[w].fresh
        BY StepLocals
  <1>7. Unannounced(w) /\ job[w].fresh \subseteq Uids
        BY <1>1 DEF News, TypeOK, Jobs
  <1>8. /\ srv'.caps.uidnext => job'[w].ident.next <= srv'.next
        /\ srv'.caps.uidnext /\ job'[w].ident.next = srv'.next =>
              srv'.uids \subseteq job'[w].view
    <2>1. Identity.next = IF srv.caps.uidnext THEN srv.next ELSE 0
          BY DEF Identity
    <2>. QED  BY <1>1, <1>6, <1>7, <2>1, Naturals DEF Unannounced
  <1>9. CASE Record(w)
    <2>1. pc'[w] \in {"verify", "discard"} /\ job' = job
          BY <1>1, <1>9 DEF Record, Go
    <2>2. Unannounced(w)'
          BY <1>1, <1>4, <1>5, <1>7, <2>1, <1>9 DEF Unannounced, Record
    <2>. QED  BY <1>1, <1>2, <1>5, <2>2, NewsStays
  <1>10. CASE ~Record(w)
    <2>1. pc[w] \notin {"record", "discard", "verify", "finalize"}
          BY <1>3, <1>10 DEF Progress, Prepare, DeltaVerify, Begin, StagePage, Plan, Fetch,
                             FetchFatal, Store, FetchDone
    <2>2. job'[w].fresh = {}
          BY <1>6, <1>7, <2>1 DEF Unannounced
    <2>3. Unannounced(w)'
          BY <1>8, <2>2 DEF Unannounced
    <2>. QED  BY <1>1, <1>2, <1>5, <2>3, NewsStays
  <1>. QED  BY <1>9, <1>10

(* What a cycle stores that had no row was announced only if it has left.   *)
LEMMA NewsSave ==
    ASSUME TypeOK, Sole, News, NEW w \in Workers, Save(w) PROVE News'
  <1>1. /\ Running(w) /\ UNCHANGED <<srv, tombs, notified>> /\ Go(w, "record")
        /\ job \in [Workers -> Jobs] /\ job[w] \in Jobs /\ pc'[w] = "record"
        /\ Sound(w) /\ pc[w] = "save"
        BY DEF Save, Running, server, TypeOK, Go, Sole
  <1>2. /\ rows' \in {rows, Persist(w)}
        /\ \A u \in Uids : rows[u] # 0 => Persist(w)[u] # 0
        /\ \A u \in Uids \cap job[w].ok : Persist(w)[u] # 0 \/ u \in tombs
        BY <1>1, PersistKeeps DEF Save
  <1>3. Unannounced(w) /\ job[w].fresh = {}
        BY <1>1 DEF News, Unannounced
  <1>4. job[w].ok \subseteq job[w].view /\ job[w].ok \subseteq Uids /\ w \in Watchers
        BY <1>1 DEF Sound, Asked, Planned, Answered, Incrementing, Jobs
  <1>5. PICK F \in SUBSET NewMail(w) :
           /\ job'[w].view = job[w].view /\ job'[w].ident = job[w].ident
           /\ job'[w].fresh = F
           /\ F # {} => rows' = Persist(w)
    <2>1. CASE job[w].fatal /\ job[w].ok = {}
      <3>1. job' = job
            BY <2>1 DEF Save
      <3>. QED  BY <1>3, <3>1
    <2>2. CASE ~(job[w].fatal /\ job[w].ok = {})
      <3>1. PICK F \in SUBSET NewMail(w) : job' = [job EXCEPT ![w].fresh = F]
            BY <2>2 DEF Save
      <3>2. job'[w] = [job[w] EXCEPT !.fresh = F] /\ rows' = Persist(w)
            BY <1>1, <2>2, <3>1 DEF Save
      <3>3. /\ job'[w].view = job[w].view /\ job'[w].ident = job[w].ident
            /\ job'[w].fresh = F
            BY <1>1, <3>2 DEF Jobs
      <3>. QED  BY <3>2, <3>3
    <2>. QED  BY <2>1, <2>2
  <1>6. ASSUME NEW u \in F
        PROVE  /\ u \in job[w].view /\ (rows'[u] # 0 \/ u \in tombs)
               /\ u \in notified => u \notin srv.uids
        BY <1>2, <1>4, <1>5 DEF NewMail, News
  <1>7. Unannounced(w)'
        BY <1>1, <1>3, <1>4, <1>5, <1>6 DEF Unannounced
  <1>. QED  BY <1>1, <1>2, <1>7, NewsStays DEF Steps

(* The final SELECT shows the mailbox as it was inventoried, so a cycle's   *)
(* new mail is all in it.                                                   *)
LEMMA NewsVerify ==
    ASSUME TypeOK, Sole, News, NEW w \in Workers, Verify(w), ~Finish(w) PROVE News'
  <1>1. /\ Running(w) /\ UNCHANGED <<srv, rows, tombs, notified>>
        /\ Sound(w) /\ pc[w] = "verify" /\ pc \in [Workers -> Steps] /\ job[w] \in Jobs
        BY DEF Verify, Running, server, TypeOK, Sole
  <1>2. PICK step \in {"finalize", "discard"} :
          /\ Go(w, step) /\ pc'[w] = step /\ job' = job
          /\ step = "finalize" =>
                Identity = job[w].ident /\ (srv.caps.uidnext \/ srv.uids = job[w].view)
        BY <1>1 DEF Verify, Go
  <1>3. Unannounced(w)
        BY <1>1 DEF News
  <1>4. ASSUME step = "finalize" PROVE job[w].fresh \cap notified = {}
    <2>1. CASE srv.caps.uidnext
      <3>1. job[w].ident.next = srv.next /\ job[w].ident.exists = Cardinality(srv.uids)
            BY <1>2, <1>4, <2>1 DEF Identity
      <3>2. srv.uids \subseteq job[w].view /\ Cardinality(srv.uids) = Cardinality(job[w].view)
            BY <1>1, <1>3, <2>1, <3>1 DEF Unannounced, Sound, Selected
      <3>3. IsFiniteSet(job[w].view)
            BY <1>1, UidsAreFinite, Naturals DEF Jobs
      <3>4. srv.uids = job[w].view
            BY <3>2, <3>3, FS_Subset
      <3>. QED  BY <1>3, <3>4 DEF Unannounced
    <2>2. CASE srv.uids = job[w].view
          BY <1>3, <2>2 DEF Unannounced
    <2>. QED  BY <1>2, <1>4, <2>1, <2>2
  <1>5. Unannounced(w)'
        BY <1>1, <1>2, <1>3, <1>4 DEF Unannounced
  <1>. QED  BY <1>1, <1>2, <1>5, NewsStays DEF Steps

(* What a commit announces is stored, or was moved away. *)
LEMMA NewsFinalize ==
    ASSUME TypeOK, Sole, Moved, News, MaxValidity = 1, NEW w \in Workers, Finalize(w)
    PROVE  News'
  <1>1. /\ Running(w) /\ srv' = srv /\ \A x \in Workers : pc'[x] = "idle"
        /\ Sound(w) /\ notified' \subseteq notified \cup job[w].fresh
        /\ job[w] \in Jobs /\ notified \subseteq Uids
        BY DEF Finalize, Finish, Go, Running, server, TypeOK, Sole, Alone
  <1>2. /\ srv.validity = 1 /\ rows \in [Uids -> 0..1]
        /\ job[w].ident.validity = 1
    <2>1. srv.validity = 1 /\ rows \in [Uids -> 0..1]
          BY DEF TypeOK, Validities
    <2>2. job[w].ident.validity \in 1..srv.validity
          BY <1>1 DEF Sound, Selected
    <2>. QED  BY <2>1, <2>2
  <1>3. ASSUME NEW u \in srv.uids, rows[u] # 0 PROVE rows'[u] # 0
    <2>1. rows[u] = srv.validity
          BY <1>2, <1>3 DEF TypeOK
    <2>. QED  BY <2>1, CommitKeepsRows
  <1>4. ASSUME NEW u \in notified \cup job[w].fresh
        PROVE  u < srv.next /\ (rows[u] # 0 \/ u \notin srv.uids)
    <2>1. CASE u \in notified
          BY <2>1 DEF News
    <2>2. CASE u \in job[w].fresh
      <3>1. u \in job[w].view /\ (rows[u] # 0 \/ u \in tombs)
            BY <1>1, <2>2 DEF News, Unannounced
      <3>2. u < srv.next
            BY <1>1, <1>2, <3>1 DEF Sound, Selected, Unseen, InSession
      <3>. QED  BY <3>1, <3>2 DEF Moved
    <2>. QED  BY <1>4, <2>1, <2>2
  <1>. QED  BY <1>1, <1>3, <1>4 DEF News, Running

(* The steps of a sync keep News; only a commit announces. *)
LEMMA NewsSteps ==
    ASSUME TypeOK, Sole, Moved, News, MaxValidity = 1, NEW w \in Workers,
           Progress(w) \/ FetchFatal(w) \/ Abort(w)
    PROVE  News'
  <1>1. CASE Finalize(w)
        BY <1>1, NewsFinalize
  <1>2. CASE ~Finalize(w)
    <2>1. notified' = notified
          BY <1>2 DEF Progress, Prepare, DeltaVerify, DeltaApply, Begin, StagePage, Plan,
                 Fetch, FetchFatal, Save, Record, Store, FetchDone, Discard, Verify,
                 FinalizeRefused, Abort
    <2>2. CASE Finish(w)
      <3>1. /\ Running(w) /\ srv' = srv /\ Go(w, "idle") /\ "idle" \in Steps
            BY <2>2, StepGoes DEF Finish, Steps, TypeOK
      <3>2. ~Save(w)
            BY <3>1 DEF Save, Go, TypeOK
      <3>3. \A u \in Uids : rows[u] # 0 => rows'[u] # 0
        <4>1. CASE Store(w)
              BY <4>1, PersistKeeps DEF Store
        <4>2. CASE ~Store(w)
              BY <1>2, <3>2, <4>2, QuietSteps
        <4>. QED  BY <4>1, <4>2
      <3>. QED  BY <2>1, <3>1, <3>3, NewsStays
    <2>3. CASE ~Finish(w)
          BY <2>1, <2>3, NewsGoesOn, NewsSave, NewsVerify
    <2>. QED  BY <2>2, <2>3
  <1>. QED  BY <1>1, <1>2

(* A message that is new to the server has not been announced. *)
LEMMA NewsEnvironment ==
    ASSUME TypeOK, Sole, Moved, News, MaxValidity = 1,
           \/ MoveLocally \/ Deliver \/ ResetValidity \/ UNCHANGED vars
           \/ \E u \in Uids : MoveOnServer(u) \/ ExpungeElsewhere(u)
    PROVE  News'
  <1>0. notified \subseteq Uids /\ \A w \in Workers : job[w].fresh \subseteq Uids
        BY DEF TypeOK, Jobs
  <1>1. CASE UNCHANGED vars
        BY <1>1 DEF vars, News, Unannounced, Running
  <1>2. CASE ResetValidity
    <2>1. srv.validity = 1
          BY DEF TypeOK, Validities
    <2>. QED  BY <1>2, <2>1 DEF ResetValidity
  <1>3. CASE Deliver
    <2>1. /\ UNCHANGED <<rows, tombs, pc, job, notified>>
          /\ srv'.next = srv.next + 1 /\ srv'.uids = srv.uids \cup {srv.next}
          /\ srv'.caps = srv.caps
          BY <1>3 DEF Deliver, store, TypeOK
    <2>2. \A n \in Nat : /\ n < srv.next => n < srv'.next /\ n # srv.next
                         /\ n <= srv.next => n <= srv'.next /\ n # srv'.next
          BY <2>1, Naturals
    <2>3. \A u \in notified : u < srv'.next /\ (rows[u] # 0 \/ u \notin srv'.uids)
          BY <1>0, <2>1, <2>2, Naturals DEF News
    <2>4. ASSUME NEW w \in Workers, Running(w) PROVE Unannounced(w)'
      <3>1. Unannounced(w) /\ job[w].ident.next \in Nat
            BY <2>4 DEF News, TypeOK, Jobs, Identities
      <3>2. \A u \in job[w].fresh \cap notified : u \notin srv'.uids
            BY <1>0, <2>1, <2>2, <3>1, Naturals DEF News, Unannounced
      <3>. QED  BY <2>1, <2>2, <3>1, <3>2 DEF Unannounced
    <2>. QED  BY <2>1, <2>3, <2>4 DEF News, Running
  <1>4. CASE \E u \in Uids : MoveOnServer(u) \/ ExpungeElsewhere(u)
    <2>1. /\ UNCHANGED <<rows, tombs, pc, job, notified>>
          /\ srv'.next = srv.next /\ srv'.uids \subseteq srv.uids
          /\ srv'.caps = srv.caps
      <3>1. PICK u \in Uids : MoveOnServer(u) \/ ExpungeElsewhere(u)
            BY <1>4
      <3>2. srv' = [srv EXCEPT !.uids = srv.uids \ {u}]
            BY <3>1 DEF MoveOnServer, ExpungeElsewhere
      <3>. QED  BY <3>1, <3>2 DEF MoveOnServer, ExpungeElsewhere, store, TypeOK
    <2>2. ASSUME NEW w \in Workers, Unannounced(w) PROVE Unannounced(w)'
          BY <2>1, <2>2 DEF Unannounced
    <2>. QED  BY <2>1, <2>2 DEF News, Running
  <1>5. CASE MoveLocally
    <2>1. /\ UNCHANGED <<srv, pc, job, notified>>
          /\ tombs' = tombs \cup {user.uid} /\ user.uid \notin srv.uids
          /\ \A u \in Uids : rows'[u] = rows[u] \/ u = user.uid
          BY <1>5 DEF MoveLocally, server, TypeOK, Moved
    <2>2. ASSUME NEW w \in Workers, Unannounced(w) PROVE Unannounced(w)'
          BY <1>0, <2>1, <2>2 DEF Unannounced
    <2>. QED  BY <1>0, <2>1, <2>2 DEF News, Running
  <1>. QED  BY <1>1, <1>2, <1>3, <1>4, <1>5

(* Every step keeps News. *)
LEMMA NextNews ==
    ASSUME Exclusive, MaxValidity = 1, TypeOK, Sole, Moved, News, [Next]_vars
    PROVE  News'
  <1>1. ASSUME NEW w \in Workers, Progress(w) \/ FetchFatal(w) \/ Abort(w) PROVE News'
        BY <1>1, NewsSteps
  <1>2. CASE \/ MoveLocally \/ Deliver \/ ResetValidity \/ UNCHANGED vars
             \/ \E u \in Uids : MoveOnServer(u) \/ ExpungeElsewhere(u)
        BY <1>2, NewsEnvironment
  <1>3. CASE \/ \E w \in Watchers : StartWatcher(w)
             \/ \E w \in Rebuilders, reset \in BOOLEAN : StartRebuilder(w, reset)
        BY <1>3, NewsStarts
  <1>. QED  BY <1>1, <1>2, <1>3 DEF Next

(* Where the mailbox is not recreated, the new mail of a cycle is stored    *)
(* and not yet announced.                                                   *)
THEOREM NewsHolds ==
    ASSUME Exclusive, MaxValidity = 1 PROVE Spec => []News
  <1>1. Init => News
    <2>. SUFFICES ASSUME Init PROVE News
         OBVIOUS
    <2>1. notified = {} /\ \A w \in Workers : ~Running(w)
          BY DEF Init, Running
    <2>. QED  BY <2>1 DEF News
  <1>2. TypeOK /\ Sole /\ Moved /\ News /\ [Next]_vars => News'
        BY NextNews
  <1>. QED  BY <1>1, <1>2, SoleHolds, MovedHolds, PTL DEF Spec

(* AnnouncedOnce: no message is announced as new mail a second time.        *)
THEOREM NoSecondNotice ==
    ASSUME Exclusive, MaxValidity = 1 PROVE Spec => AnnouncedOnce
  <1>. DEFINE Once == \A w \in Watchers : pc[w] = "finalize" /\ notified' # notified
                         => job[w].fresh \cap notified = {}
  <1>1. News => Once
        BY DEF News, Unannounced, Running, Workers
  <1>2. Spec => [][Once]_vars
        BY <1>1, NewsHolds, PTL DEF Spec
  <1>. QED  BY <1>2 DEF AnnouncedOnce

=============================================================================
