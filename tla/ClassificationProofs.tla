-------------------------- MODULE ClassificationProofs --------------------------
(***************************************************************************)
(* What Classification guarantees, for any messages, drains, command lines *)
(* and callers, and any size of batch: a category is never stale, the      *)
(* user's decision stays, and a caller that is told its request is done    *)
(* has had every message classified that was pending when it asked.  And   *)
(* what HydrationQueue does, the other worker in the background, for any   *)
(* accounts: a stopped watcher leaves no task, events come in order.       *)
(***************************************************************************)
EXTENDS Classification, Sequences, FiniteSetTheorems, SequenceTheorems, WellFoundedInduction, TLAPS

-----------------------------------------------------------------------------
(* The invariant *)

Passing == {"claim", "select", "known", "infer", "apply", "finish", "fail"}
Places  == {"idle", "pass", "release"} \cup Passing
Waits   == {"idle", "register", "check", "drowsy", "sleep", "ok", "failed"}

Decisions == [ev : Nat, known : BOOLEAN, rev : Nat]
Messages  == [ev : Nat, known : BOOLEAN, on : Decisions,
              by : {"absent", "nobody", "model", "user"}]
Metas     == [owner : Owners \cup {NoOwner}, active : BOOLEAN, rev : Nat]
Scheds    == [running : BOOLEAN, requested : Nat, completed : Nat, failed : Nat]
Locals    == [at : Places, gen : Nat, tries : Nat, batch : SUBSET Msgs,
              ev : UNION {[b -> Nat] : b \in SUBSET Msgs}, known : SUBSET Msgs]
Callers   == [at : Waits, gen : Nat, woken : BOOLEAN, asked : SUBSET Msgs]

TypeOK ==
    /\ mail \in [Msgs -> Messages]
    /\ meta \in Metas /\ sched \in Scheds
    /\ runner \in [Runners -> Locals]
    /\ client \in [Clients -> Callers]
    /\ events \in Nat

(* Only the desktop's drains answer to the scheduler. *)
Placed(r) == r \in Clis => runner[r].at \notin {"pass", "finish", "fail"}

(* The callers that asked before a pass began. *)
Before(gen) == {c \in Clients : client[c].gen <= gen}

(* A batch that is not full held all that was pending, so a pass that ends  *)
(* with it leaves nothing its callers asked for.                            *)
Judging == {"known", "infer", "apply"}
LastBatch(r) ==
    r \in Drains /\ runner[r].at \in Judging /\ Cardinality(runner[r].batch) # BatchSize =>
        \A c \in Before(runner[r].gen) : client[c].asked \subseteq runner[r].batch
PassEnds(r) ==
    runner[r].at = "finish" => \A c \in Before(runner[r].gen) : client[c].asked = {}

(* No pass is ahead of the requests. *)
Ready(r) == runner[r].gen <= sched.requested /\ Placed(r) /\ LastBatch(r) /\ PassEnds(r)

(* What a caller asked for and is not settled is still pending; whoever     *)
(* would be answered now is answered right.                                 *)
Served(c) ==
    /\ client[c].asked \subseteq Pending
    /\ sched.completed >= client[c].gen /\ sched.failed < client[c].gen => client[c].asked = {}
    /\ client[c].at = "ok" => client[c].asked = {}

Complete == /\ sched.completed <= sched.requested
            /\ \A r \in Runners : Ready(r)
            /\ \A c \in Clients : Served(c)

-----------------------------------------------------------------------------
(* Types *)

(* What the assumptions say of the model's revisions. *)
LEMMA Revisions ==
    ASSUME ClassificationAssumption, NEW r \in Runners
    PROVE  Owner(r) \in Owners /\ Revision[Owner(r)] \in Nat \ {0}
  BY DEF ClassificationAssumption, Runners, Owner, Owners

(* Nothing has been read when a drain rests. *)
LEMMA RestTyped ==
    /\ Rest \in Locals /\ Rest.at = "idle" /\ Rest.gen = 0
    /\ NoWait \in Callers /\ NoWait.gen = 0 /\ NoWait.asked = {}
  <1>1. <<>> \in [{} -> Nat]
        OBVIOUS
  <1>2. <<>> \in UNION {[b -> Nat] : b \in SUBSET Msgs}
        BY <1>1
  <1>. QED  BY <1>2 DEF Rest, NoWait, Locals, Callers, Places, Waits

(* A step of a drain changes its own locals only: *)
LEMMA NowTurns ==
    ASSUME runner \in [Runners -> Locals], NEW r \in Runners, NEW l \in Locals, Now(r, l)
    PROVE  /\ runner' \in [Runners -> Locals] /\ runner'[r] = l
           /\ \A x \in Runners \ {r} : runner'[x] = runner[x]
  BY DEF Now

(* it may just go on, *)
LEMMA GoTurns ==
    ASSUME runner \in [Runners -> Locals], NEW r \in Runners, NEW at \in Places, Go(r, at)
    PROVE  /\ runner' \in [Runners -> Locals]
           /\ \A x \in Runners \ {r} : runner'[x] = runner[x]
           /\ runner'[r].at = at /\ runner'[r].gen = runner[r].gen
           /\ runner'[r].batch = runner[r].batch /\ runner'[r].ev = runner[r].ev
  <1>. DEFINE l == [runner[r] EXCEPT !.at = at]
  <1>1. l \in Locals /\ l.at = at /\ l.gen = runner[r].gen /\ l.batch = runner[r].batch
        /\ l.ev = runner[r].ev
        BY DEF Locals
  <1>2. Now(r, l)
        BY DEF Go
  <1>. HIDE DEF l
  <1>. QED  BY <1>1, <1>2, NowTurns

(* start afresh, with a retry,                                              *)
LEMMA RetryTurns ==
    ASSUME TypeOK, NEW r \in Runners, Retry(r)
    PROVE  /\ runner' \in [Runners -> Locals]
           /\ \A x \in Runners \ {r} : runner'[x] = runner[x]
           /\ runner'[r].at \in {"release", "claim", "fail"}
           /\ r \in Clis => runner'[r].at = "release"
           /\ runner'[r].gen \in {0, runner[r].gen}
  <1>. DEFINE ends   == [Rest EXCEPT !.at = "release"]
              again  == [Rest EXCEPT !.at = "claim", !.gen = runner[r].gen,
                                     !.tries = runner[r].tries + 1]
              failed == [Rest EXCEPT !.at = "fail", !.gen = runner[r].gen]
  <1>1. /\ runner \in [Runners -> Locals] /\ runner[r].gen \in Nat
        /\ runner[r].tries + 1 \in Nat
        BY DEF TypeOK, Locals
  <1>2. {"release", "claim", "fail"} \subseteq Places
        BY DEF Places, Passing
  <1>3. /\ ends \in Locals /\ ends.at = "release" /\ ends.gen = 0
        /\ again \in Locals /\ again.at = "claim" /\ again.gen = runner[r].gen
        /\ failed \in Locals /\ failed.at = "fail" /\ failed.gen = runner[r].gen
    <2>1. ends \in Locals /\ ends.at = "release" /\ ends.gen = 0
          BY <1>1, <1>2, RestTyped DEF Locals, Rest
    <2>2. again \in Locals /\ again.at = "claim" /\ again.gen = runner[r].gen
          BY <1>1, <1>2, RestTyped DEF Locals, Rest
    <2>3. failed \in Locals /\ failed.at = "fail" /\ failed.gen = runner[r].gen
          BY <1>1, <1>2, RestTyped DEF Locals, Rest
    <2>. QED  BY <2>1, <2>2, <2>3
  <1>4. /\ r \in Clis => Now(r, ends)
        /\ r \notin Clis => Now(r, again) \/ Now(r, failed)
    <2>1. CASE r \in Clis
          BY <2>1 DEF Retry, Now
    <2>2. CASE r \notin Clis /\ MayRetry(runner[r])
          BY <2>2 DEF Retry, Now
    <2>3. CASE r \notin Clis /\ ~MayRetry(runner[r])
          BY <2>3 DEF Retry, Now
    <2>. QED  BY <2>1, <2>2, <2>3
  <1>. HIDE DEF ends, again, failed
  <1>5. CASE Now(r, ends)
        BY <1>1, <1>3, <1>5, NowTurns
  <1>6. CASE r \notin Clis /\ Now(r, again)
        BY <1>1, <1>3, <1>6, NowTurns
  <1>7. CASE r \notin Clis /\ Now(r, failed)
        BY <1>1, <1>3, <1>7, NowTurns
  <1>. QED  BY <1>4, <1>5, <1>6, <1>7

-----------------------------------------------------------------------------
(* What each step of a drain does to its locals *)

(* Only r has moved, to one of some places, with the same request. *)
Moves(r, places) ==
    /\ runner' \in [Runners -> Locals]
    /\ \A x \in Runners \ {r} : runner'[x] = runner[x]
    /\ runner'[r].at \in places

(* A pass takes the last request.                                           *)
LEMMA PassTurns ==
    ASSUME TypeOK, NEW r \in Runners, Pass(r)
    PROVE  Moves(r, {"claim"}) /\ runner'[r].gen = sched.requested
  <1>. DEFINE l == [Rest EXCEPT !.at = "claim", !.gen = sched.requested]
  <1>1. l \in Locals /\ l.at = "claim" /\ l.gen = sched.requested
        BY RestTyped DEF TypeOK, Scheds, Locals, Places, Passing, Rest
  <1>2. Now(r, l) /\ runner \in [Runners -> Locals]
        BY DEF Pass, TypeOK
  <1>. HIDE DEF l
  <1>. QED  BY <1>1, <1>2, NowTurns DEF Moves

LEMMA ReleaseTurns ==
    ASSUME TypeOK, NEW r \in Runners, Release(r)
    PROVE  Moves(r, {"idle"}) /\ runner'[r].gen = 0
  <1>1. Now(r, Rest) /\ runner \in [Runners -> Locals]
        BY DEF Release, TypeOK
  <1>. QED  BY <1>1, RestTyped, NowTurns DEF Moves

(* A batch that is not full is all that is pending.                         *)
LEMMA SelectTurns ==
    ASSUME ClassificationAssumption, TypeOK, NEW r \in Runners, Select(r)
    PROVE  /\ Moves(r, {"known", "release", "finish"})
           /\ runner'[r].gen = runner[r].gen
           /\ runner'[r].at = "known" =>
                 (r \in Drains /\ Cardinality(runner'[r].batch) # BatchSize =>
                     runner'[r].batch = Pending)
           /\ runner'[r].at = "finish" => r \notin Clis /\ Pending = {}
  <1>. DEFINE all == {Pending, {m \in Msgs : mail[m].by \notin {"user", "absent"}}}
              wanted == IF r \in Clis THEN all ELSE {Pending}
              reads(b) == [runner[r] EXCEPT !.at = "known", !.batch = b,
                                            !.ev = [m \in b |-> mail[m].ev]]
              ends == [Rest EXCEPT !.at = IF r \in Clis THEN "release" ELSE "finish",
                                   !.gen = runner[r].gen]
  <1>1. PICK from \in wanted : \E b \in SUBSET from :
           /\ Cardinality(b) = IF Cardinality(from) < BatchSize
                               THEN Cardinality(from) ELSE BatchSize
           /\ Now(r, IF b # {} THEN reads(b) ELSE ends)
        BY DEF Select
  <1>2. PICK b \in SUBSET from :
           /\ Cardinality(b) = IF Cardinality(from) < BatchSize
                               THEN Cardinality(from) ELSE BatchSize
           /\ Now(r, IF b # {} THEN reads(b) ELSE ends)
        BY <1>1
  <1>3. from \in SUBSET Msgs /\ (r \notin Clis => from = Pending)
        BY <1>1 DEF Pending
  <1>4. IsFiniteSet(from) /\ IsFiniteSet(b) /\ Cardinality(from) \in Nat
        BY <1>3, FS_Subset, FS_CardinalityType DEF ClassificationAssumption
  <1>5. Cardinality(b) # BatchSize => b = from
        BY <1>2, <1>4, FS_Subset, FS_CardinalityType DEF ClassificationAssumption
  <1>6. runner \in [Runners -> Locals] /\ runner[r] \in Locals
        BY DEF TypeOK
  <1>7. CASE b # {}
    <2>1. [m \in b |-> mail[m].ev] \in [b -> Nat]
          BY <1>3 DEF TypeOK, Messages
    <2>2. PICK e : e = [m \in b |-> mail[m].ev]
          OBVIOUS
    <2>. DEFINE l == [runner[r] EXCEPT !.at = "known", !.batch = b, !.ev = e]
    <2>3. b \in SUBSET Msgs /\ e \in UNION {[c -> Nat] : c \in SUBSET Msgs}
          BY <1>3, <2>1, <2>2
    <2>4. /\ l \in Locals /\ l.at = "known" /\ l.gen = runner[r].gen
          /\ l.batch = b /\ l.ev = e
          BY <1>6, <2>3 DEF Locals, Places, Passing
    <2>5. Now(r, l)
          BY <1>2, <1>7, <2>2
    <2>. HIDE DEF l
    <2>6. runner'[r] = l /\ Moves(r, {"known"})
          BY <1>6, <2>4, <2>5, NowTurns DEF Moves
    <2>7. r \in Drains => r \notin Clis
          BY DEF ClassificationAssumption
    <2>. QED  BY <1>3, <1>5, <2>1, <2>2, <2>4, <2>6, <2>7 DEF Moves
  <1>8. CASE b = {}
    <2>1. Now(r, ends)
          BY <1>2, <1>8
    <2>2. /\ ends \in Locals /\ ends.gen = runner[r].gen
          /\ ends.at = IF r \in Clis THEN "release" ELSE "finish"
          BY <1>6, RestTyped DEF Locals, Places, Passing, Rest
    <2>3. b = from
          BY <1>5, <1>8, FS_EmptySet DEF ClassificationAssumption
    <2>. HIDE DEF ends
    <2>4. runner'[r] = ends /\ Moves(r, {"release", "finish"})
          BY <1>6, <2>1, <2>2, NowTurns DEF Moves
    <2>. QED  BY <1>3, <1>8, <2>2, <2>3, <2>4 DEF Moves
  <1>. QED  BY <1>7, <1>8

(* Then the correspondents are read,                                        *)
LEMMA KnownTurns ==
    ASSUME TypeOK, NEW r \in Runners, Known(r)
    PROVE  /\ Moves(r, {"infer"}) /\ runner[r].at = "known"
           /\ runner'[r].gen = runner[r].gen
           /\ runner'[r].batch = runner[r].batch /\ runner'[r].ev = runner[r].ev
  <1>1. PICK k : k = {m \in runner[r].batch : mail[m].known}
        OBVIOUS
  <1>. DEFINE l == [runner[r] EXCEPT !.at = "infer", !.known = k]
  <1>2. runner \in [Runners -> Locals] /\ runner[r] \in Locals
        BY DEF TypeOK
  <1>3. k \in SUBSET Msgs
        BY <1>1, <1>2 DEF Locals
  <1>4. /\ l \in Locals /\ l.at = "infer" /\ l.gen = runner[r].gen
        /\ l.batch = runner[r].batch /\ l.ev = runner[r].ev
        BY <1>2, <1>3 DEF Locals, Places, Passing
  <1>5. Now(r, l) /\ runner[r].at = "known"
        BY <1>1 DEF Known, At
  <1>. HIDE DEF l
  <1>. QED  BY <1>2, <1>4, <1>5, NowTurns DEF Moves

(* and it is classified, unless that fails.                                 *)
LEMMA InferTurns ==
    ASSUME TypeOK, NEW r \in Runners, Infer(r)
    PROVE  /\ runner[r].at = "infer"
           /\ \/ /\ Moves(r, {"apply"}) /\ runner'[r].gen = runner[r].gen
                 /\ runner'[r].batch = runner[r].batch /\ runner'[r].ev = runner[r].ev
              \/ Retry(r)
  <1>1. runner[r].at = "infer" /\ (Go(r, "apply") \/ Retry(r))
        BY DEF Infer, At
  <1>2. runner \in [Runners -> Locals] /\ "apply" \in Places
        BY DEF TypeOK, Places, Passing
  <1>. QED  BY <1>1, <1>2, GoTurns DEF Moves

(* A pass ends when all of a batch applied that was not full.               *)
LEMMA ApplyTurns ==
    ASSUME TypeOK, NEW r \in Runners, Apply(r),
           {m \in runner[r].batch : Applies(r, m)} = runner[r].batch
    PROVE  /\ Moves(r, {"claim", "pass", "finish"})
           /\ runner'[r].gen = runner[r].gen
           /\ r \in Clis => runner'[r].at = "claim"
           /\ runner'[r].at = "finish" => /\ r \notin Clis
                                          /\ Cardinality(runner[r].batch) # BatchSize
  <1>. DEFINE more == Cardinality(runner[r].batch) = BatchSize
              at   == IF r \in Clis THEN "claim" ELSE IF more THEN "pass" ELSE "finish"
              l    == [Rest EXCEPT !.gen = runner[r].gen, !.at = at]
  <1>1. runner \in [Runners -> Locals] /\ runner[r].gen \in Nat
        BY DEF TypeOK, Locals
  <1>2. at \in Places /\ at \in {"claim", "pass", "finish"}
        BY DEF Places, Passing
  <1>3. /\ r \in Clis => at = "claim"
        /\ at = "finish" => r \notin Clis /\ ~more
        OBVIOUS
  <1>4. Now(r, l)
        BY DEF Apply
  <1>. HIDE DEF at
  <1>5. l \in Locals /\ l.at = at /\ l.gen = runner[r].gen
        BY <1>1, <1>2, RestTyped DEF Locals, Rest
  <1>. HIDE DEF l
  <1>6. runner'[r] = l /\ Moves(r, {at})
        BY <1>1, <1>4, <1>5, NowTurns DEF Moves
  <1>. QED  BY <1>2, <1>3, <1>5, <1>6 DEF Moves

(* A new request sends an idle drain to work, or none.                      *)
LEMMA RequestTurns ==
    ASSUME TypeOK, Request
    PROVE  /\ sched'.requested = sched.requested + 1
           /\ sched' \in Scheds
           /\ sched'.completed = sched.completed /\ sched'.failed = sched.failed
           /\ runner' = runner \/ \E r \in Drains : Go(r, "pass")
  <1>1. sched \in Scheds
        BY DEF TypeOK
  <1>2. PICK n \in Nat : n = sched.requested + 1
        BY <1>1 DEF Scheds
  <1>. DEFINE l == [sched EXCEPT !.requested = n, !.running = TRUE]
  <1>3. sched' = l
        BY <1>2 DEF Request
  <1>4. l \in Scheds
        BY <1>1 DEF Scheds
  <1>5. l.requested = n /\ l.completed = sched.completed /\ l.failed = sched.failed
        BY <1>1 DEF Scheds
  <1>6. runner' = runner \/ \E r \in Drains : Go(r, "pass")
        BY DEF Request
  <1>. HIDE DEF l
  <1>. QED  BY <1>2, <1>3, <1>4, <1>5, <1>6

-----------------------------------------------------------------------------
(* What each step does to the callers *)

(* The callers lose what they asked for and nothing else, *)
LEMMA SettledLoses ==
    ASSUME TypeOK, NEW ms \in SUBSET Msgs, Settled(ms)
    PROVE  /\ client' \in [Clients -> Callers]
           /\ \A c \in Clients : /\ client'[c].at = client[c].at
                                /\ client'[c].gen = client[c].gen
                                /\ client'[c].asked = client[c].asked \ ms
  <1>1. ASSUME NEW c \in Clients
        PROVE  /\ client'[c] \in Callers /\ client'[c].at = client[c].at
               /\ client'[c].gen = client[c].gen
               /\ client'[c].asked = client[c].asked \ ms
    <2>1. client'[c] = [client[c] EXCEPT !.asked = client[c].asked \ ms]
          BY DEF Settled
    <2>2. client[c] \in Callers
          BY DEF TypeOK
    <2>. QED  BY <2>1, <2>2 DEF Callers
  <1>2. client' \in [Clients -> Callers]
        BY <1>1 DEF Settled
  <1>. QED  BY <1>1, <1>2

(* are told,                                                                *)
LEMMA NotifyTells ==
    ASSUME TypeOK, client' = Notify(client)
    PROVE  /\ client' \in [Clients -> Callers]
           /\ \A c \in Clients : /\ client'[c].at = client[c].at
                                /\ client'[c].gen = client[c].gen
                                /\ client'[c].asked = client[c].asked
  <1>1. ASSUME NEW c \in Clients
        PROVE  /\ client'[c] \in Callers /\ client'[c].at = client[c].at
               /\ client'[c].gen = client[c].gen
               /\ client'[c].asked = client[c].asked
    <2>1. client'[c] = client[c] \/ client'[c] = [client[c] EXCEPT !.woken = TRUE]
          BY DEF Notify
    <2>2. client[c] \in Callers
          BY DEF TypeOK
    <2>3. CASE client'[c] = client[c]
          BY <2>2, <2>3 DEF Callers
    <2>4. CASE client'[c] = [client[c] EXCEPT !.woken = TRUE]
          BY <2>2, <2>4 DEF Callers
    <2>. QED  BY <2>1, <2>3, <2>4
  <1>2. client' \in [Clients -> Callers]
        BY <1>1 DEF Notify
  <1>. QED  BY <1>1, <1>2

(* ask,                                                                     *)
LEMMA AskTurns ==
    ASSUME TypeOK, NEW c \in Clients, KickAndWait(c)
    PROVE  /\ client' \in [Clients -> Callers]
           /\ \A d \in Clients \ {c} : client'[d] = client[d]
           /\ client'[c].at = "register" /\ client'[c].asked = Pending
           /\ client'[c].gen = sched.requested + 1
  <1>1. PICK p : p = Pending
        OBVIOUS
  <1>. DEFINE l == [NoWait EXCEPT !.at = "register", !.gen = sched.requested + 1, !.asked = p]
  <1>2. client' = [client EXCEPT ![c] = l]
        BY <1>1 DEF KickAndWait
  <1>3. p \in SUBSET Msgs /\ sched.requested + 1 \in Nat /\ client \in [Clients -> Callers]
        BY <1>1 DEF Pending, TypeOK, Scheds
  <1>4. /\ l \in Callers /\ l.at = "register" /\ l.asked = p
        /\ l.gen = sched.requested + 1
        BY <1>3 DEF NoWait, Callers, Waits
  <1>. HIDE DEF l
  <1>. QED  BY <1>1, <1>2, <1>3, <1>4

(* or wait: only one that finds its request completed is answered.          *)
LEMMA WaitTurns ==
    ASSUME TypeOK, NEW c \in Clients, Waiting(c)
    PROVE  /\ client' \in [Clients -> Callers]
           /\ \A d \in Clients \ {c} : client'[d] = client[d]
           /\ client'[c].gen = client[c].gen /\ client'[c].asked = client[c].asked
           /\ client'[c].at = "ok" => /\ sched.completed >= client[c].gen
                                     /\ sched.failed < client[c].gen
  <1>. DEFINE registers == [client[c] EXCEPT !.at = "check", !.woken = FALSE]
              waits     == [client[c] EXCEPT !.at = "drowsy"]
              failed    == [client[c] EXCEPT !.at = "failed", !.woken = FALSE]
              answered  == [client[c] EXCEPT !.at = "ok", !.woken = FALSE]
              sleeps    == [client[c] EXCEPT !.at = "sleep"]
              wakes     == [client[c] EXCEPT !.at = "register"]
              same(l)   == /\ l \in Callers /\ l.gen = client[c].gen
                           /\ l.asked = client[c].asked
              stays(l)  == same(l) /\ l.at # "ok"
              steps(l)  == client' = [client EXCEPT ![c] = l]
  <1>1. client \in [Clients -> Callers] /\ client[c] \in Callers
        BY DEF TypeOK
  <1>2. sched.completed \in Nat /\ sched.failed \in Nat /\ client[c].gen \in Nat
        BY <1>1 DEF TypeOK, Scheds, Callers
  <1>3. stays(registers)
        BY <1>1 DEF Callers, Waits
  <1>4. stays(waits)
        BY <1>1 DEF Callers, Waits
  <1>5. stays(failed)
        BY <1>1 DEF Callers, Waits
  <1>6. stays(sleeps)
        BY <1>1 DEF Callers, Waits
  <1>7. stays(wakes)
        BY <1>1 DEF Callers, Waits
  <1>8. same(answered)
        BY <1>1 DEF Callers, Waits
  <1>9. \/ steps(registers) \/ steps(waits) \/ steps(failed) \/ steps(sleeps) \/ steps(wakes)
        \/ /\ steps(answered)
           /\ ~(sched.completed < client[c].gen) /\ ~(sched.failed >= client[c].gen)
    <2>1. CASE Register(c)
          BY <2>1 DEF Register
    <2>2. CASE Look(c)
      <3>1. CASE sched.completed < client[c].gen
            BY <2>2, <3>1 DEF Look
      <3>2. CASE ~(sched.completed < client[c].gen) /\ sched.failed >= client[c].gen
            BY <2>2, <3>2 DEF Look
      <3>3. CASE ~(sched.completed < client[c].gen) /\ ~(sched.failed >= client[c].gen)
            BY <2>2, <3>3 DEF Look
      <3>. QED  BY <3>1, <3>2, <3>3
    <2>3. CASE Sleep(c)
          BY <2>3 DEF Sleep, Sleeps
    <2>4. CASE Wake(c)
          BY <2>4 DEF Wake
    <2>. QED  BY <2>1, <2>2, <2>3, <2>4 DEF Waiting
  <1>. HIDE DEF registers, waits, failed, answered, sleeps, wakes
  <1>10. ASSUME NEW l, same(l), steps(l)
         PROVE  /\ client' \in [Clients -> Callers] /\ client'[c] = l
                /\ \A d \in Clients \ {c} : client'[d] = client[d]
         BY <1>1, <1>10
  <1>11. ASSUME NEW l, stays(l), steps(l)
         PROVE  /\ client' \in [Clients -> Callers] /\ client'[c].at # "ok"
                /\ \A d \in Clients \ {c} : client'[d] = client[d]
                /\ client'[c].gen = client[c].gen /\ client'[c].asked = client[c].asked
         BY <1>10, <1>11
  <1>12. CASE /\ steps(answered)
              /\ ~(sched.completed < client[c].gen) /\ ~(sched.failed >= client[c].gen)
    <2>1. sched.completed >= client[c].gen /\ sched.failed < client[c].gen
          BY <1>2, <1>12
    <2>. QED  BY <1>8, <1>10, <1>12, <2>1
  <1>. QED  BY <1>3, <1>4, <1>5, <1>6, <1>7, <1>9, <1>11, <1>12

-----------------------------------------------------------------------------
(* What each step does to the messages and to the claim *)

(* The decisions of the user stay, and those of the model rest on what is   *)
(* stored.                                                                  *)
Judged == /\ mail' \in [Msgs -> Messages] /\ meta' \in Metas
          /\ KeepsUser /\ NoStaleCategory'

LEMMA NothingJudged ==
    ASSUME TypeOK, NoStaleCategory, UNCHANGED mail,
           meta' \in Metas, meta'.rev = meta.rev
    PROVE  Judged /\ Pending' = Pending
  BY DEF TypeOK, NoStaleCategory, Judged, KeepsUser, Pending

(* A claim with another revision makes what the model decided pending.      *)
LEMMA ClaimJudges ==
    ASSUME ClassificationAssumption, TypeOK, NoStaleCategory, NEW r \in Runners, Claim(r)
    PROVE  Judged /\ Pending \subseteq Pending'
  <1>. DEFINE o == Owner(r)
              new == Revision[o] # meta.rev
  <1>1. CASE ~Claimable(o)
    <2>1. mail' = mail /\ meta' = meta
          BY <1>1 DEF Claim
    <2>. QED  BY <2>1, NothingJudged DEF TypeOK
  <1>2. CASE Claimable(o)
    <2>1. /\ meta' = [owner |-> o, active |-> TRUE, rev |-> Revision[o]]
          /\ mail' = [m \in Msgs |-> IF new /\ mail[m].by = "model"
                        THEN [mail[m] EXCEPT !.by = "nobody", !.on = Undecided]
                        ELSE mail[m]]
          BY <1>2 DEF Claim
    <2>2. o \in Owners /\ Revision[o] \in Nat \ {0}
          BY Revisions
    <2>3. meta' \in Metas /\ meta'.rev = Revision[o]
          BY <2>1, <2>2 DEF Metas
    <2>. HIDE DEF o
    <2>4. ASSUME NEW m \in Msgs
          PROVE  /\ mail'[m] \in Messages
                 /\ mail[m].by = "user" => mail'[m].by = "user"
                 /\ mail[m].by = "nobody" => mail'[m].by = "nobody"
                 /\ mail'[m].by = "model" =>
                       mail'[m].on = [ev |-> mail'[m].ev, known |-> mail'[m].known,
                                      rev |-> Revision[o]]
      <3>1. mail[m] \in Messages
            BY DEF TypeOK
      <3>2. CASE new /\ mail[m].by = "model"
        <4>1. PICK none \in Decisions : none = Undecided
              BY DEF Undecided, Decisions
        <4>2. mail'[m] = [mail[m] EXCEPT !.by = "nobody", !.on = none]
              BY <2>1, <3>2, <4>1
        <4>3. mail'[m] \in Messages /\ mail'[m].by = "nobody"
              BY <3>1, <4>2 DEF Messages
        <4>. QED  BY <3>2, <4>3
      <3>3. CASE ~(new /\ mail[m].by = "model")
        <4>1. mail'[m] = mail[m]
              BY <2>1, <3>3
        <4>. QED  BY <3>1, <3>3, <4>1 DEF NoStaleCategory
      <3>. QED  BY <3>2, <3>3
    <2>. QED  BY <2>1, <2>3, <2>4 DEF Judged, KeepsUser, NoStaleCategory, Pending
  <1>. QED  BY <1>1, <1>2

(* What applies is still what was judged.                                   *)
LEMMA ApplyJudges ==
    ASSUME ClassificationAssumption, TypeOK, NoStaleCategory, NEW r \in Runners, Apply(r)
    PROVE  /\ Judged
           /\ Pending \ {m \in runner[r].batch : Applies(r, m)} \subseteq Pending'
  <1>. DEFINE done == {m \in runner[r].batch : Applies(r, m)}
              rests(m) == [ev |-> runner[r].ev[m], known |-> m \in runner[r].known,
                           rev |-> Revision[Owner(r)]]
  <1>1. /\ meta' = meta
        /\ mail' = [m \in Msgs |-> IF m \in done
                      THEN [mail[m] EXCEPT !.by = "model", !.on = rests(m)] ELSE mail[m]]
        BY DEF Apply
  <1>2. ASSUME NEW m \in Msgs
        PROVE  /\ mail'[m] \in Messages
               /\ mail[m].by = "user" => mail'[m].by = "user"
               /\ mail[m].by = "nobody" /\ m \notin done => mail'[m].by = "nobody"
               /\ mail'[m].by = "model" =>
                     mail'[m].on = [ev |-> mail'[m].ev, known |-> mail'[m].known,
                                    rev |-> meta'.rev]
    <2>1. mail[m] \in Messages
          BY DEF TypeOK
    <2>2. CASE m \in done
      <3>1. /\ mail[m].ev = runner[r].ev[m] /\ mail[m].known = (m \in runner[r].known)
            /\ meta.rev = Revision[Owner(r)] /\ mail[m].by # "user"
            BY <2>2 DEF Applies
      <3>2. rests(m) = [ev |-> mail[m].ev, known |-> mail[m].known, rev |-> meta.rev]
            BY <3>1
      <3>3. meta.rev \in Nat
            BY DEF TypeOK, Metas
      <3>4. PICK d \in Decisions :
               d = [ev |-> mail[m].ev, known |-> mail[m].known, rev |-> meta.rev]
            BY <2>1, <3>3 DEF Messages, Decisions
      <3>5. mail'[m] = [mail[m] EXCEPT !.by = "model", !.on = d]
            BY <1>1, <2>2, <3>2, <3>4
      <3>6. /\ mail'[m] \in Messages /\ mail'[m].on = d
            /\ mail'[m].ev = mail[m].ev /\ mail'[m].known = mail[m].known
            BY <2>1, <3>5 DEF Messages
      <3>. QED  BY <1>1, <2>2, <3>1, <3>4, <3>6
    <2>3. CASE m \notin done
      <3>1. mail'[m] = mail[m]
            BY <1>1, <2>3
      <3>. QED  BY <1>1, <2>1, <2>3, <3>1 DEF NoStaleCategory
    <2>. QED  BY <2>2, <2>3
  <1>3. meta' \in Metas
        BY <1>1 DEF TypeOK
  <1>. HIDE DEF done
  <1>4. mail' \in [Msgs -> Messages]
        BY <1>1, <1>2
  <1>5. Pending \ done \subseteq Pending'
        BY <1>2 DEF Pending
  <1>. QED  BY <1>2, <1>3, <1>4, <1>5 DEF Judged, KeepsUser, NoStaleCategory, done

(* The releases and the clock leave the revision.                           *)
LEMMA ReleaseJudges ==
    ASSUME TypeOK, NoStaleCategory, NEW r \in Runners, Release(r)
    PROVE  Judged /\ Pending' = Pending
  <1>1. meta \in Metas
        BY DEF TypeOK
  <1>2. meta' = meta \/ meta' = [meta EXCEPT !.owner = NoOwner, !.active = FALSE]
        BY DEF Release
  <1>3. meta' \in Metas /\ meta'.rev = meta.rev
        BY <1>1, <1>2 DEF Metas
  <1>. QED  BY <1>3, NothingJudged DEF Release

LEMMA LapseJudges ==
    ASSUME TypeOK, NoStaleCategory, Lapse
    PROVE  Judged /\ Pending' = Pending
  <1>1. meta' \in Metas /\ meta'.rev = meta.rev
        BY DEF TypeOK, Metas, Lapse
  <1>. QED  BY <1>1, NothingJudged DEF Lapse

(* A message alone is judged by nobody or by the user, or as it was.        *)
LEMMA OneJudged ==
    ASSUME TypeOK, NoStaleCategory, NEW m \in Msgs, NEW x \in Messages,
           mail' = [mail EXCEPT ![m] = x], UNCHANGED meta,
           x.by # "model", mail[m].by = "user" => x.by = "user"
    PROVE  /\ Judged /\ Pending \ {m} \subseteq Pending'
           /\ (mail[m].by = "nobody" => x.by = "nobody") => Pending \subseteq Pending'
  BY DEF TypeOK, NoStaleCategory, Judged, KeepsUser, Pending

LEMMA MessageJudges ==
    ASSUME TypeOK, NoStaleCategory, NEW m \in Msgs,
           Arrive(m) \/ Categorise(m) \/ NewEvidence(m) \/ Correspond(m)
    PROVE  /\ Judged /\ Pending \ {m} \subseteq Pending'
           /\ Arrive(m) => Pending \subseteq Pending'
  <1>. DEFINE at(x) == mail' = [mail EXCEPT ![m] = x] /\ UNCHANGED meta
              by    == IF mail[m].by = "model" THEN "nobody" ELSE mail[m].by
  <1>1. mail \in [Msgs -> Messages] /\ mail[m] \in Messages
        BY DEF TypeOK
  <1>2. PICK none \in Decisions : none = Undecided
        BY DEF Undecided, Decisions
  <1>3. by \in {"absent", "nobody", "user"} /\ (mail[m].by = "user" => by = "user")
        BY <1>1 DEF Messages
  <1>4. CASE Arrive(m)
    <2>. DEFINE x == [mail[m] EXCEPT !.by = "nobody"]
    <2>1. at(x) /\ mail[m].by = "absent"
          BY <1>4 DEF Arrive
    <2>2. x \in Messages /\ x.by = "nobody"
          BY <1>1 DEF Messages
    <2>. HIDE DEF x
    <2>. QED  BY <2>1, <2>2, OneJudged
  <1>5. CASE Categorise(m)
    <2>. DEFINE x == [mail[m] EXCEPT !.by = "user", !.on = none]
    <2>1. at(x) /\ mail[m].by # "absent"
          BY <1>1, <1>2, <1>5 DEF Categorise
    <2>2. x \in Messages /\ x.by = "user"
          BY <1>1 DEF Messages
    <2>. HIDE DEF x
    <2>. QED  BY <2>1, <2>2, OneJudged DEF Arrive
  <1>6. CASE NewEvidence(m)
    <2>1. PICK n \in Nat : n = mail[m].ev + 1
          BY <1>1 DEF Messages
    <2>. DEFINE x == [mail[m] EXCEPT !.ev = n, !.by = by, !.on = none]
    <2>2. at(x) /\ mail[m].by # "absent"
          BY <1>1, <1>2, <1>6, <2>1 DEF NewEvidence
    <2>. HIDE DEF by
    <2>3. x \in Messages /\ x.by = by
          BY <1>1, <1>3 DEF Messages
    <2>. HIDE DEF x
    <2>. QED  BY <1>3, <2>2, <2>3, OneJudged DEF Arrive
  <1>7. CASE Correspond(m)
    <2>. DEFINE x == [mail[m] EXCEPT !.known = TRUE, !.by = by, !.on = none]
    <2>1. at(x) /\ mail[m].by # "absent"
          BY <1>1, <1>2, <1>7 DEF Correspond
    <2>. HIDE DEF by
    <2>2. x \in Messages /\ x.by = by
          BY <1>1, <1>3 DEF Messages
    <2>. HIDE DEF x
    <2>. QED  BY <1>3, <2>1, <2>2, OneJudged DEF Arrive
  <1>. QED  BY <1>4, <1>5, <1>6, <1>7

-----------------------------------------------------------------------------
(* What survives a step that is not one's own *)

(* The callers keep their requests, or make new ones. *)
Steady ==
    \A c \in Clients :
       \/ client'[c].gen = client[c].gen /\ client'[c].asked \subseteq client[c].asked
       \/ client'[c].gen > sched.requested

(* A drain that does not move stays ready,                                  *)
LEMMA ReadyStays ==
    ASSUME TypeOK, NEW x \in Runners, Ready(x), runner'[x] = runner[x],
           sched' \in Scheds, sched'.requested >= sched.requested,
           client' \in [Clients -> Callers], Steady
    PROVE  Ready(x)'
  <1>1. /\ runner[x].gen \in Nat /\ sched.requested \in Nat /\ sched'.requested \in Nat
        BY DEF TypeOK, Locals, Scheds
  <1>2. ASSUME NEW c \in Clients, client'[c].gen <= runner[x].gen
        PROVE  client[c].gen <= runner[x].gen /\ client'[c].asked \subseteq client[c].asked
    <2>1. client'[c].gen \in Nat /\ runner[x].gen <= sched.requested
          BY DEF Callers, Ready
    <2>2. ~(client'[c].gen > sched.requested)
          BY <1>1, <1>2, <2>1
    <2>. QED  BY <1>2, <2>2 DEF Steady
  <1>3. runner'[x].gen <= sched'.requested
        BY <1>1 DEF Ready
  <1>4. Placed(x)'
        BY DEF Ready, Placed
  <1>5. LastBatch(x)'
        BY <1>2 DEF Ready, LastBatch, Before
  <1>6. PassEnds(x)'
        BY <1>2 DEF Ready, PassEnds, Before
  <1>. QED  BY <1>3, <1>4, <1>5, <1>6 DEF Ready

(* one that has no batch and does not end a pass is,                        *)
LEMMA ReadyAnew ==
    ASSUME NEW x \in Runners, runner'[x].gen <= sched'.requested,
           runner'[x].at \notin Judging \cup {"finish"},
           x \in Clis => runner'[x].at \notin {"pass", "fail"}
    PROVE  Ready(x)'
  BY DEF Ready, Placed, LastBatch, PassEnds, Judging

(* and one that keeps its batch.                                            *)
LEMMA ReadyOnward ==
    ASSUME TypeOK, NEW x \in Runners, Ready(x),
           runner[x].at \in Judging, runner'[x].at \in Judging,
           runner'[x].gen = runner[x].gen, runner'[x].batch = runner[x].batch,
           UNCHANGED <<sched, client>>
    PROVE  Ready(x)'
  <1>1. runner'[x].gen <= sched'.requested
        BY DEF Ready
  <1>2. LastBatch(x)'
        BY DEF Ready, LastBatch, Before
  <1>3. Placed(x)' /\ PassEnds(x)'
        BY DEF Placed, PassEnds, Judging
  <1>. QED  BY <1>1, <1>2, <1>3 DEF Ready

LEMMA RetryReady ==
    ASSUME ClassificationAssumption, TypeOK, NEW x \in Runners, Ready(x), Retry(x),
           UNCHANGED sched
    PROVE  Ready(x)'
  <1>1. /\ runner'[x].at \in {"release", "claim", "fail"}
        /\ x \in Clis => runner'[x].at = "release"
        /\ runner'[x].gen \in {0, runner[x].gen}
        BY RetryTurns
  <1>2. runner'[x].gen <= sched'.requested
        BY <1>1 DEF Ready, TypeOK, Scheds
  <1>. QED  BY <1>1, <1>2, ReadyAnew DEF Judging

(* A caller is served as before while the scheduler tells nothing.          *)
LEMMA ServedStays ==
    ASSUME NEW c \in Clients, Served(c),
           client'[c].gen = client[c].gen, client'[c].at = client[c].at,
           client'[c].asked \subseteq client[c].asked, client'[c].asked \subseteq Pending',
           sched'.completed = sched.completed, sched'.failed = sched.failed
    PROVE  Served(c)'
  BY DEF Served

(* The step of one drain that tells nothing and keeps what is pending.      *)
LEMMA QuietStep ==
    ASSUME TypeOK, Complete, NEW r \in Runners, NEW places, Moves(r, places), Ready(r)',
           Pending \subseteq Pending', UNCHANGED <<sched, client>>
    PROVE  Complete'
  <1>1. /\ client' \in [Clients -> Callers] /\ sched' \in Scheds /\ Steady
        /\ sched'.requested >= sched.requested
        BY DEF TypeOK, Steady, Scheds
  <1>2. ASSUME NEW x \in Runners PROVE Ready(x)'
    <2>1. CASE x = r
          BY <2>1
    <2>2. CASE x # r
          BY <1>1, <2>2, ReadyStays DEF Moves, Complete
    <2>. QED  BY <2>1, <2>2
  <1>3. ASSUME NEW c \in Clients PROVE Served(c)'
    <2>1. Served(c) /\ client[c].asked \subseteq Pending'
          BY DEF Complete, Served
    <2>. QED  BY <2>1, ServedStays
  <1>. QED  BY <1>2, <1>3 DEF Complete

-----------------------------------------------------------------------------
(* Every step keeps the invariant *)

IInv == TypeOK /\ NoStaleCategory /\ Complete

Kept == /\ Judged /\ Complete' /\ sched' \in Scheds /\ events' \in Nat
        /\ runner' \in [Runners -> Locals] /\ client' \in [Clients -> Callers]

(* A step that leaves the messages, the claim and the scheduler alone.      *)
LEMMA TypesStay ==
    ASSUME TypeOK, NoStaleCategory, UNCHANGED <<mail, meta, sched>>
    PROVE  Judged /\ Pending' = Pending /\ sched' \in Scheds
  <1>1. meta' \in Metas /\ meta'.rev = meta.rev /\ sched' \in Scheds
        BY DEF TypeOK
  <1>. QED  BY <1>1, NothingJudged

(* An event is counted.                                                     *)
LEMMA EventCounts == ASSUME TypeOK, Event PROVE events' \in Nat
  BY DEF TypeOK, Event

(* A request, of a caller or of none, is ahead of every pass.               *)
LEMMA RequestKeeps ==
    ASSUME ClassificationAssumption, IInv, Request, UNCHANGED <<mail, meta, events>>,
           client' \in [Clients -> Callers],
           \A c \in Clients : \/ client'[c] = client[c]
                            \/ /\ client'[c].gen = sched.requested + 1
                               /\ client'[c].asked = Pending /\ client'[c].at # "ok"
    PROVE  Kept
  <1>1. /\ TypeOK /\ NoStaleCategory /\ Complete /\ runner \in [Runners -> Locals]
        /\ sched.requested \in Nat /\ sched.completed \in Nat /\ sched.failed \in Nat
        BY DEF IInv, TypeOK, Scheds
  <1>2. /\ sched'.requested = sched.requested + 1 /\ sched' \in Scheds
        /\ sched'.completed = sched.completed /\ sched'.failed = sched.failed
        /\ runner' = runner \/ \E r \in Drains : Go(r, "pass")
        BY <1>1, RequestTurns
  <1>3. Judged /\ Pending' = Pending /\ events' \in Nat
    <2>1. meta' \in Metas /\ meta'.rev = meta.rev /\ events' \in Nat
          BY <1>1 DEF TypeOK
    <2>. QED  BY <1>1, <2>1, NothingJudged
  <1>4. Steady /\ sched'.requested >= sched.requested
        BY <1>1, <1>2 DEF Steady
  <1>5. /\ runner' \in [Runners -> Locals]
        /\ \A x \in Runners : \/ runner'[x] = runner[x]
                             \/ /\ x \in Drains /\ runner'[x].at = "pass"
                                /\ runner'[x].gen = runner[x].gen
    <2>1. CASE runner' = runner
          BY <1>1, <2>1
    <2>2. ASSUME NEW r \in Drains, Go(r, "pass")
          PROVE  /\ runner' \in [Runners -> Locals]
                 /\ \A x \in Runners \ {r} : runner'[x] = runner[x]
                 /\ runner'[r].at = "pass" /\ runner'[r].gen = runner[r].gen
          BY <1>1, <2>2, GoTurns DEF Runners, Places
    <2>. QED  BY <1>2, <2>1, <2>2
  <1>6. ASSUME NEW x \in Runners PROVE Ready(x)'
    <2>1. Ready(x)
          BY <1>1 DEF Complete
    <2>2. CASE runner'[x] = runner[x]
          BY <1>1, <1>2, <1>4, <2>1, <2>2, ReadyStays
    <2>3. CASE x \in Drains /\ runner'[x].at = "pass" /\ runner'[x].gen = runner[x].gen
      <3>1. x \notin Clis
            BY <2>3 DEF ClassificationAssumption
      <3>2. runner'[x].gen <= sched'.requested
            BY <1>1, <1>2, <2>1, <2>3 DEF Ready, Locals
      <3>. QED  BY <2>3, <3>1, <3>2, ReadyAnew DEF Judging
    <2>. QED  BY <1>5, <2>2, <2>3
  <1>7. ASSUME NEW c \in Clients PROVE Served(c)'
    <2>1. Served(c) /\ sched.completed <= sched.requested
          BY <1>1 DEF Complete
    <2>2. CASE client'[c] = client[c]
          BY <1>2, <1>3, <2>1, <2>2 DEF Served
    <2>3. CASE /\ client'[c].gen = sched.requested + 1
               /\ client'[c].asked = Pending /\ client'[c].at # "ok"
      <3>1. ~(sched'.completed >= client'[c].gen)
            BY <1>1, <1>2, <2>1, <2>3
      <3>. QED  BY <1>3, <2>3, <3>1 DEF Served
    <2>. QED  BY <2>2, <2>3
  <1>8. sched'.completed <= sched'.requested
        BY <1>1, <1>2 DEF Complete
  <1>. QED  BY <1>2, <1>3, <1>5, <1>6, <1>7, <1>8 DEF Kept, Complete

LEMMA KickKeeps ==
    ASSUME ClassificationAssumption, IInv, Kick
    PROVE  Kept
  BY RequestKeeps DEF Kick, IInv, TypeOK

LEMMA AskKeeps ==
    ASSUME ClassificationAssumption, IInv, NEW c \in Clients, KickAndWait(c)
    PROVE  Kept
  <1>1. /\ client' \in [Clients -> Callers]
        /\ \A d \in Clients \ {c} : client'[d] = client[d]
        /\ client'[c].at = "register" /\ client'[c].asked = Pending
        /\ client'[c].gen = sched.requested + 1
        BY AskTurns DEF IInv
  <1>2. Request /\ UNCHANGED <<mail, meta, events>>
        BY DEF KickAndWait
  <1>. QED  BY <1>1, <1>2, RequestKeeps

(* A caller that waits is answered only what the scheduler was told.        *)
LEMMA WaitKeeps ==
    ASSUME ClassificationAssumption, IInv, NEW c \in Clients, Waiting(c)
    PROVE  Kept
  <1>1. /\ client' \in [Clients -> Callers]
        /\ \A d \in Clients \ {c} : client'[d] = client[d]
        /\ client'[c].gen = client[c].gen /\ client'[c].asked = client[c].asked
        /\ client'[c].at = "ok" => /\ sched.completed >= client[c].gen
                                  /\ sched.failed < client[c].gen
        BY WaitTurns DEF IInv
  <1>2. UNCHANGED <<mail, meta, sched, runner, events>>
        BY DEF Waiting, Register, Look, Sleep, Wake
  <1>3. /\ TypeOK /\ NoStaleCategory /\ Complete
        /\ events' \in Nat /\ runner' \in [Runners -> Locals]
        BY <1>2 DEF IInv, TypeOK
  <1>4. Judged /\ Pending' = Pending /\ sched' \in Scheds
        BY <1>2, <1>3, TypesStay
  <1>5. Steady /\ sched'.requested >= sched.requested
        BY <1>1, <1>2, <1>3 DEF Steady, TypeOK, Scheds
  <1>6. ASSUME NEW x \in Runners PROVE Ready(x)'
        BY <1>1, <1>2, <1>3, <1>4, <1>5, ReadyStays DEF Complete
  <1>7. ASSUME NEW d \in Clients PROVE Served(d)'
    <2>1. Served(d)
          BY <1>3 DEF Complete
    <2>. QED  BY <1>1, <1>2, <1>4, <2>1 DEF Served
  <1>8. sched'.completed <= sched'.requested
        BY <1>2, <1>3 DEF Complete
  <1>. QED  BY <1>1, <1>3, <1>4, <1>6, <1>7, <1>8 DEF Kept, Complete

(* The steps of a drain up to its decision.                                 *)
LEMMA DrainKeeps ==
    ASSUME ClassificationAssumption, IInv, NEW r \in Runners,
           Judged, Pending \subseteq Pending', events' \in Nat, UNCHANGED <<sched, client>>,
           NEW places, Moves(r, places), Ready(r)'
    PROVE  Kept
  <1>1. Complete'
        BY QuietStep DEF IInv
  <1>. QED  BY <1>1 DEF IInv, TypeOK, Kept, Moves

LEMMA RetryMoves ==
    ASSUME ClassificationAssumption, IInv, NEW r \in Runners, Retry(r), UNCHANGED sched
    PROVE  Moves(r, {"release", "claim", "fail"}) /\ Ready(r)'
  BY RetryTurns, RetryReady DEF Moves, IInv, Complete

LEMMA PassKeeps ==
    ASSUME ClassificationAssumption, IInv, NEW r \in Runners, Pass(r)
    PROVE  Kept
  <1>1. Moves(r, {"claim"}) /\ runner'[r].gen = sched.requested
        BY PassTurns DEF IInv
  <1>2. UNCHANGED <<mail, meta, sched, client, events>> /\ TypeOK /\ NoStaleCategory
        BY DEF Pass, IInv
  <1>3. Ready(r)'
        BY <1>1, <1>2, ReadyAnew DEF Moves, Judging, TypeOK, Scheds
  <1>. QED  BY <1>1, <1>2, <1>3, TypesStay, DrainKeeps DEF TypeOK

LEMMA ClaimKeeps ==
    ASSUME ClassificationAssumption, IInv, NEW r \in Runners, Claim(r)
    PROVE  Kept
  <1>1. Judged /\ Pending \subseteq Pending'
        BY ClaimJudges DEF IInv
  <1>2. UNCHANGED <<sched, client, events>> /\ events' \in Nat
        BY DEF Claim, IInv, TypeOK
  <1>3. CASE Retry(r)
        BY <1>1, <1>2, <1>3, RetryMoves, DrainKeeps
  <1>4. CASE Go(r, "select")
    <2>1. Moves(r, {"select"}) /\ runner'[r].gen = runner[r].gen
          BY <1>4, GoTurns DEF IInv, TypeOK, Moves, Places, Passing
    <2>2. Ready(r)'
          BY <1>2, <2>1, ReadyAnew DEF Moves, Judging, IInv, Complete, Ready
    <2>. QED  BY <1>1, <1>2, <2>1, <2>2, DrainKeeps
  <1>. QED  BY <1>3, <1>4 DEF Claim

LEMMA SelectKeeps ==
    ASSUME ClassificationAssumption, IInv, NEW r \in Runners, Select(r)
    PROVE  Kept
  <1>1. /\ Moves(r, {"known", "release", "finish"})
        /\ runner'[r].gen = runner[r].gen
        /\ runner'[r].at = "known" =>
              (r \in Drains /\ Cardinality(runner'[r].batch) # BatchSize =>
                  runner'[r].batch = Pending)
        /\ runner'[r].at = "finish" => r \notin Clis /\ Pending = {}
        BY SelectTurns DEF IInv
  <1>2. UNCHANGED <<mail, meta, sched, client, events>> /\ TypeOK /\ NoStaleCategory
        BY DEF Select, IInv
  <1>3. \A c \in Clients : client'[c].asked \subseteq Pending
        BY <1>2 DEF IInv, Complete, Served
  <1>4. runner'[r].gen <= sched'.requested
        BY <1>1, <1>2 DEF IInv, Complete, Ready
  <1>5. CASE runner'[r].at = "known"
    <2>1. LastBatch(r)'
          BY <1>1, <1>3, <1>5 DEF LastBatch, Before
    <2>2. PassEnds(r)' /\ Placed(r)'
          BY <1>5 DEF PassEnds, Placed
    <2>. QED  BY <1>1, <1>2, <1>4, <2>1, <2>2, TypesStay, DrainKeeps DEF Ready, TypeOK
  <1>6. CASE runner'[r].at = "release"
    <2>1. Ready(r)'
          BY <1>4, <1>6, ReadyAnew DEF Judging
    <2>. QED  BY <1>1, <1>2, <2>1, TypesStay, DrainKeeps DEF TypeOK
  <1>7. CASE runner'[r].at = "finish"
    <2>1. PassEnds(r)'
          BY <1>1, <1>3, <1>7 DEF PassEnds, Before
    <2>2. LastBatch(r)' /\ Placed(r)'
          BY <1>1, <1>7 DEF LastBatch, Placed, Judging
    <2>. QED  BY <1>1, <1>2, <1>4, <2>1, <2>2, TypesStay, DrainKeeps DEF Ready, TypeOK
  <1>. QED  BY <1>1, <1>5, <1>6, <1>7 DEF Moves

LEMMA KnownKeeps ==
    ASSUME ClassificationAssumption, IInv, NEW r \in Runners, Known(r)
    PROVE  Kept
  <1>1. /\ Moves(r, {"infer"}) /\ runner[r].at = "known"
        /\ runner'[r].gen = runner[r].gen /\ runner'[r].batch = runner[r].batch
        BY KnownTurns DEF IInv
  <1>2. UNCHANGED <<mail, meta, sched, client, events>> /\ TypeOK /\ NoStaleCategory
        BY DEF Known, IInv
  <1>3. Ready(r)'
        BY <1>1, <1>2, ReadyOnward DEF Moves, Judging, IInv, Complete
  <1>. QED  BY <1>1, <1>2, <1>3, TypesStay, DrainKeeps DEF TypeOK

LEMMA InferKeeps ==
    ASSUME ClassificationAssumption, IInv, NEW r \in Runners, Infer(r)
    PROVE  Kept
  <1>1. UNCHANGED <<mail, meta, sched, client>> /\ TypeOK /\ NoStaleCategory
        BY DEF Infer, IInv
  <1>2. events' \in Nat
        BY <1>1, EventCounts DEF Infer, TypeOK
  <1>3. CASE Retry(r)
        BY <1>1, <1>2, <1>3, RetryMoves, TypesStay, DrainKeeps
  <1>4. CASE /\ Moves(r, {"apply"}) /\ runner[r].at = "infer"
             /\ runner'[r].gen = runner[r].gen /\ runner'[r].batch = runner[r].batch
    <2>1. Ready(r)'
          BY <1>1, <1>4, ReadyOnward DEF Moves, Judging, IInv, Complete
    <2>. QED  BY <1>1, <1>2, <1>4, <2>1, TypesStay, DrainKeeps
  <1>. QED  BY <1>1, <1>3, <1>4, InferTurns

(* A step that settles what it takes from what is pending.                  *)
LEMMA SettledKeeps ==
    ASSUME ClassificationAssumption, IInv, NEW ms \in SUBSET Msgs, Settled(ms),
           Pending \ ms \subseteq Pending', UNCHANGED sched
    PROVE  /\ client' \in [Clients -> Callers] /\ Steady /\ sched' \in Scheds
           /\ sched'.requested >= sched.requested
           /\ \A c \in Clients : /\ Served(c)' /\ client'[c].gen = client[c].gen
                                /\ client'[c].asked = client[c].asked \ ms
  <1>1. TypeOK /\ Complete
        BY DEF IInv
  <1>2. /\ client' \in [Clients -> Callers]
        /\ \A c \in Clients : /\ client'[c].at = client[c].at
                             /\ client'[c].gen = client[c].gen
                             /\ client'[c].asked = client[c].asked \ ms
        BY <1>1, SettledLoses
  <1>3. ASSUME NEW c \in Clients PROVE Served(c)'
    <2>1. Served(c) /\ client[c].asked \subseteq Pending
          BY <1>1 DEF Complete, Served
    <2>. QED  BY <1>2, <2>1, ServedStays
  <1>4. Steady /\ sched' \in Scheds /\ sched'.requested >= sched.requested
        BY <1>1, <1>2 DEF Steady, TypeOK, Scheds
  <1>. QED  BY <1>2, <1>3, <1>4

(* A batch that applied whole and was not full leaves nothing of what the   *)
(* callers of its pass asked for.                                           *)
LEMMA ApplyKeeps ==
    ASSUME ClassificationAssumption, IInv, NEW r \in Runners, Apply(r)
    PROVE  Kept
  <1>. DEFINE done == {m \in runner[r].batch : Applies(r, m)}
  <1>1. /\ TypeOK /\ NoStaleCategory /\ Complete /\ Ready(r)
        /\ done \in SUBSET Msgs /\ runner[r].at = "apply"
        BY DEF IInv, Complete, TypeOK, Locals, Apply
  <1>2. Judged /\ Pending \ done \subseteq Pending'
        BY <1>1, ApplyJudges
  <1>3. Settled(done) /\ UNCHANGED <<meta, sched, events>>
        BY DEF Apply
  <1>4. /\ client' \in [Clients -> Callers] /\ Steady /\ sched' \in Scheds
        /\ sched'.requested >= sched.requested
        /\ \A c \in Clients : /\ Served(c)' /\ client'[c].gen = client[c].gen
                             /\ client'[c].asked = client[c].asked \ done
        BY <1>1, <1>2, <1>3, SettledKeeps
  <1>5. PICK places : Moves(r, places) /\ Ready(r)'
    <2>1. CASE done # runner[r].batch
      <3>1. Retry(r)
            BY <2>1 DEF Apply
      <3>. QED  BY <1>3, <3>1, RetryMoves
    <2>2. CASE done = runner[r].batch
      <3>1. /\ Moves(r, {"claim", "pass", "finish"})
            /\ runner'[r].gen = runner[r].gen
            /\ r \in Clis => runner'[r].at = "claim"
            /\ runner'[r].at = "finish" => /\ r \notin Clis
                                           /\ Cardinality(runner[r].batch) # BatchSize
            BY <1>1, <2>2, ApplyTurns
      <3>2. runner'[r].gen <= sched'.requested
            BY <1>1, <1>3, <3>1 DEF Ready
      <3>3. CASE runner'[r].at # "finish"
        <4>1. Ready(r)'
              BY <3>1, <3>2, <3>3, ReadyAnew DEF Moves, Judging
        <4>. QED  BY <3>1, <4>1
      <3>4. CASE runner'[r].at = "finish"
        <4>1. r \in Drains
              BY <3>1, <3>4 DEF Runners
        <4>2. \A c \in Before(runner[r].gen) : client[c].asked \subseteq done
              BY <1>1, <2>2, <3>1, <3>4, <4>1 DEF Ready, LastBatch, Judging
        <4>. HIDE DEF done
        <4>3. PassEnds(r)'
              BY <1>4, <3>1, <4>2 DEF PassEnds, Before
        <4>4. LastBatch(r)' /\ Placed(r)'
              BY <3>1, <3>4 DEF LastBatch, Placed, Judging
        <4>. QED  BY <3>1, <3>2, <4>3, <4>4 DEF Ready
      <3>. QED  BY <3>3, <3>4
    <2>. QED  BY <2>1, <2>2
  <1>6. ASSUME NEW x \in Runners PROVE Ready(x)'
    <2>1. CASE x = r
          BY <1>5, <2>1
    <2>2. CASE x # r
          BY <1>1, <1>4, <1>5, <2>2, ReadyStays DEF Moves, Complete
    <2>. QED  BY <2>1, <2>2
  <1>7. Complete'
        BY <1>1, <1>3, <1>4, <1>6 DEF Complete
  <1>8. events' \in Nat
        BY <1>1, <1>3 DEF TypeOK
  <1>. QED  BY <1>2, <1>4, <1>5, <1>7, <1>8 DEF Kept, Moves

(* The messages change by themselves. *)
LEMMA MessageKeeps ==
    ASSUME ClassificationAssumption, IInv, NEW m \in Msgs,
           Arrive(m) \/ Categorise(m) \/ NewEvidence(m) \/ Correspond(m)
    PROVE  Kept
  <1>1. TypeOK /\ NoStaleCategory /\ Complete
        BY DEF IInv
  <1>2. /\ Judged /\ Pending \ {m} \subseteq Pending'
        /\ Arrive(m) => Pending \subseteq Pending'
        BY <1>1, MessageJudges
  <1>3. UNCHANGED <<sched, runner>> /\ events' \in Nat
        BY <1>1, EventCounts DEF Arrive, Categorise, NewEvidence, Correspond, TypeOK
  <1>4. /\ client' \in [Clients -> Callers] /\ Steady /\ sched' \in Scheds
        /\ sched'.requested >= sched.requested
        /\ \A c \in Clients : Served(c)'
    <2>1. CASE Arrive(m)
      <3>1. UNCHANGED client
            BY <2>1 DEF Arrive
      <3>2. ASSUME NEW c \in Clients PROVE Served(c)'
            BY <1>1, <1>2, <1>3, <2>1, <3>1, ServedStays DEF Complete, Served
      <3>. QED  BY <1>1, <1>3, <3>1, <3>2 DEF Steady, TypeOK, Scheds
    <2>2. CASE Settled({m})
          BY <1>2, <1>3, <2>2, SettledKeeps
    <2>. QED  BY <2>1, <2>2 DEF Categorise, NewEvidence, Correspond
  <1>5. ASSUME NEW x \in Runners PROVE Ready(x)'
        BY <1>1, <1>3, <1>4, ReadyStays DEF Complete
  <1>6. Complete' /\ runner' \in [Runners -> Locals]
        BY <1>1, <1>3, <1>4, <1>5 DEF Complete, TypeOK
  <1>. QED  BY <1>2, <1>3, <1>4, <1>6 DEF Kept

(* A drain that is told of ends its generation or passes again; one that    *)
(* failed answers nobody.                                                   *)
LEMMA EndKeeps ==
    ASSUME ClassificationAssumption, IInv, NEW r \in Runners, NEW places,
           runner[r].at \in {"finish", "fail"}, UNCHANGED <<mail, meta, events>>,
           Moves(r, places), runner'[r].at \in {"pass", "release"}, runner'[r].gen = 0,
           r \in Clis => runner'[r].at = "release",
           sched' \in Scheds, sched'.requested = sched.requested,
           sched'.completed = runner[r].gen,
           sched'.failed = runner[r].gen \/ runner[r].at = "finish",
           client' = Notify(client)
    PROVE  Kept
  <1>1. /\ TypeOK /\ NoStaleCategory /\ Complete /\ Ready(r)
        /\ sched.requested \in Nat /\ runner[r].gen \in Nat /\ events' \in Nat
        BY DEF IInv, Complete, TypeOK, Scheds, Locals
  <1>2. Judged /\ Pending' = Pending
        BY <1>1, NothingJudged DEF TypeOK
  <1>3. /\ client' \in [Clients -> Callers]
        /\ \A c \in Clients : /\ client'[c].at = client[c].at
                             /\ client'[c].gen = client[c].gen
                             /\ client'[c].asked = client[c].asked
        BY <1>1, NotifyTells
  <1>4. Steady /\ sched'.requested >= sched.requested
        BY <1>1, <1>3 DEF Steady
  <1>5. ASSUME NEW x \in Runners PROVE Ready(x)'
    <2>1. CASE x = r
          BY <1>1, <2>1, ReadyAnew DEF Judging
    <2>2. CASE x # r
          BY <1>1, <1>3, <1>4, <2>2, ReadyStays DEF Moves, Complete
    <2>. QED  BY <2>1, <2>2
  <1>6. ASSUME NEW c \in Clients PROVE Served(c)'
    <2>1. Served(c) /\ client[c].gen \in Nat
          BY <1>1 DEF Complete, TypeOK, Callers
    <2>2. ASSUME runner[r].gen >= client[c].gen, sched'.failed < client[c].gen
          PROVE  client[c].asked = {}
      <3>1. runner[r].at = "finish"
            BY <1>1, <2>1, <2>2
      <3>. QED  BY <1>1, <2>1, <2>2, <3>1 DEF Ready, PassEnds, Before
    <2>. QED  BY <1>2, <1>3, <2>1, <2>2 DEF Served
  <1>7. Complete'
        BY <1>1, <1>5, <1>6 DEF Complete, Ready
  <1>. QED  BY <1>1, <1>2, <1>3, <1>7 DEF Kept, Moves

LEMMA FinishKeeps ==
    ASSUME ClassificationAssumption, IInv, NEW r \in Runners, Finish(r)
    PROVE  Kept
  <1>1. /\ TypeOK /\ NoStaleCategory /\ Complete /\ Ready(r) /\ r \notin Clis
        /\ runner[r].at = "finish" /\ UNCHANGED <<mail, meta, events>>
        /\ runner \in [Runners -> Locals] /\ sched \in Scheds /\ runner[r].gen \in Nat
        BY DEF IInv, Complete, TypeOK, Locals, Finish, Ready, Placed
  <1>2. CASE sched.requested > runner[r].gen
    <2>. DEFINE l == [Rest EXCEPT !.at = "pass"]
    <2>1. Now(r, l) /\ UNCHANGED <<sched, client>>
          BY <1>2 DEF Finish, Completes
    <2>2. l \in Locals /\ l.at = "pass" /\ l.gen = 0
          BY RestTyped DEF Locals, Places, Rest
    <2>. HIDE DEF l
    <2>3. Moves(r, {"pass"}) /\ runner'[r].gen = 0
          BY <1>1, <2>1, <2>2, NowTurns DEF Moves
    <2>4. Ready(r)'
          BY <1>1, <2>1, <2>3, ReadyAnew DEF Moves, Judging, Scheds
    <2>. QED  BY <1>1, <2>1, <2>3, <2>4, TypesStay, DrainKeeps DEF TypeOK
  <1>3. CASE ~(sched.requested > runner[r].gen)
    <2>. DEFINE l == [Rest EXCEPT !.at = "release"]
                s == [sched EXCEPT !.completed = runner[r].gen, !.failed = 0,
                                   !.running = FALSE]
    <2>1. Now(r, l) /\ sched' = s /\ client' = Notify(client)
          BY <1>3 DEF Finish, Completes
    <2>2. l \in Locals /\ l.at = "release" /\ l.gen = 0
          BY RestTyped DEF Locals, Places, Rest
    <2>3. s \in Scheds /\ s.requested = sched.requested /\ s.completed = runner[r].gen
          BY <1>1 DEF Scheds
    <2>. HIDE DEF l, s
    <2>4. Moves(r, {"release"}) /\ runner'[r].gen = 0
          BY <1>1, <2>1, <2>2, NowTurns DEF Moves
    <2>5. runner[r].at \in {"finish", "fail"} /\ runner'[r].at = "release"
          BY <1>1, <2>4 DEF Moves
    <2>6. /\ sched' \in Scheds /\ sched'.requested = sched.requested
          /\ sched'.completed = runner[r].gen
          BY <2>1, <2>3
    <2>. QED  BY <1>1, <2>1, <2>4, <2>5, <2>6, EndKeeps
  <1>. QED  BY <1>2, <1>3

LEMMA FailKeeps ==
    ASSUME ClassificationAssumption, IInv, NEW r \in Runners, Fail(r)
    PROVE  Kept
  <1>1. /\ TypeOK /\ NoStaleCategory /\ Complete /\ Ready(r) /\ r \notin Clis
        /\ runner[r].at = "fail" /\ UNCHANGED <<mail, meta, events>>
        /\ runner \in [Runners -> Locals] /\ sched \in Scheds /\ runner[r].gen \in Nat
        BY DEF IInv, Complete, TypeOK, Locals, Fail, Ready, Placed
  <1>. DEFINE again == sched.requested > runner[r].gen
              at == IF again THEN "pass" ELSE "release"
              l == [Rest EXCEPT !.at = at]
              s == [sched EXCEPT !.completed = runner[r].gen, !.failed = runner[r].gen,
                                 !.running = again]
  <1>2. Now(r, l) /\ sched' = s /\ client' = Notify(client)
        BY DEF Fail
  <1>3. again \in BOOLEAN
        OBVIOUS
  <1>4. at \in {"pass", "release"}
        OBVIOUS
  <1>. HIDE DEF again, at
  <1>5. l \in Locals /\ l.at = at /\ l.gen = 0
        BY <1>4, RestTyped DEF Locals, Places, Rest
  <1>6. /\ s \in Scheds /\ s.requested = sched.requested
        /\ s.completed = runner[r].gen /\ s.failed = runner[r].gen
        BY <1>1, <1>3 DEF Scheds
  <1>. HIDE DEF l, s
  <1>7. Moves(r, {at}) /\ runner'[r].gen = 0
        BY <1>1, <1>2, <1>5, NowTurns DEF Moves
  <1>8. /\ runner[r].at \in {"finish", "fail"} /\ runner'[r].at \in {"pass", "release"}
        BY <1>1, <1>4, <1>7 DEF Moves
  <1>9. /\ sched' \in Scheds /\ sched'.requested = sched.requested
        /\ sched'.completed = runner[r].gen /\ sched'.failed = runner[r].gen
        BY <1>2, <1>6
  <1>. QED  BY <1>1, <1>2, <1>7, <1>8, <1>9, EndKeeps

LEMMA ReleaseKeeps ==
    ASSUME ClassificationAssumption, IInv, NEW r \in Runners, Release(r)
    PROVE  Kept
  <1>1. /\ TypeOK /\ NoStaleCategory /\ UNCHANGED <<mail, sched, client, events>>
        /\ sched.requested \in Nat
        BY DEF IInv, Release, TypeOK, Scheds
  <1>2. Moves(r, {"idle"}) /\ runner'[r].gen = 0
        BY <1>1, ReleaseTurns
  <1>3. Judged /\ Pending' = Pending /\ events' \in Nat
        BY <1>1, ReleaseJudges DEF TypeOK
  <1>4. Ready(r)'
        BY <1>1, <1>2, ReadyAnew DEF Moves, Judging
  <1>. QED  BY <1>1, <1>2, <1>3, <1>4, DrainKeeps

LEMMA StartKeeps ==
    ASSUME ClassificationAssumption, IInv, NEW r \in Clis, CliStart(r)
    PROVE  Kept
  <1>1. /\ TypeOK /\ NoStaleCategory /\ UNCHANGED <<mail, meta, sched, client>>
        /\ Go(r, "claim") /\ r \in Runners /\ events' \in Nat
        BY EventCounts DEF IInv, CliStart, Runners
  <1>2. Moves(r, {"claim"}) /\ runner'[r].gen = runner[r].gen
        BY <1>1, GoTurns DEF Moves, TypeOK, Places, Passing
  <1>3. Ready(r)'
        BY <1>1, <1>2, ReadyAnew DEF Moves, Judging, IInv, Complete, Ready
  <1>. QED  BY <1>1, <1>2, <1>3, TypesStay, DrainKeeps

LEMMA LapseKeeps ==
    ASSUME ClassificationAssumption, IInv, Lapse
    PROVE  Kept
  <1>1. /\ TypeOK /\ NoStaleCategory /\ Complete /\ UNCHANGED <<mail, sched, runner, client>>
        /\ events' \in Nat
        BY EventCounts DEF IInv, Lapse
  <1>2. Judged /\ Pending' = Pending
        BY <1>1, LapseJudges
  <1>3. /\ runner' \in [Runners -> Locals] /\ client' \in [Clients -> Callers] /\ Steady
        /\ sched' \in Scheds /\ sched'.requested >= sched.requested
        BY <1>1 DEF TypeOK, Steady, Scheds
  <1>4. \A x \in Runners : Ready(x)'
        BY <1>1, <1>3, ReadyStays DEF Complete
  <1>5. ASSUME NEW c \in Clients PROVE Served(c)'
        BY <1>1, <1>2, ServedStays DEF Complete, Served
  <1>. QED  BY <1>1, <1>2, <1>3, <1>4, <1>5 DEF Kept, Complete

LEMMA StepKeeps ==
    ASSUME ClassificationAssumption, IInv, [Next]_vars
    PROVE  IInv' /\ [KeepsUser]_vars
  <1>1. CASE Next
    <2>1. Kept
      <3>1. ASSUME NEW c \in Clients, KickAndWait(c) \/ Waiting(c)
            PROVE  Kept
            BY <3>1, AskKeeps, WaitKeeps
      <3>2. ASSUME NEW r \in Runners, Step(r)
            PROVE  Kept
            BY <3>2, PassKeeps, ClaimKeeps, SelectKeeps, KnownKeeps, InferKeeps, ApplyKeeps,
               FinishKeeps, FailKeeps, ReleaseKeeps DEF Step
      <3>3. ASSUME NEW m \in Msgs,
                   Arrive(m) \/ Categorise(m) \/ NewEvidence(m) \/ Correspond(m)
            PROVE  Kept
            BY <3>3, MessageKeeps
      <3>. QED  BY <1>1, <3>1, <3>2, <3>3, KickKeeps, StartKeeps, LapseKeeps
                DEF Next, Waiting, Step
    <2>. QED  BY <2>1 DEF Kept, Judged, IInv, TypeOK
  <1>2. CASE UNCHANGED vars
    <2>1. TypeOK'
          BY <1>2 DEF vars, IInv, TypeOK
    <2>2. NoStaleCategory'
          BY <1>2 DEF vars, IInv, NoStaleCategory
    <2>3. \A r \in Runners : Ready(r)'
          BY <1>2 DEF vars, IInv, Complete, Ready, Placed, LastBatch, PassEnds, Before
    <2>4. \A c \in Clients : Served(c)'
          BY <1>2 DEF vars, IInv, Complete, Served, Pending
    <2>5. sched'.completed <= sched'.requested
          BY <1>2 DEF vars, IInv, Complete
    <2>. QED  BY <1>2, <2>1, <2>2, <2>3, <2>4, <2>5 DEF IInv, Complete
  <1>. QED  BY <1>1, <1>2

(* At first nothing is decided, asked or running.                           *)
LEMMA InitSound == ASSUME ClassificationAssumption, Init PROVE IInv
  <1>1. TypeOK
    <2>1. mail \in [Msgs -> Messages]
      <3>1. PICK here \in SUBSET Msgs :
               mail = [m \in Msgs |-> [ev |-> 1, known |-> FALSE, on |-> Undecided,
                                      by |-> IF m \in here THEN "nobody" ELSE "absent"]]
            BY DEF Init
      <3>2. PICK none \in Decisions : none = Undecided
            BY DEF Undecided, Decisions
      <3>. QED  BY <3>1, <3>2 DEF Messages
    <2>2. Revision[Desktop] \in Nat
          BY DEF ClassificationAssumption, Owners
    <2>3. meta \in Metas /\ sched \in Scheds /\ events \in Nat
          BY <2>2 DEF Init, Metas, Scheds
    <2>4. runner \in [Runners -> Locals] /\ client \in [Clients -> Callers]
          BY RestTyped DEF Init
    <2>. QED  BY <2>1, <2>3, <2>4 DEF TypeOK
  <1>2. NoStaleCategory
        BY DEF Init, NoStaleCategory
  <1>3. ASSUME NEW r \in Runners PROVE Ready(r)
        BY RestTyped DEF Init, Ready, Placed, LastBatch, PassEnds, Judging
  <1>4. ASSUME NEW c \in Clients PROVE Served(c)
        BY DEF Init, Served, NoWait
  <1>5. sched.completed <= sched.requested
        BY DEF Init
  <1>. QED  BY <1>1, <1>2, <1>3, <1>4, <1>5 DEF IInv, Complete

LEMMA AlwaysSound == ASSUME ClassificationAssumption PROVE Spec => []IInv
  <1>1. Init => IInv
        BY InitSound
  <1>2. IInv /\ [Next]_vars => IInv'
        BY StepKeeps
  <1>. QED  BY <1>1, <1>2, PTL DEF Spec

-----------------------------------------------------------------------------
(* Theorems *)

(* A category the model gave rests on the evidence, the correspondence and  *)
(* the revision stored now, whatever the command line, the user and new     *)
(* mail did while a drain judged (apply_model_classifications).             *)
THEOREM CategoriesStayCurrent == ASSUME ClassificationAssumption PROVE Spec => []NoStaleCategory
  <1>1. IInv => NoStaleCategory
        BY DEF IInv
  <1>. QED  BY <1>1, AlwaysSound, PTL

(* No drain, of this process or of another, undoes what the user decided    *)
(* (apply_model_classifications, claim_classification_revision).            *)
THEOREM UserAlwaysWins == ASSUME ClassificationAssumption PROVE Spec => UserWins
  <1>1. IInv /\ [Next]_vars => [KeepsUser]_vars
        BY StepKeeps
  <1>. QED  BY <1>1, AlwaysSound, PTL DEF Spec, UserWins

(* A caller that is told its classification is done has every message that  *)
(* was pending when it asked classified: requests are not taken for those   *)
(* of a pass that had read its batch (ClassificationScheduler).             *)
THEOREM AnswersAreTrue == ASSUME ClassificationAssumption PROVE Spec => []AnsweredMeansDone
  <1>1. IInv => AnsweredMeansDone
        BY DEF IInv, Complete, Served, AnsweredMeansDone
  <1>. QED  BY <1>1, AlwaysSound, PTL

-----------------------------------------------------------------------------
(* The background worker of each watcher: constants and variables of        *)
(* HydrationQueue                                                           *)

CONSTANTS Accounts, Newest, Starred, New, Slots, InFlight, Limit, Pages, StarLimit, MaxFails,
          MaxStops
VARIABLES known, cached, queue, watcher, worker, line, heard, used

Queue == INSTANCE HydrationQueue WITH Recent <- Newest, told <- heard

(* A set of numbers has a least one: the induction that the proofs below    *)
(* use.                                                                     *)
LEMMA LeastNat ==
    ASSUME NEW T \in SUBSET Nat, T # {}
    PROVE  \E n \in T : \A m \in T : n <= m
  <1>1. \E x \in T : \A y \in T : <<y, x>> \notin OpToRel(<, Nat)
        BY NatLessThanWellFounded, WFMin
  <1>2. \A x, y \in T : <<y, x>> \notin OpToRel(<, Nat) => x <= y
        BY DEF OpToRel
  <1>. QED BY <1>1, <1>2

-----------------------------------------------------------------------------
(* The background worker: a watcher that has stopped has no task left *)

(* The worker's record, of which only the place and the tasks matter here.  *)
Parts == {"at", "next", "task"}
Progress  == Seq({"wait", "fetch", "ended"})

WorkerOK(w) ==
    /\ Parts \subseteq DOMAIN w
    /\ w.task \in Progress /\ w.next = Len(w.task) + 1
    /\ w.at # "run" => w.task = <<>>

(* Who waits is in the line, once.                                          *)
InLine(e) == /\ e = <<e[1], e[2]>> /\ e[1] \in Accounts
            /\ e[2] \in DOMAIN worker[e[1]].task /\ worker[e[1]].task[e[2]] = "wait"

LineOK == /\ line \in Seq(Accounts \X Nat)
          /\ \A k \in DOMAIN line : InLine(line[k])
          /\ \A j, k \in DOMAIN line : line[j] = line[k] => j = k

(* The line goes on without e, and no one else in it twice.                  *)
LineLess(e) ==
    /\ line' \in Seq(Accounts \X Nat)
    /\ \A k \in DOMAIN line' : line'[k] # e /\ \E j \in DOMAIN line : line'[k] = line[j]
    /\ \A j, k \in DOMAIN line' : line'[j] = line'[k] => j = k

Calm == /\ worker = [a \in Accounts |-> worker[a]]
        /\ watcher = [a \in Accounts |-> watcher[a]]
        /\ \A a \in Accounts : WorkerOK(worker[a])
        /\ LineOK
        /\ \A a \in Accounts : watcher[a] = "off" => worker[a].at = "ended"

-----------------------------------------------------------------------------
LEMMA CalmIsQuiet == Calm => Queue!NothingAfterStop
  <1>. SUFFICES ASSUME Calm, NEW a \in Accounts, watcher[a] = "off"
                PROVE  Queue!Active(a) = {} /\ \A k \in DOMAIN line : line[k][1] # a
       BY DEF Queue!NothingAfterStop
  <1>1. worker[a].task = <<>>
        BY DEF Calm, WorkerOK
  <1>2. DOMAIN worker[a].task = {}
        BY <1>1
  <1>. QED  BY <1>2 DEF Queue!Active, Calm, LineOK, InLine

LEMMA StartsCalm == ASSUME Queue!Init PROVE Calm
  <1>1. /\ worker = [a \in Accounts |-> Queue!Fresh] /\ line = <<>>
        /\ watcher = [a \in Accounts |-> "run"]
        BY DEF Queue!Init
  <1>2. WorkerOK(Queue!Fresh)
        BY DEF WorkerOK, Parts, Queue!Fresh, Progress
  <1>3. LineOK
        BY <1>1 DEF LineOK
  <1>. QED  BY <1>1, <1>2, <1>3 DEF Calm

(* A worker without waiting tasks has none in the line, and may become      *)
(* anything without tasks.                                                  *)
LEMMA IdleMoves ==
    ASSUME Calm, NEW a \in Accounts, NEW w, Queue!Now(a, w), WorkerOK(w),
           \A i \in DOMAIN worker[a].task : worker[a].task[i] # "wait",
           w.task = <<>>, UNCHANGED line,
           watcher' = [x \in Accounts |-> watcher'[x]],
           \A x \in Accounts : watcher'[x] = "off" => watcher[x] = "off" \/ x = a,
           watcher'[a] = "off" => w.at = "ended"
    PROVE  Calm'
  <1>1. /\ worker' = [x \in Accounts |-> worker'[x]] /\ worker'[a] = w
        /\ \A x \in Accounts \ {a} : worker'[x] = worker[x]
        BY DEF Queue!Now, Calm
  <1>2. \A x \in Accounts : WorkerOK(worker'[x])
        BY <1>1 DEF Calm
  <1>3. \A k \in DOMAIN line : line[k][1] # a
    <2>1. \A k \in DOMAIN line : InLine(line[k])
          BY DEF Calm, LineOK
    <2>. QED  BY <2>1 DEF InLine
  <1>4. LineOK'
        BY <1>1, <1>3 DEF Calm, LineOK, InLine
  <1>5. \A x \in Accounts : watcher'[x] = "off" => worker'[x].at = "ended"
        BY <1>1 DEF Calm
  <1>. QED  BY <1>1, <1>2, <1>4, <1>5 DEF Calm

(* Nothing here moves: the watcher's cycles.                                *)
LEMMA Still ==
    ASSUME Calm, UNCHANGED <<worker, watcher, line>>
    PROVE  Calm'
  <1>. QED  BY DEF Calm, LineOK, InLine

LEMMA WatcherMoves ==
    ASSUME Calm, NEW a \in Accounts, Queue!Stop(a) \/ Queue!Stopped(a)
    PROVE  Calm'
  <1>1. /\ UNCHANGED <<worker, line>>
        /\ watcher' = [x \in Accounts |-> watcher'[x]]
        /\ \A x \in Accounts \ {a} : watcher'[x] = watcher[x]
        /\ watcher'[a] = "off" => worker[a].at = "ended"
        BY DEF Calm, Queue!Stop, Queue!Stopped, Queue!WorkerDone, Queue!At
  <1>2. LineOK'
        BY <1>1 DEF Calm, LineOK, InLine
  <1>. QED  BY <1>1, <1>2 DEF Calm

LEMMA WatcherStarts ==
    ASSUME Calm, NEW a \in Accounts, Queue!Start(a)
    PROVE  Calm'
  <1>1. /\ Queue!Now(a, Queue!Fresh) /\ UNCHANGED line
        /\ watcher[a] = "off" /\ watcher' = [watcher EXCEPT ![a] = "run"]
        BY DEF Queue!Start
  <1>2. WorkerOK(Queue!Fresh) /\ Queue!Fresh.task = <<>>
        BY DEF WorkerOK, Parts, Queue!Fresh, Progress
  <1>3. worker[a].task = <<>>
        BY <1>1 DEF Calm, WorkerOK
  <1>4. \A i \in DOMAIN worker[a].task : worker[a].task[i] # "wait"
        BY <1>3
  <1>5. /\ watcher' = [x \in Accounts |-> watcher'[x]] /\ watcher'[a] # "off"
        /\ \A x \in Accounts : watcher'[x] = "off" => watcher[x] = "off" \/ x = a
        BY <1>1 DEF Calm
  <1>. QED  BY ONLY Calm, <1>1, <1>2, <1>4, <1>5, IdleMoves

(* A worker between batches.                                                *)
LEMMA Between ==
    ASSUME Calm, NEW a \in Accounts, NEW w, Queue!Now(a, w), WorkerOK(w),
           worker[a].at \notin {"run", "ended"} \/ (Queue!At(a, "run") /\ Queue!Active(a) = {}),
           w.task = <<>>, UNCHANGED <<watcher, line>>
    PROVE  Calm'
  <1>1. \A i \in DOMAIN worker[a].task : worker[a].task[i] # "wait"
    <2>1. CASE Queue!At(a, "run") /\ Queue!Active(a) = {}
          BY <2>1 DEF Queue!Active
    <2>2. CASE worker[a].at \notin {"run", "ended"}
      <3>1. worker[a].task = <<>>
            BY <2>2 DEF Calm, WorkerOK
      <3>. QED  BY <3>1
    <2>. QED  BY <2>1, <2>2
  <1>2. watcher[a] # "off"
        BY DEF Calm, Queue!At
  <1>3. /\ watcher' = [x \in Accounts |-> watcher'[x]]
        /\ \A x \in Accounts : watcher'[x] = "off" => watcher[x] = "off" \/ x = a
        /\ watcher'[a] # "off"
        BY <1>2 DEF Calm
  <1>. QED  BY ONLY Calm, Queue!Now(a, w), WorkerOK(w), w.task = <<>>, UNCHANGED line,
               <1>1, <1>3, IdleMoves

LEMMA TakeKeeps ==
    ASSUME Calm, NEW a \in Accounts, Queue!Take(a)
    PROVE  Calm'
  <1>1. PICK w : Queue!Now(a, w) /\ WorkerOK(w) /\ w.task = <<>>
    <2>. DEFINE v == worker[a]
    <2>1. WorkerOK(v) /\ v.task = <<>> /\ v.next = 1
          BY DEF Calm, WorkerOK, Queue!Take, Queue!At
    <2>2. CASE Queue!Now(a, [v EXCEPT !.at = "ended"])
          BY <2>1, <2>2 DEF WorkerOK, Parts
    <2>3. CASE \E b : Queue!Now(a, [v EXCEPT !.at = "plan", !.sel = <<>>, !.batch = b])
      <3>1. PICK b : Queue!Now(a, [v EXCEPT !.at = "plan", !.sel = <<>>, !.batch = b])
            BY <2>3
      <3>. DEFINE w == [v EXCEPT !.at = "plan", !.sel = <<>>, !.batch = b]
      <3>2. WorkerOK(w) /\ w.task = <<>>
            BY <2>1 DEF WorkerOK, Parts, Progress
      <3>3. Queue!Now(a, w)
            BY <3>1
      <3>. HIDE DEF w
      <3>. QED  BY <3>2, <3>3
    <2>4. CASE \E b : Queue!Now(a, [v EXCEPT !.at = "load", !.sel = <<>>, !.pages = 0, !.batch = b])
      <3>1. PICK b : Queue!Now(a, [v EXCEPT !.at = "load", !.sel = <<>>, !.pages = 0, !.batch = b])
            BY <2>4
      <3>. DEFINE w == [v EXCEPT !.at = "load", !.sel = <<>>, !.pages = 0, !.batch = b]
      <3>2. WorkerOK(w) /\ w.task = <<>>
            BY <2>1 DEF WorkerOK, Parts, Progress
      <3>3. Queue!Now(a, w)
            BY <3>1
      <3>. HIDE DEF w
      <3>. QED  BY <3>2, <3>3
    <2>. QED  BY <2>2, <2>3, <2>4 DEF Queue!Take
  <1>2. worker[a].at = "select" /\ UNCHANGED <<watcher, line>>
        BY DEF Queue!Take, Queue!At
  <1>. QED  BY ONLY Calm, <1>1, <1>2, Between

(* A page is read, or the pass is cancelled.                                *)
LEMMA LoadIs ==
    ASSUME NEW a \in Accounts, Queue!Load(a)
    PROVE  \E c :
              \/ Queue!Now(a, [[worker[a] EXCEPT !.cool = c] EXCEPT !.at = "plan", !.sel = <<>>])
              \/ LET u    == [worker[a] EXCEPT !.cool = c]
                     page == Queue!Page(a, u.offset + u.pages * Limit)
                     pick == Queue!Keep(page, Queue!Range(page) \ u.cool)
                     room == Limit - Len(u.sel)
                     sel  == u.sel \o SubSeq(pick, 1, IF Len(pick) < room THEN Len(pick) ELSE room)
                     full == Len(sel) = Limit
                     over == page = <<>> \/ full \/ u.pages + 1 = Pages
                 IN Queue!Now(a, [u EXCEPT !.sel = sel, !.pages = @ + 1,
                            !.at = IF over THEN "plan" ELSE "load",
                            !.offset = IF over THEN Queue!NextOffset(u, u.pages + 1, page = <<>>, full)
                                       ELSE @])
  <1>1. CASE Queue!Cancelled(a)
        BY <1>1, Zenon DEF Queue!Load
  <1>2. CASE ~Queue!Cancelled(a)
        BY <1>2, Zenon DEF Queue!Load
  <1>. QED  BY <1>1, <1>2

LEMMA LoadKeeps ==
    ASSUME Calm, NEW a \in Accounts, Queue!Load(a)
    PROVE  Calm'
  <1>1. /\ worker[a].at = "load" /\ UNCHANGED <<watcher, line>>
        /\ WorkerOK(worker[a]) /\ worker[a].task = <<>> /\ worker[a].next = 1
        BY DEF Queue!Load, Queue!At, Calm, WorkerOK
  <1>2. PICK c :
           \/ Queue!Now(a, [[worker[a] EXCEPT !.cool = c] EXCEPT !.at = "plan", !.sel = <<>>])
           \/ \E sel, pages, over, offset :
                Queue!Now(a, [[worker[a] EXCEPT !.cool = c] EXCEPT !.sel = sel, !.pages = pages,
                          !.at = IF over THEN "plan" ELSE "load", !.offset = offset])
    <2>1. PICK c :
                \/ Queue!Now(a, [[worker[a] EXCEPT !.cool = c] EXCEPT !.at = "plan", !.sel = <<>>])
                \/ LET u    == [worker[a] EXCEPT !.cool = c]
                       page == Queue!Page(a, u.offset + u.pages * Limit)
                       pick == Queue!Keep(page, Queue!Range(page) \ u.cool)
                       room == Limit - Len(u.sel)
                       sel  == u.sel \o SubSeq(pick, 1, IF Len(pick) < room THEN Len(pick) ELSE room)
                       full == Len(sel) = Limit
                       over == page = <<>> \/ full \/ u.pages + 1 = Pages
                   IN Queue!Now(a, [u EXCEPT !.sel = sel, !.pages = @ + 1,
                              !.at = IF over THEN "plan" ELSE "load",
                              !.offset = IF over THEN Queue!NextOffset(u, u.pages + 1, page = <<>>, full)
                                         ELSE @])
          BY LoadIs, Zenon
    <2>. DEFINE u    == [worker[a] EXCEPT !.cool = c]
                page == Queue!Page(a, u.offset + u.pages * Limit)
                pick == Queue!Keep(page, Queue!Range(page) \ u.cool)
                room == Limit - Len(u.sel)
                sel  == u.sel \o SubSeq(pick, 1, IF Len(pick) < room THEN Len(pick) ELSE room)
                full == Len(sel) = Limit
                over == page = <<>> \/ full \/ u.pages + 1 = Pages
                pages == u.pages + 1
                offset == IF over THEN Queue!NextOffset(u, u.pages + 1, page = <<>>, full)
                          ELSE u.offset
    <2>2. CASE Queue!Now(a, [u EXCEPT !.sel = sel, !.pages = @ + 1,
                         !.at = IF over THEN "plan" ELSE "load",
                         !.offset = IF over THEN Queue!NextOffset(u, u.pages + 1, page = <<>>, full)
                                    ELSE @])
      <3>. HIDE DEF page, sel, full, over
      <3>1. Queue!Now(a, [u EXCEPT !.sel = sel, !.pages = pages,
                         !.at = IF over THEN "plan" ELSE "load", !.offset = offset])
            BY <2>2
      <3>. HIDE DEF pages, offset
      <3>. QED  BY <3>1
    <2>. QED  BY <2>1, <2>2
  <1>. DEFINE v == [worker[a] EXCEPT !.cool = c]
  <1>3. WorkerOK(v) /\ v.task = <<>> /\ v.next = 1
        BY <1>1 DEF WorkerOK, Parts, Progress
  <1>. HIDE DEF v
  <1>4. CASE Queue!Now(a, [v EXCEPT !.at = "plan", !.sel = <<>>])
    <2>. DEFINE w == [v EXCEPT !.at = "plan", !.sel = <<>>]
    <2>1. WorkerOK(w) /\ w.task = <<>>
          BY <1>3 DEF WorkerOK, Parts, Progress
    <2>. HIDE DEF w
    <2>2. Queue!Now(a, w)
          BY <1>4 DEF w
    <2>. QED  BY ONLY Calm, <1>1, <2>1, <2>2, Between
  <1>5. CASE \E sel, pages, over, offset :
                Queue!Now(a, [v EXCEPT !.sel = sel, !.pages = pages,
                          !.at = IF over THEN "plan" ELSE "load", !.offset = offset])
    <2>1. PICK sel, pages, over, offset :
                Queue!Now(a, [v EXCEPT !.sel = sel, !.pages = pages,
                          !.at = IF over THEN "plan" ELSE "load", !.offset = offset])
          BY <1>5
    <2>. DEFINE w == [v EXCEPT !.sel = sel, !.pages = pages,
                          !.at = IF over THEN "plan" ELSE "load", !.offset = offset]
    <2>2. WorkerOK(w) /\ w.task = <<>>
          BY <1>3, <2>1 DEF WorkerOK, Parts, Progress
    <2>. HIDE DEF w
    <2>3. Queue!Now(a, w)
          BY <2>1 DEF w
    <2>. QED  BY ONLY Calm, <1>1, <2>2, <2>3, Between
  <1>. QED  BY <1>2, <1>4, <1>5 DEF v

LEMMA PlanKeeps ==
    ASSUME Calm, NEW a \in Accounts, Queue!Plan(a)
    PROVE  Calm'
  <1>1. /\ worker[a].at = "plan" /\ UNCHANGED <<watcher, line>>
        /\ \E p : Queue!Now(a, [worker[a] EXCEPT !.at = "run", !.sel = <<>>, !.next = 1,
                             !.task = <<>>, !.ended = <<>>, !.plan = p])
        BY DEF Queue!Plan, Queue!At
  <1>2. WorkerOK(worker[a])
        BY DEF Calm
  <1>3. PICK w : Queue!Now(a, w) /\ WorkerOK(w) /\ w.task = <<>>
    <2>1. PICK p : Queue!Now(a, [worker[a] EXCEPT !.at = "run", !.sel = <<>>, !.next = 1,
                                   !.task = <<>>, !.ended = <<>>, !.plan = p])
          BY <1>1
    <2>. DEFINE w == [worker[a] EXCEPT !.at = "run", !.sel = <<>>, !.next = 1,
                                   !.task = <<>>, !.ended = <<>>, !.plan = p]
    <2>2. WorkerOK(w) /\ w.task = <<>>
          BY <1>1, <1>2 DEF WorkerOK, Parts, Progress
    <2>3. Queue!Now(a, w)
          BY <2>1
    <2>. HIDE DEF w
    <2>. QED  BY <2>2, <2>3
  <1>. QED  BY ONLY Calm, <1>1, <1>3, Between

LEMMA BatchEndKeeps ==
    ASSUME Calm, NEW a \in Accounts, Queue!Publish(a)
    PROVE  Calm'
  <1>1. /\ Queue!At(a, "run") /\ Queue!Active(a) = {} /\ UNCHANGED <<watcher, line>>
        /\ \E c : Queue!Now(a, [worker[a] EXCEPT !.at = "select", !.plan = <<>>, !.task = <<>>,
                             !.ended = <<>>, !.next = 1, !.pages = 0, !.cool = c])
        BY DEF Queue!Publish
  <1>2. WorkerOK(worker[a])
        BY DEF Calm
  <1>3. PICK w : Queue!Now(a, w) /\ WorkerOK(w) /\ w.task = <<>>
    <2>1. PICK c : Queue!Now(a, [worker[a] EXCEPT !.at = "select", !.plan = <<>>, !.task = <<>>,
                                   !.ended = <<>>, !.next = 1, !.pages = 0, !.cool = c])
          BY <1>1
    <2>. DEFINE w == [worker[a] EXCEPT !.at = "select", !.plan = <<>>, !.task = <<>>,
                                   !.ended = <<>>, !.next = 1, !.pages = 0, !.cool = c]
    <2>2. WorkerOK(w) /\ w.task = <<>>
          BY <1>1, <1>2 DEF WorkerOK, Parts, Progress
    <2>3. Queue!Now(a, w)
          BY <2>1
    <2>. HIDE DEF w
    <2>. QED  BY <2>2, <2>3
  <1>. QED  BY ONLY Calm, <1>1, <1>3, Between

-----------------------------------------------------------------------------
(* Progress *)

LEMMA FillKeeps ==
    ASSUME Calm, NEW a \in Accounts, Queue!Fill(a)
    PROVE  Calm'
  <1>. DEFINE v == worker[a]
              w == [v EXCEPT !.next = @ + 1, !.task = Append(@, "wait")]
  <1>1. /\ WorkerOK(v) /\ v.at = "run" /\ Queue!Now(a, w) /\ UNCHANGED watcher
        /\ line' = Append(line, <<a, v.next>>)
        BY DEF Queue!Fill, Calm, Queue!At
  <1>2. /\ v.task \in Progress /\ v.next = Len(v.task) + 1
        BY <1>1 DEF WorkerOK, Parts
  <1>3. /\ Append(v.task, "wait") \in Progress
        /\ Len(Append(v.task, "wait")) = Len(v.task) + 1
        /\ Append(v.task, "wait")[v.next] = "wait"
        /\ v.next \in DOMAIN Append(v.task, "wait")
        /\ \A i \in DOMAIN v.task : /\ Append(v.task, "wait")[i] = v.task[i]
                                     /\ i \in DOMAIN Append(v.task, "wait")
        BY <1>2 DEF Progress
  <1>4. WorkerOK(w) /\ w.task = Append(v.task, "wait") /\ w.at = v.at
        BY <1>1, <1>2, <1>3 DEF WorkerOK, Parts
  <1>. HIDE DEF w
  <1>5. /\ worker' = [x \in Accounts |-> worker'[x]] /\ worker'[a] = w
        /\ \A x \in Accounts \ {a} : worker'[x] = worker[x]
        BY <1>1 DEF Queue!Now, Calm
  <1>6. LineOK'
    <2>0. PICK n : n = v.next
          OBVIOUS
    <2>1. /\ line' \in Seq(Accounts \X Nat) /\ Len(line') = Len(line) + 1
          /\ line'[Len(line')] = <<a, n>>
          /\ \A k \in 1..Len(line) : line'[k] = line[k]
          BY <1>1, <1>2, <2>0 DEF Calm, LineOK, Progress
    <2>2. DOMAIN line' = 1..(Len(line) + 1) /\ DOMAIN line = 1..Len(line) /\ Len(line) \in Nat
          BY <2>1 DEF Calm, LineOK
    <2>3. \A k \in 1..Len(line) : InLine(line[k])' /\ line[k] # <<a, n>>
      <3>. SUFFICES ASSUME NEW k \in 1..Len(line)
                    PROVE  InLine(line[k])' /\ line[k] # <<a, n>>
           OBVIOUS
      <3>0. PICK e : e = line[k]
            OBVIOUS
      <3>1. InLine(e) /\ line'[k] = e
            BY <2>1, <2>2, <3>0 DEF Calm, LineOK
      <3>2. e # <<a, n>>
        <4>1. n \notin DOMAIN v.task
              BY <1>2, <2>0 DEF Progress
        <4>. QED  BY <3>1, <4>1 DEF InLine
      <3>3. /\ e = <<e[1], e[2]>> /\ e[1] \in Accounts
            /\ e[2] \in DOMAIN worker'[e[1]].task /\ worker'[e[1]].task[e[2]] = "wait"
        <4>1. /\ e = <<e[1], e[2]>> /\ e[1] \in Accounts
              /\ e[2] \in DOMAIN worker[e[1]].task /\ worker[e[1]].task[e[2]] = "wait"
              BY <3>1 DEF InLine
        <4>2. CASE e[1] = a
              BY <1>3, <1>4, <1>5, <4>1, <4>2
        <4>3. CASE e[1] # a
              BY <1>5, <4>1, <4>3
        <4>. QED  BY <4>2, <4>3
      <3>4. \A k2 \in {k} : line'[k2] = e
            BY <3>1
      <3>. QED  BY <3>0, <3>1, <3>2, <3>3 DEF InLine
    <2>4. InLine(<<a, n>>)'
          BY <1>1, <1>3, <1>4, <1>5, <2>0 DEF InLine
    <2>5. \A k \in DOMAIN line' : InLine(line[k])'
          BY <2>1, <2>2, <2>3, <2>4 DEF InLine
    <2>6. \A j, k \in 1..Len(line) : line[j] = line[k] => j = k
          BY <2>2 DEF Calm, LineOK
    <2>7. \A j, k \in DOMAIN line' : line'[j] = line'[k] => j = k
          BY <2>1, <2>2, <2>3, <2>6
    <2>. QED  BY <2>1, <2>5, <2>7 DEF LineOK
  <1>. QED  BY <1>1, <1>4, <1>5, <1>6 DEF Calm

(* A task that waited or fetched does something else, and is not in the     *)
(* line any more.                                                           *)
LEMMA TaskMoves ==
    ASSUME Calm, NEW a \in Accounts, NEW i \in DOMAIN worker[a].task, NEW r \in {"fetch", "ended"},
           NEW w, Queue!Now(a, w), WorkerOK(w), w.at = worker[a].at,
           w.task = [worker[a].task EXCEPT ![i] = r],
           UNCHANGED watcher, LineLess(<<a, i>>)
    PROVE  Calm'
  <1>1. /\ worker' = [x \in Accounts |-> worker'[x]] /\ worker'[a] = w
        /\ \A x \in Accounts \ {a} : worker'[x] = worker[x]
        BY DEF Queue!Now, Calm
  <1>2. LineOK'
    <2>1. ASSUME NEW k \in DOMAIN line'
          PROVE  InLine(line[k])'
      <3>1. PICK e : e = line'[k]
            OBVIOUS
      <3>2. InLine(e) /\ e # <<a, i>>
            BY <3>1 DEF LineLess, Calm, LineOK
      <3>3. /\ e = <<e[1], e[2]>> /\ e[1] \in Accounts
            /\ e[2] \in DOMAIN worker'[e[1]].task /\ worker'[e[1]].task[e[2]] = "wait"
        <4>1. CASE e[1] = a
          <5>1. e[2] # i
                BY <3>2, <4>1 DEF InLine
          <5>. QED  BY <1>1, <3>2, <4>1, <5>1 DEF InLine
        <4>2. CASE e[1] # a
              BY <1>1, <3>2, <4>2 DEF InLine
        <4>. QED  BY <4>1, <4>2
      <3>. QED  BY <3>1, <3>3 DEF InLine
    <2>. QED  BY <2>1 DEF LineLess, LineOK
  <1>. QED  BY <1>1, <1>2 DEF Calm, Queue!At

(* End's record.                                                            *)
LEMMA EndRecord ==
    ASSUME Calm, NEW a \in Accounts, NEW i \in DOMAIN worker[a].task, NEW r,
           worker[a].at = "run"
    PROVE  LET w == Queue!End(a, i, r)
           IN  /\ WorkerOK(w) /\ w.at = worker[a].at
               /\ w.task = [worker[a].task EXCEPT ![i] = "ended"]
  <1>. DEFINE v == worker[a]
  <1>1. WorkerOK(v)
        BY DEF Calm
  <1>2. /\ [v.task EXCEPT ![i] = "ended"] \in Progress
        /\ Len([v.task EXCEPT ![i] = "ended"]) = Len(v.task)
        BY <1>1 DEF WorkerOK, Progress
  <1>. QED  BY <1>1, <1>2 DEF Queue!End, WorkerOK, Parts

(* A worker with a task runs a batch.                                       *)
LEMMA HasTask ==
    ASSUME Calm, NEW a \in Accounts, NEW i \in DOMAIN worker[a].task
    PROVE  worker[a].at = "run"
  <1>1. worker[a].task # <<>>
        OBVIOUS
  <1>. QED  BY <1>1 DEF Calm, WorkerOK

LEMMA TaskEndKeeps ==
    ASSUME Calm, NEW a \in Accounts, NEW i \in DOMAIN worker[a].task, Queue!Fetch(a, i)
    PROVE  Calm'
  <1>1. /\ worker[a].task[i] = "fetch" /\ UNCHANGED <<watcher, line>>
        /\ \E r : Queue!Now(a, Queue!End(a, i, r))
        BY DEF Queue!Fetch, Queue!Fetching
  <1>2. PICK r : Queue!Now(a, Queue!End(a, i, r))
        BY <1>1
  <1>. DEFINE w == Queue!End(a, i, r)
  <1>3. /\ WorkerOK(w) /\ w.at = worker[a].at
        /\ w.task = [worker[a].task EXCEPT ![i] = "ended"]
        BY HasTask, EndRecord
  <1>4. Queue!Now(a, w)
        BY <1>2
  <1>. HIDE DEF w
  <1>5. LineLess(<<a, i>>)
        BY <1>1 DEF LineLess, Calm, LineOK, InLine
  <1>. QED  BY ONLY Calm, <1>1, <1>3, <1>4, <1>5, TaskMoves

LEMMA AcquireKeeps ==
    ASSUME Calm, NEW a \in Accounts, NEW i \in DOMAIN worker[a].task, Queue!Acquire(a, i)
    PROVE  Calm'
  <1>1. /\ line # <<>> /\ Head(line) = <<a, i>> /\ line' = Tail(line) /\ UNCHANGED watcher
        BY DEF Queue!Acquire
  <1>2. LineLess(<<a, i>>)
    <2>1. line \in Seq(Accounts \X Nat) /\ \A j, k \in DOMAIN line : line[j] = line[k] => j = k
          BY DEF Calm, LineOK
    <2>2. /\ line' \in Seq(Accounts \X Nat) /\ Len(line') = Len(line) - 1
          /\ \A k \in 1..Len(line') : line'[k] = line[k + 1]
          /\ Len(line) \in Nat \ {0} /\ line[1] = <<a, i>>
          BY <1>1, <2>1
    <2>3. DOMAIN line' = 1..(Len(line) - 1) /\ DOMAIN line = 1..Len(line)
          BY <2>1, <2>2
    <2>4. ASSUME NEW k \in DOMAIN line'
          PROVE  line'[k] # <<a, i>> /\ \E j \in DOMAIN line : line'[k] = line[j]
      <3>1. k + 1 \in DOMAIN line /\ 1 \in DOMAIN line /\ k + 1 # 1 /\ line'[k] = line[k + 1]
            BY <2>2, <2>3
      <3>. QED  BY <2>1, <2>2, <3>1
    <2>5. ASSUME NEW j \in DOMAIN line', NEW k \in DOMAIN line', line'[j] = line'[k]
          PROVE  j = k
      <3>1. /\ j + 1 \in DOMAIN line /\ line'[j] = line[j + 1]
            /\ k + 1 \in DOMAIN line /\ line'[k] = line[k + 1]
            BY <2>2, <2>3
      <3>2. j + 1 = k + 1
            BY <2>1, <2>5, <3>1
      <3>. QED  BY <2>3, <3>2
    <2>. QED  BY <2>2, <2>4, <2>5 DEF LineLess
  <1>3. CASE Queue!Cancelled(a)
    <2>. DEFINE w == Queue!End(a, i, "cancelled")
    <2>1. /\ WorkerOK(w) /\ w.at = worker[a].at
          /\ w.task = [worker[a].task EXCEPT ![i] = "ended"]
          BY HasTask, EndRecord
    <2>2. Queue!Now(a, w)
          BY <1>3 DEF Queue!Acquire
    <2>. HIDE DEF w
    <2>. QED  BY ONLY Calm, <1>1, <1>2, <2>1, <2>2, TaskMoves
  <1>4. CASE ~Queue!Cancelled(a)
    <2>. DEFINE v == worker[a]
                w == [v EXCEPT !.task[i] = "fetch"]
    <2>1. WorkerOK(v) /\ v.at = "run"
          BY HasTask DEF Calm
    <2>2. /\ [v.task EXCEPT ![i] = "fetch"] \in Progress
          /\ Len([v.task EXCEPT ![i] = "fetch"]) = Len(v.task)
          BY <2>1 DEF WorkerOK, Progress
    <2>3. /\ WorkerOK(w) /\ w.at = worker[a].at
          /\ w.task = [worker[a].task EXCEPT ![i] = "fetch"]
          BY <2>1, <2>2 DEF WorkerOK, Parts
    <2>4. Queue!Now(a, w)
          BY <1>4 DEF Queue!Acquire
    <2>. HIDE DEF w
    <2>. QED  BY ONLY Calm, <1>1, <1>2, <2>3, <2>4, TaskMoves
  <1>. QED  BY <1>3, <1>4

(* A sequence without its n-th element.                                     *)
LEMMA RemovedAt ==
    ASSUME NEW S, NEW s \in Seq(S), NEW n \in DOMAIN s
    PROVE  /\ Queue!RemoveAt(s, n) \in Seq(S)
           /\ DOMAIN Queue!RemoveAt(s, n) = 1..(Len(s) - 1)
           /\ \A k \in 1..(Len(s) - 1) :
                Queue!RemoveAt(s, n)[k] = s[IF k < n THEN k ELSE k + 1]
  <1>. DEFINE l == SubSeq(s, 1, n - 1)
              r == SubSeq(s, n + 1, Len(s))
  <1>1. /\ Len(s) \in Nat /\ n \in 1..Len(s) /\ n - 1 \in Int /\ n + 1 \in Int
        /\ \A k \in 1..(n - 1) : s[k] \in S
        /\ \A k \in (n + 1)..Len(s) : s[k] \in S
        OBVIOUS
  <1>2. /\ l \in Seq(S) /\ Len(l) = IF 1 <= n - 1 THEN (n - 1) - 1 + 1 ELSE 0
        /\ \A k \in 1..((n - 1) - 1 + 1) : l[k] = s[1 + k - 1]
        BY <1>1, SubSeqProperties
  <1>3. /\ r \in Seq(S) /\ Len(r) = IF n + 1 <= Len(s) THEN Len(s) - (n + 1) + 1 ELSE 0
        /\ \A k \in 1..(Len(s) - (n + 1) + 1) : r[k] = s[(n + 1) + k - 1]
        BY <1>1, SubSeqProperties
  <1>. HIDE DEF l, r
  <1>4. /\ Len(l) = n - 1 /\ Len(r) = Len(s) - n
        /\ \A k \in 1..(n - 1) : l[k] = s[k]
        /\ \A k \in 1..(Len(s) - n) : r[k] = s[n + k]
    <2>1. Len(l) = n - 1 /\ Len(r) = Len(s) - n
          BY <1>1, <1>2, <1>3
    <2>2. ASSUME NEW k \in 1..(n - 1) PROVE l[k] = s[k]
      <3>1. k \in 1..((n - 1) - 1 + 1) /\ 1 + k - 1 = k
            BY <1>1
      <3>. QED  BY <1>2, <3>1
    <2>3. ASSUME NEW k \in 1..(Len(s) - n) PROVE r[k] = s[n + k]
      <3>1. k \in 1..(Len(s) - (n + 1) + 1) /\ (n + 1) + k - 1 = n + k
        <4>1. k \in Int /\ n \in Int /\ Len(s) \in Int
              BY <1>1
        <4>2. Len(s) - (n + 1) + 1 = Len(s) - n
              BY <4>1
        <4>3. (n + 1) + k - 1 = n + k
              BY <4>1
        <4>. QED  BY <4>2, <4>3
      <3>. QED  BY <1>3, <3>1
    <2>. QED  BY <2>1, <2>2, <2>3
  <1>5. /\ l \o r \in Seq(S) /\ Len(l \o r) = Len(l) + Len(r)
        /\ \A k \in 1..(Len(l) + Len(r)) :
             (l \o r)[k] = IF k <= Len(l) THEN l[k] ELSE r[k - Len(l)]
        BY <1>2, <1>3, ConcatProperties
  <1>6. Queue!RemoveAt(s, n) = l \o r
        BY DEF Queue!RemoveAt, l, r
  <1>. DEFINE t == l \o r
  <1>. HIDE DEF t
  <1>7. t \in Seq(S) /\ Len(t) = Len(s) - 1
        BY <1>1, <1>4, <1>5 DEF t
  <1>8. DOMAIN t = 1..(Len(s) - 1)
        BY <1>1, <1>7
  <1>9. ASSUME NEW k \in 1..(Len(s) - 1)
        PROVE  t[k] = s[IF k < n THEN k ELSE k + 1]
    <2>3. Len(l) + Len(r) = Len(s) - 1
          BY <1>1, <1>4
    <2>. t[k] = IF k <= Len(l) THEN l[k] ELSE r[k - Len(l)]
         BY <1>5, <2>3 DEF t
    <2>1. CASE k < n
      <3>1. k <= Len(l) /\ k \in 1..(n - 1)
            BY <1>1, <1>4, <2>1
      <3>. QED  BY <1>4, <2>1, <3>1
    <2>2. CASE ~(k < n)
      <3>1. k - (n - 1) \in 1..(Len(s) - n) /\ n + (k - (n - 1)) = k + 1
            BY <1>1, <2>2
      <3>2. t[k] = r[k - (n - 1)]
        <4>1. ~(k <= Len(l))
              BY <1>1, <1>4, <2>2
        <4>. QED  BY <1>4, <4>1
      <3>. QED  BY <1>4, <2>2, <3>1, <3>2
    <2>. QED  BY <2>1, <2>2
  <1>. QED  BY <1>6, <1>7, <1>8, <1>9 DEF t

LEMMA DropKeeps ==
    ASSUME Calm, NEW a \in Accounts, NEW i \in DOMAIN worker[a].task, Queue!Drop(a, i)
    PROVE  Calm'
  <1>1. PICK n \in DOMAIN line : line[n] = <<a, i>> /\ line' = Queue!RemoveAt(line, n)
        BY DEF Queue!Drop
  <1>2. LineLess(<<a, i>>)
    <2>1. line \in Seq(Accounts \X Nat) /\ \A j, k \in DOMAIN line : line[j] = line[k] => j = k
          BY DEF Calm, LineOK
    <2>2. /\ DOMAIN line = 1..Len(line) /\ Len(line) \in Nat /\ n \in 1..Len(line)
          BY <2>1
    <2>3. /\ line' \in Seq(Accounts \X Nat) /\ DOMAIN line' = 1..(Len(line) - 1)
          /\ \A k \in DOMAIN line' : line'[k] = line[IF k < n THEN k ELSE k + 1]
          BY <1>1, <2>1, RemovedAt
    <2>. DEFINE from(k) == IF k < n THEN k ELSE k + 1
    <2>4. \A k \in DOMAIN line' : from(k) \in DOMAIN line /\ from(k) # n /\ line'[k] = line[from(k)]
          BY <2>2, <2>3
    <2>5. ASSUME NEW j \in DOMAIN line', NEW k \in DOMAIN line', from(j) = from(k)
          PROVE  j = k
      <3>1. j \in Int /\ k \in Int /\ n \in Int
            BY <2>2, <2>3
      <3>. QED  BY <2>5, <3>1
    <2>. HIDE DEF from
    <2>6. ASSUME NEW k \in DOMAIN line'
          PROVE  line'[k] # <<a, i>> /\ \E j \in DOMAIN line : line'[k] = line[j]
          BY <1>1, <2>1, <2>4
    <2>7. ASSUME NEW j \in DOMAIN line', NEW k \in DOMAIN line', line'[j] = line'[k]
          PROVE  j = k
      <3>1. from(j) = from(k)
            BY <2>1, <2>4, <2>7
      <3>. QED  BY <2>5, <3>1
    <2>. QED  BY <2>3, <2>6, <2>7 DEF LineLess
  <1>3. Queue!Now(a, Queue!End(a, i, "dropped")) /\ UNCHANGED watcher
        BY DEF Queue!Drop
  <1>. DEFINE w == Queue!End(a, i, "dropped")
  <1>4. /\ WorkerOK(w) /\ w.at = worker[a].at
        /\ w.task = [worker[a].task EXCEPT ![i] = "ended"]
        BY HasTask, EndRecord
  <1>5. Queue!Now(a, w)
        BY <1>3
  <1>. HIDE DEF w
  <1>. QED  BY ONLY Calm, <1>2, <1>3, <1>4, <1>5, TaskMoves

-----------------------------------------------------------------------------
(* The theorem *)

LEMMA QueueKeeps ==
    ASSUME Calm, [Queue!Next]_(Queue!vars)
    PROVE  Calm'
  <1>1. CASE UNCHANGED Queue!vars
        BY <1>1, Still DEF Queue!vars
  <1>2. ASSUME NEW a \in Accounts, NEW ms, Queue!Arrive(a, ms) PROVE Calm'
        BY <1>2, Still DEF Queue!Arrive
  <1>3. ASSUME NEW a \in Accounts, Queue!Warm(a) PROVE Calm'
        BY <1>3, Still DEF Queue!Warm
  <1>4. ASSUME NEW a \in Accounts,
               \/ Queue!Stop(a) \/ Queue!Stopped(a) \/ Queue!Start(a)
               \/ Queue!Take(a) \/ Queue!Load(a) \/ Queue!Plan(a) \/ Queue!Fill(a) \/ Queue!Publish(a)
        PROVE  Calm'
    <2>1. CASE Queue!Stop(a) \/ Queue!Stopped(a) \/ Queue!Start(a)
          BY ONLY Calm, <2>1, WatcherMoves, WatcherStarts
    <2>2. CASE Queue!Take(a) \/ Queue!Load(a) \/ Queue!Plan(a)
          BY ONLY Calm, <2>2, TakeKeeps, LoadKeeps, PlanKeeps
    <2>3. CASE Queue!Fill(a) \/ Queue!Publish(a)
          BY ONLY Calm, <2>3, FillKeeps, BatchEndKeeps
    <2>. QED  BY <1>4, <2>1, <2>2, <2>3
  <1>5. ASSUME NEW a \in Accounts, NEW i \in DOMAIN worker[a].task,
               Queue!Acquire(a, i) \/ Queue!Drop(a, i) \/ Queue!Fetch(a, i)
        PROVE  Calm'
        BY ONLY Calm, <1>5, AcquireKeeps, DropKeeps, TaskEndKeeps
  <1>6. CASE Queue!Next
    <2>1. PICK a \in Accounts :
             \/ \E ms : Queue!Arrive(a, ms)
             \/ Queue!Warm(a)
             \/ Queue!Stop(a) \/ Queue!Stopped(a) \/ Queue!Start(a)
             \/ Queue!Take(a) \/ Queue!Load(a) \/ Queue!Plan(a) \/ Queue!Fill(a) \/ Queue!Publish(a)
             \/ \E i \in DOMAIN worker[a].task : Queue!Acquire(a, i) \/ Queue!Drop(a, i) \/ Queue!Fetch(a, i)
          BY <1>6, Zenon DEF Queue!Next
    <2>. QED  BY ONLY <1>2, <1>3, <1>4, <1>5, <2>1
  <1>. QED  BY <1>1, <1>6

(* Whatever the batch was doing when its watcher was told to stop, and      *)
(* however many accounts share the slots: once the watcher is off, none of  *)
(* its tasks runs, holds a slot or waits for one (run_watcher awaits its    *)
(* worker, hydrate_after_sync waits for its tasks).                         *)
THEOREM StoppedIsQuiet == Queue!Spec => []Queue!NothingAfterStop
  <1>1. Queue!Init => Calm
        BY StartsCalm
  <1>2. Calm /\ [Queue!Next]_(Queue!vars) => Calm'
        BY QueueKeeps
  <1>3. Calm => Queue!NothingAfterStop
        BY CalmIsQuiet
  <1>. QED  BY <1>1, <1>2, <1>3, PTL DEF Queue!Spec

-----------------------------------------------------------------------------
(* The background worker: the elements of a sequence at a set of places *)

(* HydrationQueue counts as FiniteSets does.                                *)
LEMMA CountIs == ASSUME NEW S PROVE Queue!Cardinality(S) = Cardinality(S)
  BY Zenon DEF Queue!Cardinality, Cardinality

LEMMA NthIs ==
    ASSUME NEW S \in SUBSET Nat, IsFiniteSet(S), NEW k \in 1..Cardinality(S)
    PROVE  Queue!Nth(S, k) \in S /\ Cardinality({j \in S : j < Queue!Nth(S, k)}) = k - 1
  <1>. DEFINE Has(T, m) == \E i \in T : Cardinality({j \in T : j < i}) = m - 1
              Bad == {n \in Nat : \E T \in SUBSET S : /\ Cardinality(T) = n
                                                     /\ \E m \in 1..n : ~Has(T, m)}
  <1>1. \A T \in SUBSET S : IsFiniteSet(T) /\ Cardinality(T) \in Nat
        BY FS_Subset, FS_CardinalityType
  <1>2. Bad = {}
    <2>. SUFFICES ASSUME Bad # {} PROVE FALSE
         OBVIOUS
    <2>1. PICK n \in Bad : \A m \in Bad : n <= m
          BY LeastNat, Bad \in SUBSET Nat
    <2>2. PICK T \in SUBSET S, m \in 1..n : Cardinality(T) = n /\ ~Has(T, m)
          BY <2>1
    <2>3. n \in Nat /\ n - 1 \in Nat /\ m \in Nat /\ T # {}
      <3>1. n \in Nat /\ m \in Nat /\ 1 <= m /\ m <= n
            BY <2>1, <2>2
      <3>2. Cardinality({}) = 0
            BY FS_EmptySet
      <3>3. T # {}
        <4>1. Cardinality(T) # 0
              BY <2>2, <3>1
        <4>. QED  BY <3>2, <4>1
      <3>. QED  BY <3>1, <3>3
    <2>4. PICK b \in T : \A j \in T : b <= j
          BY <2>3, LeastNat
    <2>. DEFINE R == T \ {b}
    <2>5. Cardinality(R) = n - 1 /\ R \in SUBSET S
          BY <1>1, <2>2, FS_RemoveElement
    <2>6. CASE m = 1
      <3>1. \A j \in T : j \in Nat /\ b \in Nat /\ b <= j
            BY <2>4
      <3>2. {j \in T : j < b} = {}
        <4>1. \A j \in T : ~(j < b)
              BY <3>1
        <4>. QED  BY <4>1, Zenon
      <3>3. Cardinality({j \in T : j < b}) = m - 1
        <4>1. Cardinality({}) = 0 /\ m - 1 = 0
              BY <2>6, FS_EmptySet
        <4>. QED  BY <3>2, <4>1, Zenon
      <3>. QED  BY <2>2, <3>3
    <2>7. CASE m # 1
      <3>1. m - 1 \in 1..(n - 1) /\ n - 1 \notin Bad
        <4>1. m - 1 \in 1..(n - 1) /\ ~(n <= n - 1)
              BY <2>2, <2>3, <2>7
        <4>. HIDE DEF Bad
        <4>. QED  BY <2>1, <4>1
      <3>2. PICK i \in R : Cardinality({j \in R : j < i}) = (m - 1) - 1
            BY <2>3, <2>5, <3>1
      <3>3. b < i /\ i \in T
            BY <2>4, <3>2
      <3>4. {j \in T : j < i} = {j \in R : j < i} \cup {b} /\ b \notin {j \in R : j < i}
            BY <3>3
      <3>5. IsFiniteSet({j \in R : j < i})
            BY <1>1, <2>5
      <3>6. Cardinality({j \in T : j < i}) = (m - 1) - 1 + 1
        <4>. DEFINE D == {j \in R : j < i}
        <4>1. Cardinality(D \cup {b}) = Cardinality(D) + 1
              BY <3>4, <3>5, FS_AddElement
        <4>. QED  BY <3>2, <3>4, <4>1
      <3>7. Cardinality({j \in T : j < i}) = m - 1
            BY <2>3, <3>6
      <3>. QED  BY <2>2, <3>3, <3>7
    <2>. QED  BY <2>6, <2>7
  <1>3. Has(S, k)
    <2>1. Cardinality(S) \in Nat /\ Cardinality(S) \notin Bad
          BY <1>1, <1>2
    <2>. HIDE DEF Has
    <2>. QED  BY <2>1
  <1>4. \E i \in S : Queue!Cardinality({j \in S : j < i}) = k - 1
        BY <1>3, CountIs
  <1>5. Queue!Nth(S, k) = CHOOSE i \in S : Queue!Cardinality({j \in S : j < i}) = k - 1
        BY Zenon DEF Queue!Nth
  <1>6. Queue!Nth(S, k) \in S /\ Queue!Cardinality({j \in S : j < Queue!Nth(S, k)}) = k - 1
    <2>. HIDE DEF Has, Bad
    <2>. QED  BY <1>4, <1>5, Zenon
  <1>. QED  BY <1>6, CountIs

LEMMA NthUp ==
    ASSUME NEW S \in SUBSET Nat, IsFiniteSet(S), NEW k \in 1..Cardinality(S),
           NEW l \in 1..Cardinality(S), k < l
    PROVE  Queue!Nth(S, k) < Queue!Nth(S, l)
  <1>. DEFINE x == Queue!Nth(S, k)
              y == Queue!Nth(S, l)
              Under(z) == {j \in S : j < z}
  <1>1. x \in S /\ y \in S /\ Cardinality(Under(x)) = k - 1 /\ Cardinality(Under(y)) = l - 1
        BY NthIs
  <1>. HIDE DEF x, y
  <1>2. ASSUME y <= x PROVE FALSE
    <2>1. Under(y) \subseteq Under(x) /\ IsFiniteSet(Under(x))
      <3>1. x \in Nat /\ y \in Nat
            BY <1>1
      <3>2. \A j \in S : j < y => j < x
            BY <1>2, <3>1
      <3>3. Under(x) \in SUBSET S
            OBVIOUS
      <3>. QED  BY <3>2, <3>3, FS_Subset
    <2>. HIDE DEF Under
    <2>2. Cardinality(Under(y)) <= Cardinality(Under(x))
          BY <2>1, FS_Subset
    <2>3. k \in Nat /\ l \in Nat
          BY FS_CardinalityType
    <2>. QED  BY <1>1, <2>2, <2>3
  <1>3. x \in Nat /\ y \in Nat
        BY <1>1
  <1>4. x < y
        BY <1>2, <1>3
  <1>. QED  BY <1>4 DEF x, y

LEMMA SelectIs ==
    ASSUME NEW X, NEW s \in Seq(X), NEW S \in SUBSET DOMAIN s
    PROVE  /\ Queue!Select(s, S) \in Seq(X)
           /\ DOMAIN Queue!Select(s, S) = 1..Cardinality(S) /\ Cardinality(S) \in Nat
           /\ \A k \in 1..Cardinality(S) : /\ Queue!Nth(S, k) \in S
                                           /\ Queue!Select(s, S)[k] = s[Queue!Nth(S, k)]
           /\ \A k, l \in 1..Cardinality(S) : k < l => Queue!Nth(S, k) < Queue!Nth(S, l)
  <1>1. DOMAIN s = 1..Len(s) /\ Len(s) \in Nat
        OBVIOUS
  <1>2. S \in SUBSET Nat /\ IsFiniteSet(S) /\ Cardinality(S) \in Nat
    <2>1. IsFiniteSet(DOMAIN s) /\ S \in SUBSET Nat
          BY <1>1, FS_Interval
    <2>2. IsFiniteSet(S)
          BY <2>1, FS_Subset
    <2>. QED  BY <2>1, <2>2, FS_CardinalityType
  <1>3. \A k \in 1..Cardinality(S) : Queue!Nth(S, k) \in S
        BY <1>2, NthIs
  <1>4. \A k, l \in 1..Cardinality(S) : k < l => Queue!Nth(S, k) < Queue!Nth(S, l)
        BY <1>2, NthUp
  <1>5. Queue!Select(s, S) = [k \in 1..Cardinality(S) |-> s[Queue!Nth(S, k)]]
        BY CountIs, Zenon DEF Queue!Select
  <1>6. Queue!Select(s, S) \in [1..Cardinality(S) -> X]
        BY <1>3, <1>5
  <1>. QED  BY <1>2, <1>3, <1>4, <1>5, <1>6

LEMMA KeepIs ==
    ASSUME NEW X, NEW s \in Seq(X), NEW S
    PROVE  Queue!Keep(s, S) \in Seq(X)
  BY SelectIs DEF Queue!Keep

-----------------------------------------------------------------------------
(* The plan has what arrived first and in its order, and so do the events *)

Targets == [kind : {"pending", "recent", "starred"}, msg : Queue!Msgs]
Ended(n) == [i : 1..n, res : {"ok", "none", "error", "cancelled"}]

(* The sequence s is part of t, in its order.                               *)
PartOf(s, t) ==
    \E from \in [DOMAIN s -> DOMAIN t] :
       /\ \A k \in DOMAIN s : s[k] = t[from[k]]
       /\ \A j, k \in DOMAIN s : j < k => from[j] < from[k]

(* What a plan p has of the arrivals is in the order of ms.                 *)
Follows(p, ms) ==
    \E from \in [DOMAIN p -> Nat] :
       /\ \A k \in DOMAIN p : p[k].kind = "pending" => from[k] \in DOMAIN ms /\ p[k].msg = ms[from[k]]
       /\ \A j, k \in DOMAIN p : j < k => from[j] < from[k]

LEMMA PlanFollows ==
    ASSUME NEW ms \in Seq(Queue!Msgs), NEW recent \in Seq(Queue!Msgs),
           NEW stars \in Seq(Queue!Msgs)
    PROVE  Queue!PlanOf(ms, recent, stars) \in Seq(Targets)
           /\ Follows(Queue!PlanOf(ms, recent, stars), ms)
  <1>. DEFINE of(s, k) == [i \in 1..Len(s) |-> [kind |-> k, msg |-> s[i]]]
              P == of(ms, "pending")
              R == of(recent, "recent")
              F == of(stars, "starred")
              all == P \o R \o F
              S == {i \in DOMAIN all : \A j \in 1..(i - 1) : all[j].msg # all[i].msg}
  <1>1. ASSUME NEW s \in Seq(Queue!Msgs), NEW k \in {"pending", "recent", "starred"}
        PROVE  /\ of(s, k) \in Seq(Targets) /\ Len(of(s, k)) = Len(s)
               /\ \A i \in 1..Len(s) : of(s, k)[i].kind = k /\ of(s, k)[i].msg = s[i]
    <2>1. Len(s) \in Nat /\ \A i \in 1..Len(s) : s[i] \in Queue!Msgs
          OBVIOUS
    <2>2. of(s, k) \in [1..Len(s) -> Targets]
          BY <2>1 DEF Targets
    <2>3. \A n \in Nat : \A f \in [1..n -> Targets] : f \in Seq(Targets) /\ Len(f) = n
          OBVIOUS
    <2>4. of(s, k) \in Seq(Targets) /\ Len(of(s, k)) = Len(s)
          BY Zenon, <2>1, <2>2, <2>3
    <2>. QED  BY <2>4
  <1>2. P \in Seq(Targets) /\ R \in Seq(Targets) /\ F \in Seq(Targets)
        BY <1>1
  <1>3. /\ Len(P) = Len(ms) /\ \A i \in 1..Len(P) : P[i].msg = ms[i]
        /\ \A i \in 1..Len(R) : R[i].kind = "recent"
        /\ \A i \in 1..Len(F) : F[i].kind = "starred"
        BY <1>1
  <1>4. Queue!PlanOf(ms, recent, stars) = Queue!Select(all, S)
        BY DEF Queue!PlanOf
  <1>. HIDE DEF P, R, F
  <1>5. all \in Seq(Targets)
        BY <1>2
  <1>6. ASSUME NEW i \in DOMAIN all, all[i].kind = "pending"
        PROVE  i \in DOMAIN ms /\ all[i].msg = ms[i]
    <2>1. /\ Len(P) \in Nat /\ Len(R) \in Nat /\ Len(F) \in Nat
          /\ P \o R \in Seq(Targets) /\ Len(P \o R) = Len(P) + Len(R)
          /\ \A j \in 1..(Len(P) + Len(R)) :
                (P \o R)[j] = IF j <= Len(P) THEN P[j] ELSE R[j - Len(P)]
          BY <1>2, ConcatProperties
    <2>2. /\ Len(all) = Len(P \o R) + Len(F)
          /\ \A j \in 1..(Len(P \o R) + Len(F)) :
                all[j] = IF j <= Len(P \o R) THEN (P \o R)[j] ELSE F[j - Len(P \o R)]
          BY <1>2, <2>1, ConcatProperties
    <2>3. i \in Nat /\ 1 <= i /\ i <= Len(P) + Len(R) + Len(F)
          BY <1>5, <2>1, <2>2
    <2>. HIDE DEF all
    <2>4. CASE i <= Len(P)
      <3>1. i \in 1..Len(P) /\ all[i] = P[i]
            BY <2>1, <2>2, <2>3, <2>4
      <3>. QED  BY <1>3, <3>1
    <2>5. CASE Len(P) < i /\ i <= Len(P) + Len(R)
      <3>1. i - Len(P) \in 1..Len(R) /\ all[i] = R[i - Len(P)]
            BY <2>1, <2>2, <2>3, <2>5
      <3>. QED  BY <1>3, <1>6, <3>1
    <2>6. CASE Len(P) + Len(R) < i
      <3>1. i - Len(P \o R) \in 1..Len(F) /\ all[i] = F[i - Len(P \o R)]
            BY <2>1, <2>2, <2>3, <2>6
      <3>. QED  BY <1>3, <1>6, <3>1
    <2>. QED  BY <2>1, <2>3, <2>4, <2>5, <2>6
  <1>. DEFINE plan == Queue!Select(all, S)
  <1>7. /\ plan \in Seq(Targets) /\ DOMAIN plan = 1..Cardinality(S)
        /\ \A k \in 1..Cardinality(S) : Queue!Nth(S, k) \in S /\ plan[k] = all[Queue!Nth(S, k)]
        /\ \A k, l \in 1..Cardinality(S) : k < l => Queue!Nth(S, k) < Queue!Nth(S, l)
    <2>1. S \in SUBSET DOMAIN all
          OBVIOUS
    <2>. HIDE DEF all, S
    <2>. QED  BY <1>5, <2>1, SelectIs
  <1>8. S \subseteq DOMAIN all /\ DOMAIN all \subseteq Nat
        BY <1>5
  <1>. HIDE DEF plan, S, all
  <1>9. Follows(plan, ms)
    <2>. DEFINE from == [k \in DOMAIN plan |-> Queue!Nth(S, k)]
    <2>1. from \in [DOMAIN plan -> Nat]
          BY <1>7, <1>8
    <2>2. \A k \in DOMAIN plan : plan[k].kind = "pending" =>
             from[k] \in DOMAIN ms /\ plan[k].msg = ms[from[k]]
          BY <1>6, <1>7, <1>8
    <2>3. \A j, k \in DOMAIN plan : j < k => from[j] < from[k]
          BY <1>7
    <2>. HIDE DEF from
    <2>. QED  BY <2>1, <2>2, <2>3 DEF Follows
  <1>. QED  BY <1>4, <1>7, <1>9 DEF plan

LEMMA SortedIs ==
    ASSUME NEW n \in Nat, NEW ended \in Seq(Ended(n))
    PROVE  LET rs == Queue!InPlanOrder(ended)
           IN /\ rs \in Seq(Ended(n))
              /\ \A j, k \in DOMAIN rs : j < k => rs[j].i < rs[k].i
  <1>. DEFINE W == Queue!Range(ended)
              T == {r.i : r \in W}
              rs == Queue!InPlanOrder(ended)
  <1>1. W \subseteq Ended(n) /\ T \subseteq 1..n
    <2>1. W \subseteq Ended(n)
          BY DEF Queue!Range
    <2>. HIDE DEF W
    <2>. QED  BY <2>1 DEF Ended
  <1>2. T \in SUBSET Nat /\ IsFiniteSet(T) /\ Cardinality(T) \in Nat
    <2>. HIDE DEF T
    <2>1. IsFiniteSet(1..n) /\ 1..n \subseteq Nat
          BY FS_Interval
    <2>2. IsFiniteSet(T)
          BY <1>1, <2>1, FS_Subset
    <2>. QED  BY <1>1, <2>1, <2>2, FS_CardinalityType
  <1>3. rs = [k \in 1..Cardinality(T) |-> CHOOSE r \in W : r.i = Queue!Nth(T, k)]
        BY CountIs, Zenon DEF Queue!InPlanOrder
  <1>4. \A m \in T : \E r \in W : r.i = m
        OBVIOUS
  <1>. HIDE DEF W, T, rs
  <1>5. \A k \in 1..Cardinality(T) : rs[k] \in W /\ rs[k].i = Queue!Nth(T, k)
    <2>. SUFFICES ASSUME NEW k \in 1..Cardinality(T)
                  PROVE  rs[k] \in W /\ rs[k].i = Queue!Nth(T, k)
         OBVIOUS
    <2>1. \E r \in W : r.i = Queue!Nth(T, k)
          BY <1>2, <1>4, NthIs
    <2>. QED  BY <1>3, <2>1
  <1>6. rs \in Seq(Ended(n)) /\ DOMAIN rs = 1..Cardinality(T)
    <2>1. rs \in [1..Cardinality(T) -> Ended(n)]
          BY <1>1, <1>3, <1>5
    <2>. QED  BY <1>2, <2>1
  <1>7. \A j, k \in DOMAIN rs : j < k => rs[j].i < rs[k].i
        BY <1>2, <1>5, <1>6, NthUp
  <1>. QED  BY <1>6, <1>7 DEF rs

LEMMA EventsFollow ==
    ASSUME NEW p \in Seq(Targets), NEW ms, Follows(p, ms), NEW ended \in Seq(Ended(Len(p))),
           NEW S, S = {k \in DOMAIN Queue!InPlanOrder(ended) :
                         /\ Queue!InPlanOrder(ended)[k].res = "ok"
                         /\ p[Queue!InPlanOrder(ended)[k].i].kind = "pending"},
           NEW es, es = Queue!Select(Queue!InPlanOrder(ended), S)
    PROVE  PartOf([k \in DOMAIN es |-> p[es[k].i].msg], ms)
  <1>. DEFINE rs == Queue!InPlanOrder(ended)
              t == [k \in DOMAIN es |-> p[es[k].i].msg]
  <1>1. rs \in Seq(Ended(Len(p))) /\ \A j, k \in DOMAIN rs : j < k => rs[j].i < rs[k].i
        BY SortedIs
  <1>. HIDE DEF rs
  <1>2. S \in SUBSET DOMAIN rs /\ es = Queue!Select(rs, S)
        BY DEF rs
  <1>3. \A k \in S : p[rs[k].i].kind = "pending"
        BY DEF rs
  <1>4. /\ DOMAIN es = 1..Cardinality(S)
        /\ \A k \in DOMAIN es : Queue!Nth(S, k) \in S /\ es[k] = rs[Queue!Nth(S, k)]
        /\ \A j, k \in DOMAIN es : j < k => Queue!Nth(S, j) < Queue!Nth(S, k)
    <2>1. /\ DOMAIN es = 1..Cardinality(S)
          /\ \A k \in 1..Cardinality(S) : Queue!Nth(S, k) \in S /\ es[k] = rs[Queue!Nth(S, k)]
          /\ \A j, k \in 1..Cardinality(S) : j < k => Queue!Nth(S, j) < Queue!Nth(S, k)
          BY ONLY <1>1, <1>2, SelectIs
    <2>. QED  BY <2>1
  <1>5. \A k \in DOMAIN es : /\ es[k].i \in DOMAIN p
                                 /\ p[es[k].i].kind = "pending"
    <2>1. \A k \in DOMAIN rs : rs[k].i \in 1..Len(p)
      <3>1. \A k \in DOMAIN rs : rs[k] \in Ended(Len(p))
            BY <1>1
      <3>. QED  BY <3>1 DEF Ended
    <2>2. DOMAIN p = 1..Len(p)
          OBVIOUS
    <2>3. \A k \in DOMAIN es : Queue!Nth(S, k) \in DOMAIN rs /\ Queue!Nth(S, k) \in S
          BY <1>2, <1>4
    <2>. SUFFICES ASSUME NEW k \in DOMAIN es
                  PROVE  es[k].i \in DOMAIN p /\ p[es[k].i].kind = "pending"
         OBVIOUS
    <2>4. PICK n : n = Queue!Nth(S, k)
          OBVIOUS
    <2>5. es[k] = rs[n] /\ n \in DOMAIN rs /\ n \in S
          BY <1>4, <2>3, <2>4
    <2>. QED  BY <1>3, <2>1, <2>2, <2>5
  <1>6. \A j, k \in DOMAIN es : j < k => es[j].i < es[k].i
        BY <1>1, <1>2, <1>4
  <1>7. PICK f \in [DOMAIN p -> Nat] :
           /\ \A k \in DOMAIN p : p[k].kind = "pending" => f[k] \in DOMAIN ms /\ p[k].msg = ms[f[k]]
           /\ \A j, k \in DOMAIN p : j < k => f[j] < f[k]
        BY DEF Follows
  <1>. DEFINE from == [k \in DOMAIN es |-> f[es[k].i]]
  <1>8. from \in [DOMAIN t -> DOMAIN ms] /\ \A k \in DOMAIN t : t[k] = ms[from[k]]
    <2>1. \A k \in DOMAIN es : f[es[k].i] \in DOMAIN ms /\ p[es[k].i].msg = ms[f[es[k].i]]
          BY <1>5, <1>7
    <2>. QED  BY <2>1
  <1>9. ASSUME NEW j \in DOMAIN t, NEW k \in DOMAIN t, j < k PROVE from[j] < from[k]
    <2>1. es[j].i < es[k].i /\ es[j].i \in DOMAIN p /\ es[k].i \in DOMAIN p
          BY <1>5, <1>6, <1>9
    <2>. QED  BY <1>7, <2>1
  <1>. HIDE DEF t, from
  <1>10. PartOf(t, ms)
        BY <1>8, <1>9 DEF PartOf
  <1>. QED  BY <1>10 DEF t

-----------------------------------------------------------------------------
(* Events come in the order of what arrived *)

WorkerFields == {"batch", "sel", "pages", "plan", "ended", "cool", "offset"}

(* What is queued and planned are messages; the plan follows the arrivals,  *)
(* the results are of its tasks, and what was told is part of the arrivals. *)
Tells(w, q, t) ==
    /\ q = [arrivals |-> q.arrivals, maintenance |-> q.maintenance]
    /\ q.arrivals \in Seq(Seq(Queue!Msgs))
    /\ WorkerFields \subseteq DOMAIN w
    /\ w.batch.pending \in Seq(Queue!Msgs) /\ w.sel \in Seq(Queue!Msgs)
    /\ w.offset \in Nat /\ w.pages \in Nat
    /\ w.plan \in Seq(Targets) /\ Follows(w.plan, w.batch.pending)
    /\ w.at # "run" => w.plan = <<>>
    /\ Len(w.task) <= Len(w.plan) /\ w.ended \in Seq(Ended(Len(w.plan)))
    /\ PartOf(t, w.batch.pending)

Telling == /\ queue = [a \in Accounts |-> queue[a]] /\ heard = [a \in Accounts |-> heard[a]]
           /\ \A a \in Accounts : Tells(worker[a], queue[a], heard[a])

LEMMA EmptyIs ==
    ASSUME NEW ms
    PROVE  PartOf(<<>>, ms) /\ Follows(<<>>, ms)
  <1>. DEFINE from == [k \in {} |-> 0]
  <1>1. DOMAIN <<>> = {} /\ from \in [{} -> DOMAIN ms] /\ from \in [{} -> Nat]
        OBVIOUS
  <1>. HIDE DEF from
  <1>2. PartOf(<<>>, ms)
        BY <1>1 DEF PartOf
  <1>3. Follows(<<>>, ms)
        BY <1>1 DEF Follows
  <1>. QED  BY <1>2, <1>3

LEMMA FreshTells ==
    ASSUME NEW q, q = [arrivals |-> <<>>, maintenance |-> FALSE]
    PROVE  Tells(Queue!Fresh, q, <<>>)
  <1>1. /\ Queue!Fresh.batch.pending = <<>> /\ Queue!Fresh.plan = <<>> /\ Queue!Fresh.ended = <<>>
        /\ Queue!Fresh.sel = <<>> /\ Queue!Fresh.task = <<>>
        /\ Queue!Fresh.offset = 0 /\ Queue!Fresh.pages = 0 /\ WorkerFields \subseteq DOMAIN Queue!Fresh
        BY DEF Queue!Fresh, Queue!NoBatch, WorkerFields
  <1>2. \A X : <<>> \in Seq(X)
        OBVIOUS
  <1>. QED  BY <1>1, <1>2, EmptyIs DEF Tells

LEMMA TellingStarts == ASSUME Queue!Init PROVE Telling
  <1>1. /\ queue = [a \in Accounts |-> [arrivals |-> <<>>, maintenance |-> FALSE]]
        /\ worker = [a \in Accounts |-> Queue!Fresh] /\ heard = [a \in Accounts |-> <<>>]
        BY DEF Queue!Init
  <1>2. \A a \in Accounts : Tells(worker[a], queue[a], heard[a])
        BY <1>1, FreshTells
  <1>. QED  BY <1>1, <1>2 DEF Telling

(* One worker, its queue and what it told change.                           *)
LEMMA TellingMoves ==
    ASSUME Calm, Telling, NEW a \in Accounts, NEW w, NEW q, NEW t, Tells(w, q, t),
           (UNCHANGED worker /\ w = worker[a]) \/ Queue!Now(a, w),
           (UNCHANGED queue /\ q = queue[a]) \/ queue' = [queue EXCEPT ![a] = q],
           (UNCHANGED heard /\ t = heard[a]) \/ heard' = [heard EXCEPT ![a] = t]
    PROVE  Telling'
  <1>1. /\ queue' = [x \in Accounts |-> queue'[x]] /\ queue'[a] = q
        /\ \A x \in Accounts \ {a} : queue'[x] = queue[x]
        BY DEF Telling
  <1>2. /\ heard' = [x \in Accounts |-> heard'[x]] /\ heard'[a] = t
        /\ \A x \in Accounts \ {a} : heard'[x] = heard[x]
        BY DEF Telling
  <1>3. worker'[a] = w /\ \A x \in Accounts \ {a} : worker'[x] = worker[x]
        BY DEF Calm, Queue!Now
  <1>4. \A x \in Accounts : Tells(worker'[x], queue'[x], heard'[x])
        BY <1>1, <1>2, <1>3 DEF Telling
  <1>5. \A x \in Accounts : Tells(worker[x], queue[x], heard[x])'
        BY <1>4 DEF Tells, Queue!Msgs, Targets, Ended, WorkerFields
  <1>. QED  BY <1>1, <1>2, <1>5 DEF Telling

(* A field of one queue changes.                                            *)
LEMMA QueueMoves ==
    ASSUME NEW a \in Accounts, NEW x,
           queue[a] = [arrivals |-> queue[a].arrivals, maintenance |-> queue[a].maintenance]
    PROVE  /\ [queue EXCEPT ![a].arrivals = x]
                = [queue EXCEPT ![a] = [arrivals |-> x, maintenance |-> queue[a].maintenance]]
           /\ [queue EXCEPT ![a].maintenance = x]
                = [queue EXCEPT ![a] = [arrivals |-> queue[a].arrivals, maintenance |-> x]]
  <1>1. PICK f, g : f = queue[a].arrivals /\ g = queue[a].maintenance
        OBVIOUS
  <1>. DEFINE o == [arrivals |-> f, maintenance |-> g]
  <1>2. /\ [o EXCEPT !.arrivals = x] = [arrivals |-> x, maintenance |-> g]
        /\ [o EXCEPT !.maintenance = x] = [arrivals |-> f, maintenance |-> x]
        OBVIOUS
  <1>3. /\ [queue EXCEPT ![a].arrivals = x] = [queue EXCEPT ![a] = [queue[a] EXCEPT !.arrivals = x]]
        /\ [queue EXCEPT ![a].maintenance = x]
             = [queue EXCEPT ![a] = [queue[a] EXCEPT !.maintenance = x]]
        OBVIOUS
  <1>4. queue[a] = o
        BY <1>1
  <1>5. /\ [queue[a] EXCEPT !.arrivals = x] = [arrivals |-> x, maintenance |-> g]
        /\ [queue[a] EXCEPT !.maintenance = x] = [arrivals |-> f, maintenance |-> x]
        BY <1>2, <1>4
  <1>. QED  BY <1>1, <1>3, <1>5

LEMMA CycleTells ==
    ASSUME Calm, Telling, Queue!HydrationAssumption, NEW a \in Accounts,
           (\E ms \in SUBSET New : Queue!Arrive(a, ms)) \/ Queue!Warm(a)
    PROVE  Telling'
  <1>. DEFINE o == queue[a]
  <1>1. Tells(worker[a], o, heard[a]) /\ UNCHANGED <<worker, heard>>
        BY DEF Telling, Queue!Arrive, Queue!Warm
  <1>2. queue = [x \in Accounts |-> queue[x]] /\ Newest[a] \in Seq(Queue!Msgs)
        BY DEF Telling, Queue!HydrationAssumption
  <1>3. ASSUME NEW ms, Queue!Arrive(a, ms) PROVE Telling'
    <2>. DEFINE new == Queue!Keep(Newest[a], ms)
                q == [arrivals |-> Append(o.arrivals, new), maintenance |-> o.maintenance]
    <2>1. new \in Seq(Queue!Msgs)
          BY <1>2, KeepIs
    <2>2. queue' = [queue EXCEPT ![a].arrivals = Append(@, new)]
          BY <1>3 DEF Queue!Arrive
    <2>. HIDE DEF new
    <2>3. queue' = [queue EXCEPT ![a] = q]
      <3>1. queue[a] = [arrivals |-> o.arrivals, maintenance |-> o.maintenance]
            BY <1>1 DEF Tells
      <3>2. [queue EXCEPT ![a].arrivals = Append(@, new)]
               = [queue EXCEPT ![a].arrivals = Append(o.arrivals, new)]
            OBVIOUS
      <3>3. [queue EXCEPT ![a].arrivals = Append(o.arrivals, new)]
               = [queue EXCEPT ![a] = [arrivals |-> Append(o.arrivals, new),
                                       maintenance |-> o.maintenance]]
            BY ONLY a \in Accounts, <3>1, QueueMoves, Zenon
      <3>. QED  BY <2>2, <3>2, <3>3
    <2>4. Tells(worker[a], q, heard[a])
          BY <1>1, <2>1 DEF Tells
    <2>. HIDE DEF q
    <2>. QED  BY ONLY Calm, Telling, a \in Accounts, <1>1, <2>3, <2>4, TellingMoves
  <1>4. CASE Queue!Warm(a)
    <2>. DEFINE q == [arrivals |-> o.arrivals, maintenance |-> TRUE]
    <2>1. queue' = [queue EXCEPT ![a].maintenance = TRUE]
          BY <1>4 DEF Queue!Warm
    <2>2. queue' = [queue EXCEPT ![a] = q]
      <3>1. queue[a] = [arrivals |-> o.arrivals, maintenance |-> o.maintenance]
            BY <1>1 DEF Tells
      <3>2. [queue EXCEPT ![a].maintenance = TRUE]
               = [queue EXCEPT ![a] = [arrivals |-> o.arrivals, maintenance |-> TRUE]]
            BY ONLY a \in Accounts, <3>1, QueueMoves, Zenon
      <3>. QED  BY <2>1, <3>2
    <2>3. Tells(worker[a], q, heard[a])
          BY <1>1 DEF Tells
    <2>. HIDE DEF q
    <2>. QED  BY ONLY Calm, Telling, a \in Accounts, <1>1, <2>2, <2>3, TellingMoves
  <1>. QED  BY <1>3, <1>4

LEMMA StopTells ==
    ASSUME Telling, UNCHANGED <<worker, queue, heard>>
    PROVE  Telling'
  <1>1. \A x \in Accounts : Tells(worker'[x], queue'[x], heard'[x])
        BY DEF Telling
  <1>2. \A x \in Accounts : Tells(worker[x], queue[x], heard[x])'
        BY <1>1 DEF Tells, Queue!Msgs, Targets, Ended, WorkerFields
  <1>. QED  BY <1>2 DEF Telling

LEMMA StartTells ==
    ASSUME Calm, Telling, NEW a \in Accounts, Queue!Start(a)
    PROVE  Telling'
  <1>. DEFINE q == [arrivals |-> <<>>, maintenance |-> FALSE]
  <1>1. /\ Queue!Now(a, Queue!Fresh) /\ queue' = [queue EXCEPT ![a] = q]
        /\ heard' = [heard EXCEPT ![a] = <<>>]
        BY DEF Queue!Start
  <1>2. Tells(Queue!Fresh, q, <<>>)
        BY FreshTells
  <1>. HIDE DEF q
  <1>. QED  BY ONLY Calm, Telling, a \in Accounts, <1>1, <1>2, TellingMoves

LEMMA TakeTells ==
    ASSUME Calm, Telling, NEW a \in Accounts, Queue!Take(a)
    PROVE  Telling'
  <1>. DEFINE v == worker[a]
              o == queue[a]
  <1>1. /\ Tells(v, o, heard[a]) /\ WorkerOK(v) /\ v.plan = <<>> /\ v.task = <<>>
        /\ heard' = [heard EXCEPT ![a] = <<>>]
        BY DEF Calm, Telling, Tells, WorkerOK, Queue!Take, Queue!At
  <1>2. queue = [x \in Accounts |-> queue[x]]
        BY DEF Telling
  <1>3. CASE Queue!Now(a, [v EXCEPT !.at = "ended"]) /\ UNCHANGED queue
    <2>. DEFINE w == [v EXCEPT !.at = "ended"]
    <2>1. Tells(w, o, <<>>)
      <3>1. /\ WorkerFields \subseteq DOMAIN w /\ w.batch = v.batch /\ w.sel = v.sel
            /\ w.pages = v.pages /\ w.plan = v.plan /\ w.ended = v.ended /\ w.task = v.task
            /\ w.offset = v.offset
            BY <1>1 DEF Tells, WorkerFields
      <3>2. PartOf(<<>>, w.batch.pending)
            BY EmptyIs
      <3>. HIDE DEF w
      <3>. QED  BY <1>1, <3>1, <3>2 DEF Tells
    <2>2. Queue!Now(a, w)
          BY <1>3
    <2>. HIDE DEF w
    <2>. QED  BY ONLY Calm, Telling, a \in Accounts, <1>1, <1>3, <2>1, <2>2, TellingMoves
  <1>4. CASE /\ o.arrivals # <<>>
             /\ Queue!Now(a, [v EXCEPT !.at = "plan", !.sel = <<>>,
                                !.batch = [pending |-> Head(o.arrivals), warm |-> FALSE]])
             /\ queue' = [queue EXCEPT ![a].arrivals = Tail(@)]
    <2>. DEFINE w == [v EXCEPT !.at = "plan", !.sel = <<>>,
                        !.batch = [pending |-> Head(o.arrivals), warm |-> FALSE]]
                q == [arrivals |-> Tail(o.arrivals), maintenance |-> o.maintenance]
    <2>1. Head(o.arrivals) \in Seq(Queue!Msgs) /\ Tail(o.arrivals) \in Seq(Seq(Queue!Msgs))
          BY <1>1, <1>4 DEF Tells
    <2>2. queue' = [queue EXCEPT ![a] = q]
      <3>1. queue[a] = [arrivals |-> o.arrivals, maintenance |-> o.maintenance]
            BY <1>1 DEF Tells
      <3>2. [queue EXCEPT ![a].arrivals = Tail(@)] = [queue EXCEPT ![a].arrivals = Tail(o.arrivals)]
            OBVIOUS
      <3>3. [queue EXCEPT ![a].arrivals = Tail(o.arrivals)]
               = [queue EXCEPT ![a] = [arrivals |-> Tail(o.arrivals),
                                       maintenance |-> o.maintenance]]
            BY ONLY a \in Accounts, <3>1, QueueMoves, Zenon
      <3>. QED  BY <1>4, <3>2, <3>3
    <2>3. Tells(w, q, <<>>)
      <3>1. /\ WorkerFields \subseteq DOMAIN w /\ w.batch.pending = Head(o.arrivals)
            /\ w.sel = <<>> /\ w.pages = v.pages /\ w.plan = <<>> /\ w.ended = v.ended
            /\ w.task = v.task /\ w.offset = v.offset
            BY <1>1 DEF Tells, WorkerOK, Parts, WorkerFields
      <3>2. \A ms : PartOf(<<>>, ms) /\ Follows(<<>>, ms)
            BY EmptyIs
      <3>3. q.arrivals = Tail(o.arrivals) /\ q = [arrivals |-> q.arrivals, maintenance |-> q.maintenance]
            OBVIOUS
      <3>. HIDE DEF w, q
      <3>. QED  BY <1>1, <2>1, <3>1, <3>2, <3>3 DEF Tells
    <2>4. Queue!Now(a, w)
          BY <1>4
    <2>. HIDE DEF w, q
    <2>. QED  BY ONLY Calm, Telling, a \in Accounts, <1>1, <2>2, <2>3, <2>4, TellingMoves
  <1>5. CASE /\ Queue!Now(a, [v EXCEPT !.at = "load", !.sel = <<>>, !.pages = 0,
                                !.batch = [pending |-> <<>>, warm |-> TRUE]])
             /\ queue' = [queue EXCEPT ![a].maintenance = FALSE]
    <2>. DEFINE w == [v EXCEPT !.at = "load", !.sel = <<>>, !.pages = 0,
                        !.batch = [pending |-> <<>>, warm |-> TRUE]]
                q == [arrivals |-> o.arrivals, maintenance |-> FALSE]
    <2>1. queue' = [queue EXCEPT ![a] = q]
      <3>1. queue[a] = [arrivals |-> o.arrivals, maintenance |-> o.maintenance]
            BY <1>1 DEF Tells
      <3>2. [queue EXCEPT ![a].maintenance = FALSE]
               = [queue EXCEPT ![a] = [arrivals |-> o.arrivals, maintenance |-> FALSE]]
            BY ONLY a \in Accounts, <3>1, QueueMoves, Zenon
      <3>. QED  BY <1>5, <3>2
    <2>2. Tells(w, q, <<>>)
      <3>1. /\ WorkerFields \subseteq DOMAIN w /\ w.batch.pending = <<>>
            /\ w.sel = <<>> /\ w.pages = 0 /\ w.plan = <<>> /\ w.ended = v.ended
            /\ w.task = v.task /\ w.offset = v.offset
            BY <1>1 DEF Tells, WorkerOK, Parts, WorkerFields
      <3>2. \A ms : PartOf(<<>>, ms) /\ Follows(<<>>, ms)
            BY EmptyIs
      <3>3. /\ q.arrivals = o.arrivals
            /\ q = [arrivals |-> q.arrivals, maintenance |-> q.maintenance]
            OBVIOUS
      <3>. HIDE DEF w, q
      <3>. QED  BY <1>1, <3>1, <3>2, <3>3 DEF Tells
    <2>3. Queue!Now(a, w)
          BY <1>5
    <2>. HIDE DEF w, q
    <2>. QED  BY ONLY Calm, Telling, a \in Accounts, <1>1, <2>1, <2>2, <2>3, TellingMoves
  <1>. QED  BY <1>3, <1>4, <1>5 DEF Queue!Take

(* A page of candidates, and any first part of a sequence.                  *)
LEMMA PartIs ==
    ASSUME NEW X, NEW s \in Seq(X), NEW m \in Nat, NEW n \in Int
    PROVE  SubSeq(s, m + 1, IF Len(s) < n THEN Len(s) ELSE n) \in Seq(X)
  <1>. DEFINE l == IF Len(s) < n THEN Len(s) ELSE n
  <1>1. Len(s) \in Nat /\ l \in Int /\ l <= Len(s)
        OBVIOUS
  <1>2. \A k \in (m + 1)..l : s[k] \in X
    <2>. SUFFICES ASSUME NEW k \in (m + 1)..l PROVE k \in 1..Len(s)
         OBVIOUS
    <2>. HIDE DEF l
    <2>. QED  BY <1>1
  <1>. HIDE DEF l
  <1>3. SubSeq(s, m + 1, l) \in Seq(X)
        BY <1>1, <1>2, SubSeqProperties
  <1>. QED  BY <1>3 DEF l

LEMMA PlanTells ==
    ASSUME Calm, Telling, Queue!HydrationAssumption, NEW a \in Accounts, Queue!Plan(a)
    PROVE  Telling'
  <1>. DEFINE v == worker[a]
              stars == Queue!Keep(Starred[a], known \ cached)
              some == SubSeq(stars, 1, IF Len(stars) < StarLimit THEN Len(stars) ELSE StarLimit)
              p == Queue!PlanOf(v.batch.pending, v.sel, some)
              w == [v EXCEPT !.at = "run", !.sel = <<>>, !.next = 1, !.task = <<>>,
                      !.ended = <<>>, !.plan = p]
  <1>1. Tells(v, queue[a], heard[a]) /\ WorkerOK(v)
        BY DEF Calm, Telling
  <1>2. Queue!Now(a, w) /\ UNCHANGED <<queue, heard>>
        BY DEF Queue!Plan
  <1>3. some \in Seq(Queue!Msgs)
    <2>1. stars \in Seq(Queue!Msgs) /\ StarLimit \in Nat
          BY KeepIs DEF Queue!HydrationAssumption
    <2>. HIDE DEF stars
    <2>2. SubSeq(stars, 0 + 1, IF Len(stars) < StarLimit THEN Len(stars) ELSE StarLimit)
             \in Seq(Queue!Msgs)
          BY <2>1, PartIs
    <2>. QED  BY <2>2
  <1>. HIDE DEF some
  <1>4. p \in Seq(Targets) /\ Follows(p, v.batch.pending)
        BY <1>1, <1>3, PlanFollows DEF Tells
  <1>. HIDE DEF p
  <1>5. /\ WorkerFields \subseteq DOMAIN w /\ w.batch = v.batch /\ w.sel = <<>> /\ w.at = "run"
        /\ w.pages = v.pages /\ w.plan = p /\ w.ended = <<>> /\ w.task = <<>>
        /\ w.offset = v.offset
        BY <1>1 DEF Tells, WorkerOK, Parts, WorkerFields
  <1>. HIDE DEF w
  <1>6. Len(<<>>) = 0 /\ Len(p) \in Nat /\ \A X : <<>> \in Seq(X)
        BY <1>4
  <1>7. Tells(w, queue[a], heard[a])
        BY <1>1, <1>4, <1>5, <1>6 DEF Tells
  <1>. QED  BY ONLY Calm, Telling, a \in Accounts, <1>2, <1>7, TellingMoves

LEMMA FillTells ==
    ASSUME Calm, Telling, NEW a \in Accounts, Queue!Fill(a)
    PROVE  Telling'
  <1>. DEFINE v == worker[a]
              w == [v EXCEPT !.next = @ + 1, !.task = Append(@, "wait")]
  <1>1. Tells(v, queue[a], heard[a]) /\ WorkerOK(v) /\ v.at = "run"
        BY DEF Calm, Telling, Queue!Fill, Queue!At
  <1>2. Queue!Now(a, w) /\ v.next <= Len(v.plan) /\ UNCHANGED <<queue, heard>>
        BY DEF Queue!Fill
  <1>3. /\ WorkerFields \subseteq DOMAIN w /\ w.batch = v.batch /\ w.sel = v.sel /\ w.at = v.at
        /\ w.pages = v.pages /\ w.plan = v.plan /\ w.ended = v.ended
        /\ w.task = Append(v.task, "wait") /\ w.offset = v.offset
        BY <1>1 DEF Tells, WorkerOK, Parts, WorkerFields
  <1>. HIDE DEF w
  <1>4. Len(w.task) <= Len(w.plan)
        BY <1>1, <1>2, <1>3 DEF WorkerOK, Progress
  <1>5. Tells(w, queue[a], heard[a])
        BY <1>1, <1>3, <1>4 DEF Tells
  <1>. QED  BY ONLY Calm, Telling, a \in Accounts, <1>2, <1>5, TellingMoves

(* A task goes on, or ends.                                                 *)
LEMMA TaskTells ==
    ASSUME Calm, Telling, NEW a \in Accounts, NEW i \in DOMAIN worker[a].task,
           \/ Queue!Now(a, [worker[a] EXCEPT !.task[i] = "fetch"])
           \/ \E res \in {"ok", "none", "error", "cancelled", "dropped"} :
                 Queue!Now(a, Queue!End(a, i, res)),
           UNCHANGED <<queue, heard>>
    PROVE  Telling'
  <1>. DEFINE v == worker[a]
  <1>1. /\ Tells(v, queue[a], heard[a]) /\ WorkerOK(v) /\ v.at = "run"
        /\ v.task \in Progress /\ i \in 1..Len(v.task)
        BY HasTask DEF Calm, Telling, WorkerOK, Progress
  <1>2. \A r : Len([v.task EXCEPT ![i] = r]) = Len(v.task)
        BY <1>1 DEF Progress
  <1>3. CASE Queue!Now(a, [worker[a] EXCEPT !.task[i] = "fetch"])
    <2>. DEFINE w == [v EXCEPT !.task[i] = "fetch"]
    <2>1. /\ WorkerFields \subseteq DOMAIN w /\ w.batch = v.batch /\ w.sel = v.sel /\ w.at = v.at
          /\ w.pages = v.pages /\ w.plan = v.plan /\ w.ended = v.ended
          /\ w.task = [v.task EXCEPT ![i] = "fetch"] /\ w.offset = v.offset
          BY <1>1 DEF Tells, WorkerOK, Parts, WorkerFields
    <2>2. Queue!Now(a, w)
          BY <1>3
    <2>. HIDE DEF w
    <2>3. Tells(w, queue[a], heard[a])
          BY <1>1, <1>2, <2>1 DEF Tells
    <2>. QED  BY ONLY Calm, Telling, a \in Accounts, UNCHANGED <<queue, heard>>, <2>2, <2>3,
                 TellingMoves
  <1>4. ASSUME NEW res \in {"ok", "none", "error", "cancelled", "dropped"},
               Queue!Now(a, Queue!End(a, i, res))
        PROVE  Telling'
    <2>. DEFINE w == Queue!End(a, i, res)
                e == IF res = "dropped" THEN v.ended ELSE Append(v.ended, [i |-> i, res |-> res])
    <2>1. /\ WorkerFields \subseteq DOMAIN w /\ w.batch = v.batch /\ w.sel = v.sel /\ w.at = v.at
          /\ w.pages = v.pages /\ w.plan = v.plan /\ w.ended = e
          /\ w.task = [v.task EXCEPT ![i] = "ended"] /\ w.offset = v.offset
          BY <1>1 DEF Queue!End, Tells, WorkerOK, Parts, WorkerFields
    <2>2. e \in Seq(Ended(Len(v.plan)))
      <3>1. i \in 1..Len(v.plan)
        <4>1. Len(v.plan) \in Nat /\ Len(v.task) \in Nat /\ Len(v.task) <= Len(v.plan)
              BY <1>1 DEF Tells, Progress
        <4>. QED  BY <1>1, <4>1
      <3>2. res # "dropped" => [i |-> i, res |-> res] \in Ended(Len(v.plan))
            BY <1>4, <3>1 DEF Ended
      <3>3. v.ended \in Seq(Ended(Len(v.plan)))
            BY <1>1 DEF Tells
      <3>4. CASE res = "dropped"
            BY <3>3, <3>4
      <3>5. CASE res # "dropped"
        <4>1. PICK r : r = [i |-> i, res |-> res]
              OBVIOUS
        <4>2. Append(v.ended, r) \in Seq(Ended(Len(v.plan)))
              BY <3>2, <3>3, <3>5, <4>1
        <4>. QED  BY <3>5, <4>1, <4>2
      <3>. QED  BY <3>4, <3>5
    <2>3. Queue!Now(a, w)
          BY <1>4
    <2>. HIDE DEF w, e
    <2>4. Tells(w, queue[a], heard[a])
          BY <1>1, <1>2, <2>1, <2>2 DEF Tells
    <2>. QED  BY ONLY Calm, Telling, a \in Accounts, UNCHANGED <<queue, heard>>, <2>3, <2>4,
                 TellingMoves
  <1>. QED  BY <1>3, <1>4

LEMMA PublishTells ==
    ASSUME Calm, Telling, NEW a \in Accounts, Queue!Publish(a)
    PROVE  Telling'
  <1>. DEFINE v == worker[a]
              rs == Queue!InPlanOrder(v.ended)
              S == {k \in DOMAIN rs : rs[k].res = "ok" /\ v.plan[rs[k].i].kind = "pending"}
              es == Queue!Select(rs, S)
              t == [k \in DOMAIN es |-> v.plan[es[k].i].msg]
  <1>1. Tells(v, queue[a], heard[a]) /\ WorkerOK(v)
        BY DEF Calm, Telling
  <1>2. heard' = [heard EXCEPT ![a] = t] /\ UNCHANGED queue
        BY Zenon DEF Queue!Publish
  <1>3. PartOf(t, v.batch.pending)
        BY <1>1, EventsFollow DEF Tells
  <1>. HIDE DEF t
  <1>4. PICK c : Queue!Now(a, [v EXCEPT !.at = "select", !.plan = <<>>, !.task = <<>>,
                                 !.ended = <<>>, !.next = 1, !.pages = 0, !.cool = c])
        BY DEF Queue!Publish
  <1>. DEFINE w == [v EXCEPT !.at = "select", !.plan = <<>>, !.task = <<>>,
                      !.ended = <<>>, !.next = 1, !.pages = 0, !.cool = c]
  <1>5. /\ WorkerFields \subseteq DOMAIN w /\ w.batch = v.batch /\ w.sel = v.sel
        /\ w.pages = 0 /\ w.plan = <<>> /\ w.ended = <<>> /\ w.task = <<>> /\ w.offset = v.offset
        BY <1>1 DEF Tells, WorkerOK, Parts, WorkerFields
  <1>6. Queue!Now(a, w)
        BY <1>4
  <1>. HIDE DEF w
  <1>7. Follows(<<>>, v.batch.pending) /\ Len(<<>>) = 0 /\ \A X : <<>> \in Seq(X)
        BY EmptyIs
  <1>8. Tells(w, queue[a], t)
        BY <1>1, <1>3, <1>5, <1>7 DEF Tells
  <1>. QED  BY ONLY Calm, Telling, a \in Accounts, <1>2, <1>6, <1>8, TellingMoves

LEMMA LoadTells ==
    ASSUME Calm, Telling, Queue!HydrationAssumption, NEW a \in Accounts, Queue!Load(a)
    PROVE  Telling'
  <1>. DEFINE v == worker[a]
  <1>1. /\ Tells(v, queue[a], heard[a]) /\ WorkerOK(v) /\ v.at = "load" /\ v.plan = <<>>
        /\ UNCHANGED <<queue, heard>>
        BY DEF Calm, Telling, Tells, Queue!Load, Queue!At
  <1>2. /\ Newest[a] \in Seq(Queue!Msgs) /\ Limit \in Nat \ {0} /\ Pages \in Nat
        BY DEF Queue!HydrationAssumption
  <1>3. PICK c :
           \/ Queue!Now(a, [[v EXCEPT !.cool = c] EXCEPT !.at = "plan", !.sel = <<>>])
           \/ LET u    == [v EXCEPT !.cool = c]
                  page == Queue!Page(a, u.offset + u.pages * Limit)
                  pick == Queue!Keep(page, Queue!Range(page) \ u.cool)
                  room == Limit - Len(u.sel)
                  sel  == u.sel \o SubSeq(pick, 1, IF Len(pick) < room THEN Len(pick) ELSE room)
                  full == Len(sel) = Limit
                  over == page = <<>> \/ full \/ u.pages + 1 = Pages
              IN Queue!Now(a, [u EXCEPT !.sel = sel, !.pages = @ + 1,
                         !.at = IF over THEN "plan" ELSE "load",
                         !.offset = IF over THEN Queue!NextOffset(u, u.pages + 1, page = <<>>, full)
                                    ELSE @])
        BY LoadIs, Zenon
  <1>. DEFINE u == [v EXCEPT !.cool = c]
  <1>4. /\ WorkerFields \subseteq DOMAIN u /\ Parts \subseteq DOMAIN u
        /\ u.batch = v.batch /\ u.sel = v.sel
        /\ u.at = v.at /\ u.pages = v.pages /\ u.plan = <<>> /\ u.ended = v.ended
        /\ u.task = v.task /\ u.offset = v.offset
        BY <1>1 DEF Tells, WorkerOK, Parts, WorkerFields
  <1>. HIDE DEF u
  <1>5. /\ Tells(u, queue[a], heard[a]) /\ u.plan = <<>> /\ u.sel \in Seq(Queue!Msgs)
        /\ u.offset \in Nat /\ u.pages \in Nat
        BY <1>1, <1>4 DEF Tells
  <1>6. ASSUME NEW s \in Seq(Queue!Msgs), NEW pages \in Nat, NEW offset \in Nat,
               NEW at \in {"plan", "load"},
               NEW w, w = [u EXCEPT !.sel = s, !.pages = pages, !.at = at, !.offset = offset],
               Queue!Now(a, w)
        PROVE  Telling'
    <2>1. /\ WorkerFields \subseteq DOMAIN w /\ w.batch = u.batch /\ w.sel = s
          /\ w.pages = pages /\ w.plan = <<>> /\ w.ended = u.ended /\ w.task = u.task
          /\ w.offset = offset
          BY <1>4, <1>6 DEF Parts, WorkerFields
    <2>2. Tells(w, queue[a], heard[a])
          BY <1>5, <1>6, <2>1 DEF Tells
    <2>. QED  BY ONLY Calm, Telling, a \in Accounts, <1>1, <1>6, <2>2, TellingMoves
  <1>7. CASE Queue!Now(a, [u EXCEPT !.at = "plan", !.sel = <<>>])
    <2>. DEFINE w == [u EXCEPT !.at = "plan", !.sel = <<>>]
    <2>1. /\ WorkerFields \subseteq DOMAIN w /\ w.batch = u.batch /\ w.sel = <<>>
          /\ w.pages = u.pages /\ w.plan = <<>> /\ w.ended = u.ended /\ w.task = u.task
          /\ w.offset = u.offset
          BY <1>4 DEF Parts, WorkerFields
    <2>2. Queue!Now(a, w)
          BY <1>7
    <2>. HIDE DEF w
    <2>3. Tells(w, queue[a], heard[a])
          BY <1>5, <2>1 DEF Tells
    <2>. QED  BY ONLY Calm, Telling, a \in Accounts, <1>1, <2>2, <2>3, TellingMoves
  <1>. DEFINE page == Queue!Page(a, u.offset + u.pages * Limit)
              pick == Queue!Keep(page, Queue!Range(page) \ u.cool)
              room == Limit - Len(u.sel)
              sel  == u.sel \o SubSeq(pick, 1, IF Len(pick) < room THEN Len(pick) ELSE room)
              full == Len(sel) = Limit
              over == page = <<>> \/ full \/ u.pages + 1 = Pages
              offset == IF over THEN Queue!NextOffset(u, u.pages + 1, page = <<>>, full)
                        ELSE u.offset
  <1>8. CASE Queue!Now(a, [u EXCEPT !.sel = sel, !.pages = @ + 1,
                         !.at = IF over THEN "plan" ELSE "load",
                         !.offset = IF over THEN Queue!NextOffset(u, u.pages + 1, page = <<>>, full)
                                    ELSE @])
    <2>1. pick \in Seq(Queue!Msgs)
      <3>1. PICK o : o = u.offset + u.pages * Limit /\ o \in Nat
            BY <1>2, <1>5
      <3>2. Queue!Page(a, o) \in Seq(Queue!Msgs)
        <4>. DEFINE all == Queue!Keep(Newest[a], known \ cached)
        <4>1. all \in Seq(Queue!Msgs) /\ o + Limit \in Int
              BY <1>2, <3>1, KeepIs
        <4>2. Queue!Page(a, o) = SubSeq(all, o + 1, IF Len(all) < o + Limit THEN Len(all)
                                                     ELSE o + Limit)
              BY DEF Queue!Page
        <4>. HIDE DEF all
        <4>. QED  BY <3>1, <4>1, <4>2, PartIs
      <3>3. page \in Seq(Queue!Msgs)
            BY <3>1, <3>2
      <3>. HIDE DEF page
      <3>. QED  BY <3>3, KeepIs
    <2>2. sel \in Seq(Queue!Msgs)
      <3>. HIDE DEF pick
      <3>1. room \in Int /\ u.sel \in Seq(Queue!Msgs)
            BY <1>2, <1>5
      <3>. HIDE DEF room
      <3>. DEFINE more == SubSeq(pick, 0 + 1, IF Len(pick) < room THEN Len(pick) ELSE room)
      <3>2. more \in Seq(Queue!Msgs)
            BY <2>1, <3>1, PartIs
      <3>3. sel = u.sel \o more
            OBVIOUS
      <3>. HIDE DEF more, sel
      <3>. QED  BY <3>1, <3>2, <3>3, ConcatProperties
    <2>3. offset \in Nat
      <3>1. Queue!NextOffset(u, u.pages + 1, page = <<>>, full) \in Nat
        <4>0. PICK n \in Nat, l \in Nat : n = u.pages + 1 /\ l = Limit
              BY <1>2, <1>5
        <4>1. u.offset + (u.pages + 1) * Limit \in Nat
          <5>1. u.offset + n * l \in Nat
                BY <1>5
          <5>. QED  BY <4>0, <5>1
        <4>. HIDE DEF page, full
        <4>. QED  BY <4>1 DEF Queue!NextOffset
      <3>. HIDE DEF over, page, full
      <3>. QED  BY <1>5, <3>1
    <2>. DEFINE w == [u EXCEPT !.sel = sel, !.pages = u.pages + 1,
                         !.at = IF over THEN "plan" ELSE "load", !.offset = offset]
    <2>4. Queue!Now(a, w)
      <3>. HIDE DEF sel, over, page, full
      <3>. QED  BY <1>8
    <2>. HIDE DEF sel, offset, over
    <2>5. u.pages + 1 \in Nat /\ (IF over THEN "plan" ELSE "load") \in {"plan", "load"}
          BY <1>5
    <2>6. PICK at : at = (IF over THEN "plan" ELSE "load") /\ at \in {"plan", "load"}
          BY <2>5
    <2>7. w = [u EXCEPT !.sel = sel, !.pages = u.pages + 1, !.at = at, !.offset = offset]
          BY <2>6
    <2>. HIDE DEF w
    <2>. QED  BY <1>6, <2>2, <2>3, <2>4, <2>5, <2>6, <2>7
  <1>. QED  BY <1>3, <1>7, <1>8 DEF u

LEMMA TellingKeeps ==
    ASSUME Calm, Telling, Queue!HydrationAssumption, [Queue!Next]_(Queue!vars)
    PROVE  Telling'
  <1>1. CASE UNCHANGED Queue!vars
        BY <1>1, StopTells DEF Queue!vars
  <1>. SUFFICES ASSUME NEW a \in Accounts,
                  \/ \E ms \in SUBSET New : Queue!Arrive(a, ms)
                  \/ Queue!Warm(a) \/ Queue!Stop(a) \/ Queue!Stopped(a) \/ Queue!Start(a)
                  \/ Queue!Take(a) \/ Queue!Load(a) \/ Queue!Plan(a) \/ Queue!Fill(a)
                  \/ Queue!Publish(a)
                  \/ \E i \in DOMAIN worker[a].task :
                        Queue!Acquire(a, i) \/ Queue!Drop(a, i) \/ Queue!Fetch(a, i)
                PROVE  Telling'
       BY <1>1 DEF Queue!Next
  <1>2. CASE (\E ms \in SUBSET New : Queue!Arrive(a, ms)) \/ Queue!Warm(a)
        BY <1>2, CycleTells
  <1>3. CASE Queue!Stop(a) \/ Queue!Stopped(a)
        BY <1>3, StopTells DEF Queue!Stop, Queue!Stopped
  <1>4. CASE Queue!Start(a)
        BY <1>4, StartTells
  <1>5. CASE Queue!Take(a)
        BY <1>5, TakeTells
  <1>6. CASE Queue!Load(a)
        BY <1>6, LoadTells
  <1>7. CASE Queue!Plan(a)
        BY <1>7, PlanTells
  <1>8. CASE Queue!Fill(a)
        BY <1>8, FillTells
  <1>9. CASE Queue!Publish(a)
        BY <1>9, PublishTells
  <1>10. ASSUME NEW i \in DOMAIN worker[a].task,
                Queue!Acquire(a, i) \/ Queue!Drop(a, i) \/ Queue!Fetch(a, i)
         PROVE  Telling'
    <2>1. /\ \/ Queue!Now(a, [worker[a] EXCEPT !.task[i] = "fetch"])
             \/ \E res \in {"ok", "none", "error", "cancelled", "dropped"} :
                   Queue!Now(a, Queue!End(a, i, res))
          /\ UNCHANGED <<queue, heard>>
      <3>1. CASE Queue!Acquire(a, i)
            BY <3>1 DEF Queue!Acquire
      <3>2. CASE Queue!Drop(a, i)
            BY <3>2 DEF Queue!Drop
      <3>3. CASE Queue!Fetch(a, i)
            BY <3>3 DEF Queue!Fetch
      <3>. QED  BY <1>10, <3>1, <3>2, <3>3
    <2>. QED  BY <2>1, TaskTells
  <1>. QED  BY <1>2, <1>3, <1>4, <1>5, <1>6, <1>7, <1>8, <1>9, <1>10

(* The events of a batch come in the order of its arrivals, though fetches  *)
(* finish in any order and in any number, are cancelled or fail             *)
(* (run_bounded_cancellable_ordered).                                       *)
THEOREM EventsInOrder ==
    ASSUME Queue!HydrationAssumption
    PROVE  Queue!Spec => []Queue!ToldInOrder
  <1>1. Queue!Init => Calm /\ Telling
        BY StartsCalm, TellingStarts
  <1>2. (Calm /\ Telling) /\ [Queue!Next]_(Queue!vars) => (Calm /\ Telling)'
        BY QueueKeeps, TellingKeeps
  <1>3. Calm /\ Telling => Queue!ToldInOrder
        BY DEF Telling, Tells, PartOf, Queue!ToldInOrder
  <1>. QED  BY <1>1, <1>2, <1>3, PTL DEF Queue!Spec
=============================================================================
