---------------------------- MODULE Classification ----------------------------
(***************************************************************************)
(* Local classification of mail: drains that classify what is pending, the *)
(* scheduler that coalesces requests for them, and the claim that keeps    *)
(* two processes from undoing each other's decisions.                      *)
(*                                                                         *)
(* The desktop process runs drains on request; a command-line process may  *)
(* classify at the same time, with another revision of the model.  A drain *)
(* reads a batch, classifies it without any lock, and applies the result   *)
(* in a transaction that checks that what it judged is still what is       *)
(* stored.                                                                 *)
(***************************************************************************)
EXTENDS Naturals, FiniteSets

CONSTANTS
    Msgs,       \* the messages
    Drains,     \* tasks of the desktop process that run a drain
    Clis,       \* command-line processes
    Clients,    \* callers of classify_pending_messages
    Desktop,    \* the desktop process as an owner
    NoOwner,
    Revision,   \* the model each process carries, by owner
    BatchSize,  \* CLASSIFICATION_BATCH_SIZE
    MaxRetries, \* CLASSIFICATION_RETRY_DELAYS
    MaxKicks,   \* bound: requests for a drain
    MaxEvents   \* bound: changes to the messages, command lines, failed
                \* inferences and lapsed claims

Runners   == Drains \cup Clis
Owner(r)  == IF r \in Drains THEN Desktop ELSE r
Owners    == {Desktop} \cup Clis

ClassificationAssumption ==
    /\ Drains \cap Clis = {} /\ Desktop \notin Clis /\ NoOwner \notin Owners
    /\ Revision \in [Owners -> Nat \ {0}] /\ BatchSize \in Nat \ {0}
    /\ {MaxRetries, MaxKicks, MaxEvents} \subseteq Nat /\ IsFiniteSet(Msgs)

VARIABLES
    mail,    \* message -> its evidence, who classified it, and on what
    meta,    \* app_meta: the owner, whether it was active lately, the revision
    sched,   \* ClassificationScheduleState
    runner,  \* runner -> where its drain is, and its locals
    client,  \* client -> what it waits for
    events   \* how often something else than the desktop's drains interfered

vars == <<mail, meta, sched, runner, client, events>>

(* A decision: the evidence, the correspondence and the revision it rests on *)
Undecided == [ev |-> 0, known |-> FALSE, rev |-> 0]
Rest      == [at |-> "idle", gen |-> 0, tries |-> 0, batch |-> {}, ev |-> <<>>,
              known |-> {}]
NoWait    == [at |-> "idle", gen |-> 0, woken |-> FALSE, asked |-> {}]

(* Some messages have not arrived; an earlier run left a revision.           *)
Init ==
    /\ \E here \in SUBSET Msgs :
          mail = [m \in Msgs |-> [ev |-> 1, known |-> FALSE, on |-> Undecided,
                                 by |-> IF m \in here THEN "nobody" ELSE "absent"]]
    /\ meta = [owner |-> NoOwner, active |-> FALSE, rev |-> Revision[Desktop]]
    /\ sched = [running |-> FALSE, requested |-> 0, completed |-> 0, failed |-> 0]
    /\ runner = [r \in Runners |-> Rest]
    /\ client = [c \in Clients |-> NoWait]
    /\ events = 0

Event   == events < MaxEvents /\ events' = events + 1
Pending == {m \in Msgs : mail[m].by = "nobody"}
At(r, at) == runner[r].at = at
Now(r, l) == runner' = [runner EXCEPT ![r] = l]
Go(r, at) == Now(r, [runner[r] EXCEPT !.at = at])

(* A message leaves what clients asked for when it is classified or changes. *)
Settled(ms) == client' = [c \in Clients |-> [client[c] EXCEPT !.asked = @ \ ms]]
Notify(cl)  == [c \in Clients |-> IF cl[c].at \in {"check", "drowsy", "sleep"}
                                  THEN [cl[c] EXCEPT !.woken = TRUE] ELSE cl[c]]

-----------------------------------------------------------------------------
(* ClassificationScheduler *)

(* request: a new generation, and a runner unless one is running. *)
Request ==
    /\ sched.requested < MaxKicks
    /\ sched' = [sched EXCEPT !.requested = @ + 1, !.running = TRUE]
    /\ IF sched.running THEN UNCHANGED runner
       ELSE \E r \in Drains : At(r, "idle") /\ Go(r, "pass")

(* kick_classification, by mail that arrived, the hydration hook or startup. *)
Kick ==
    /\ Request
    /\ UNCHANGED <<mail, meta, client, events>>

(* classify_pending_messages kicks, then waits for its generation. *)
KickAndWait(c) ==
    /\ client[c].at = "idle"
    /\ Request
    /\ client' = [client EXCEPT ![c] = [NoWait EXCEPT !.at = "register",
                                  !.gen = sched.requested + 1, !.asked = Pending]]
    /\ UNCHANGED <<mail, meta, events>>

(* wait_for: the Notified future exists before the state is looked at. *)
Register(c) ==
    /\ client[c].at = "register"
    /\ client' = [client EXCEPT ![c].at = "check", ![c].woken = FALSE]
    /\ UNCHANGED <<mail, meta, sched, runner, events>>

Look(c) ==
    LET l == client[c]
    IN /\ l.at = "check"
       /\ client' = [client EXCEPT ![c] =
             IF sched.completed < l.gen THEN [l EXCEPT !.at = "drowsy"]
             ELSE [l EXCEPT !.at = IF sched.failed >= l.gen THEN "failed" ELSE "ok",
                            !.woken = FALSE]]
       /\ UNCHANGED <<mail, meta, sched, runner, events>>

(* Mutant: the future is only created to sleep on. *)
SleepsUnwoken(l) == [l EXCEPT !.at = "sleep", !.woken = FALSE]

(* notified.await, without the lock: a notification since is remembered. *)
Sleeps(l) == [l EXCEPT !.at = "sleep"]

Sleep(c) ==
    /\ client[c].at = "drowsy"
    /\ client' = [client EXCEPT ![c] = Sleeps(@)]
    /\ UNCHANGED <<mail, meta, sched, runner, events>>

Wake(c) ==
    /\ client[c].at = "sleep" /\ client[c].woken
    /\ client' = [client EXCEPT ![c].at = "register"]
    /\ UNCHANGED <<mail, meta, sched, runner, events>>

(* Mutant: a pass completes whatever was requested by its end. *)
CompletesAll(gen) == sched.requested

(* finish_generation: a newer request makes the runner pass again. *)
Completes(gen) == gen

Finish(r) ==
    LET l == runner[r]
    IN /\ l.at = "finish"
       /\ IF sched.requested > Completes(l.gen)
          THEN /\ Now(r, [Rest EXCEPT !.at = "pass"])
               /\ UNCHANGED <<sched, client>>
          ELSE /\ sched' = [sched EXCEPT !.completed = Completes(l.gen),
                                         !.failed = 0, !.running = FALSE]
               /\ client' = Notify(client)
               /\ Now(r, [Rest EXCEPT !.at = "release"])
       /\ UNCHANGED <<mail, meta, events>>

(* fail_generation: those who waited hear of it; a newer request is retried. *)
Fail(r) ==
    LET l == runner[r]
        again == sched.requested > l.gen
    IN /\ l.at = "fail"
       /\ sched' = [sched EXCEPT !.completed = l.gen, !.failed = l.gen, !.running = again]
       /\ client' = Notify(client)
       /\ Now(r, [Rest EXCEPT !.at = IF again THEN "pass" ELSE "release"])
       /\ UNCHANGED <<mail, meta, events>>

-----------------------------------------------------------------------------
(* A drain of the desktop: drain_pending_classifications *)

Pass(r) ==
    /\ At(r, "pass")
    /\ Now(r, [Rest EXCEPT !.at = "claim", !.gen = sched.requested])
    /\ UNCHANGED <<mail, meta, sched, client, events>>

(* retry_classification_batch *)
MayRetry(l) == l.tries < MaxRetries

(* A failed batch: the desktop retries, the command line ends. *)
Retry(r) ==
    LET l == runner[r]
    IN Now(r, IF r \in Clis THEN [Rest EXCEPT !.at = "release"]
              ELSE IF MayRetry(l) THEN [Rest EXCEPT !.at = "claim", !.gen = l.gen,
                                                    !.tries = l.tries + 1]
              ELSE [Rest EXCEPT !.at = "fail", !.gen = l.gen])

(* claim_classification_revision: another owner that was active lately      *)
(* refuses it; another revision requeues what the model decided.            *)
Claimable(o) == meta.owner \in {NoOwner, o} \/ ~meta.active

Claim(r) ==
    LET o == Owner(r)
        new == Revision[o] # meta.rev
    IN /\ At(r, "claim")
       /\ IF Claimable(o)
          THEN /\ meta' = [owner |-> o, active |-> TRUE, rev |-> Revision[o]]
               /\ mail' = [m \in Msgs |-> IF new /\ mail[m].by = "model"
                             THEN [mail[m] EXCEPT !.by = "nobody", !.on = Undecided]
                             ELSE mail[m]]
               /\ Go(r, "select")
          ELSE Retry(r) /\ UNCHANGED <<meta, mail>>
       /\ UNCHANGED <<sched, client, events>>

(* messages_for_model_classification_batch; classify --all of the command   *)
(* line takes what the model decided too.                                   *)
Select(r) ==
    LET wanted == IF r \in Clis THEN {Pending, {m \in Msgs : mail[m].by \notin {"user", "absent"}}}
                  ELSE {Pending}
    IN /\ At(r, "select")
       /\ \E from \in wanted : \E b \in SUBSET from :
             /\ Cardinality(b) = IF Cardinality(from) < BatchSize
                                 THEN Cardinality(from) ELSE BatchSize
             /\ Now(r, IF b # {} THEN [runner[r] EXCEPT !.at = "known", !.batch = b,
                                            !.ev = [m \in b |-> mail[m].ev]]
                       ELSE [Rest EXCEPT !.at = IF r \in Clis THEN "release" ELSE "finish",
                                         !.gen = runner[r].gen])
       /\ UNCHANGED <<mail, meta, sched, client, events>>

(* messages_from_known_correspondents, a query of its own. *)
Known(r) ==
    /\ At(r, "known")
    /\ Now(r, [runner[r] EXCEPT !.at = "infer",
                  !.known = {m \in runner[r].batch : mail[m].known}])
    /\ UNCHANGED <<mail, meta, sched, client, events>>

(* The classifier runs on a blocking thread, and may fail. *)
Infer(r) ==
    /\ At(r, "infer")
    /\ \/ Go(r, "apply") /\ UNCHANGED events
       \/ /\ Event /\ Retry(r)
    /\ UNCHANGED <<mail, meta, sched, client>>

(* Mutants: the claim alone is checked; a user's decision counts as any.    *)
SameClaim(r, m)   == meta.owner = Owner(r) /\ meta.rev = Revision[Owner(r)]
                     /\ mail[m].by # "user"
AnyDecider(r, m)  == /\ mail[m].ev = runner[r].ev[m]
                     /\ mail[m].known = (m \in runner[r].known)
                     /\ meta.owner = Owner(r) /\ meta.rev = Revision[Owner(r)]

(* The WHERE clause of apply_model_classifications. *)
Applies(r, m) ==
    /\ mail[m].ev = runner[r].ev[m] /\ mail[m].known = (m \in runner[r].known)
    /\ meta.owner = Owner(r) /\ meta.rev = Revision[Owner(r)]
    /\ mail[m].by # "user"

(* A batch of which some result did not apply is retried; a full batch is   *)
(* followed by another within the same pass.                                *)
Apply(r) ==
    LET l == runner[r]
        done == {m \in l.batch : Applies(r, m)}
        more == Cardinality(l.batch) = BatchSize
    IN /\ l.at = "apply"
       /\ mail' = [m \in Msgs |-> IF m \in done
                     THEN [mail[m] EXCEPT !.by = "model",
                             !.on = [ev |-> l.ev[m], known |-> m \in l.known,
                                     rev |-> Revision[Owner(r)]]]
                     ELSE mail[m]]
       /\ Settled(done)
       /\ IF done # l.batch THEN Retry(r)
          ELSE Now(r, [Rest EXCEPT !.gen = l.gen,
                  !.at = IF r \in Clis THEN "claim" ELSE IF more THEN "pass" ELSE "finish"])
       /\ UNCHANGED <<meta, sched, events>>

(* release_classification_revision, after the scheduler was told: the next  *)
(* drain of this process, which has the same owner, may have begun.         *)
Release(r) ==
    LET o == Owner(r)
    IN /\ At(r, "release") /\ Now(r, Rest)
       /\ meta' = IF meta.owner = o THEN [meta EXCEPT !.owner = NoOwner, !.active = FALSE]
                  ELSE meta
       /\ UNCHANGED <<mail, sched, client, events>>

-----------------------------------------------------------------------------
(* The command line, the user, the messages, and a clock *)

CliStart(r) ==
    /\ r \in Clis /\ At(r, "idle") /\ Event /\ Go(r, "claim")
    /\ UNCHANGED <<mail, meta, sched, client>>

(* persist_message of a new message with its body (or a hydrated one). *)
Arrive(m) ==
    /\ mail[m].by = "absent"
    /\ mail' = [mail EXCEPT ![m].by = "nobody"]
    /\ UNCHANGED <<meta, sched, runner, client, events>>

(* set_message_category *)
Categorise(m) ==
    /\ mail[m].by \notin {"user", "absent"} /\ Event
    /\ mail' = [mail EXCEPT ![m].by = "user", ![m].on = Undecided]
    /\ Settled({m})
    /\ UNCHANGED <<meta, sched, runner>>

(* A header with other evidence is stored, or new signals                   *)
(* (persist_message, update_classification_signals): only what the model    *)
(* decided is requeued.                                                     *)
NewEvidence(m) ==
    /\ mail[m].by # "absent" /\ Event
    /\ mail' = [mail EXCEPT ![m].ev = @ + 1,
                  ![m].by = IF @ = "model" THEN "nobody" ELSE @, ![m].on = Undecided]
    /\ Settled({m})
    /\ UNCHANGED <<meta, sched, runner>>

(* A message to its sender is found in Sent: relationship evidence. *)
Correspond(m) ==
    /\ ~mail[m].known /\ mail[m].by # "absent" /\ Event
    /\ mail' = [mail EXCEPT ![m].known = TRUE,
                  ![m].by = IF @ = "model" THEN "nobody" ELSE @, ![m].on = Undecided]
    /\ Settled({m})
    /\ UNCHANGED <<meta, sched, runner>>

(* CLASSIFICATION_REVISION_ACTIVITY_SECONDS pass without a claim. *)
Lapse ==
    /\ meta.active /\ Event /\ meta' = [meta EXCEPT !.active = FALSE]
    /\ UNCHANGED <<mail, sched, runner, client>>

Step(r) == \/ Pass(r) \/ Claim(r) \/ Select(r) \/ Known(r) \/ Infer(r)
           \/ Apply(r) \/ Finish(r) \/ Fail(r) \/ Release(r)

Waiting(c) == Register(c) \/ Look(c) \/ Sleep(c) \/ Wake(c)

Next ==
    \/ Kick
    \/ \E c \in Clients : \/ KickAndWait(c) \/ Register(c) \/ Look(c)
                           \/ Sleep(c) \/ Wake(c)
    \/ \E r \in Runners : \/ Pass(r) \/ Claim(r) \/ Select(r) \/ Known(r) \/ Infer(r)
                          \/ Apply(r) \/ Finish(r) \/ Fail(r) \/ Release(r)
    \/ \E r \in Clis : CliStart(r)
    \/ \E m \in Msgs : Arrive(m) \/ Categorise(m) \/ NewEvidence(m) \/ Correspond(m)
    \/ Lapse

(* The runtime polls every task that can run. *)
Fairness == /\ \A r \in Runners : WF_vars(Step(r))
            /\ \A c \in Clients : WF_vars(Waiting(c))

Spec == Init /\ [][Next]_vars /\ Fairness

-----------------------------------------------------------------------------
(* Properties *)

(* A category the model gave rests on the evidence, the correspondence and  *)
(* the revision that are stored now, whatever changed while it was inferred *)
(* (apply_model_classifications).                                           *)
NoStaleCategory ==
    \A m \in Msgs : mail[m].by = "model" =>
       mail[m].on = [ev |-> mail[m].ev, known |-> mail[m].known, rev |-> meta.rev]

(* What the user decided stays (apply_model_classifications, WHERE source). *)
KeepsUser == \A m \in Msgs : mail[m].by = "user" => mail'[m].by = "user"
UserWins  == [][KeepsUser]_vars

(* A caller that is told its classification is done has every message that  *)
(* was pending when it asked classified: its request was not taken for the  *)
(* one of a pass that had already read its batch (finish_generation).       *)
AnsweredMeansDone == \A c \in Clients : client[c].at = "ok" => client[c].asked = {}

(* Drains of the desktop never make each other fail: a drain that releases  *)
(* the claim of its successor costs it a retry, not the request             *)
(* (drain_pending_classifications).                                         *)
LateReleaseHarmless == events = 0 => sched.failed = 0

(* Every caller is answered, whichever way the wake-up and the look race    *)
(* (wait_for).                                                              *)
WaitEnds == \A c \in Clients : [](client[c].at # "idle" => <>(client[c].at \in {"ok", "failed"}))
=============================================================================
