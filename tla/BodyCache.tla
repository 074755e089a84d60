------------------------------ MODULE BodyCache ------------------------------
(***************************************************************************)
(* How the body of a message reaches the local store, and what keeps a     *)
(* late body from landing on a message it no longer belongs to.            *)
(*                                                                         *)
(* Readers open messages in windows and warmers hydrate them in the        *)
(* background; both take a durable claim, fetch the body over IMAP and     *)
(* store it in one of two places: the bounded display cache for ordinary   *)
(* messages, the starred bodies for flagged ones.  Meanwhile the user      *)
(* stars and moves messages, other clients do too, and synchronization     *)
(* applies what the server says.  A step is the code between two awaits.   *)
(*                                                                         *)
(* An id is a locator (mailbox and UID), for stable_message_id is a        *)
(* function of it.  A body is the number of the message it belongs to, so  *)
(* row[id] is at once the header row and the body that row describes.      *)
(***************************************************************************)
EXTENDS Naturals, FiniteSets, Functions

CONSTANTS
    Ids,         \* the locators
    Recent,      \* those of recent mail in INBOX, Sent or Archive
    Readers,     \* load_message_content, one per window
    Warmers,     \* hydrate_target, one per hydration slot
    NoOne,       \* nobody: no claim
    Orphan,      \* the owner of a claim whose task is gone
    NoId,
    MaxBody,     \* bound: messages the server ever holds
    MaxValidity, \* bound: UIDVALIDITY values
    MaxFaults,   \* bound: crashes, lapsed leases and failed releases
    MaxEvents,   \* bound: actions of the user and of other clients
    MaxWaits,    \* polls of a busy claim before a reader gives up (60 s)
    Budget,      \* MESSAGE_CONTENT_CACHE_MAX_BYTES
    Size         \* the size of a body, as a function of its number

Fetchers == Readers \cup Warmers

BodyAssumption ==
    /\ IsFiniteSet(Ids) /\ Ids # {} /\ Recent \subseteq Ids /\ NoId \notin Ids
    /\ Readers \cap Warmers = {} /\ NoOne \notin Fetchers
    /\ Orphan \notin Fetchers \cup {NoOne}
    /\ {MaxBody, MaxValidity, MaxFaults, MaxEvents, MaxWaits, Budget} \subseteq Nat
    /\ Size \in [0..MaxBody -> Nat] /\ Size[0] = 0 /\ MaxValidity > 0

VARIABLES
    server,   \* the mailbox at the provider: its validity, the message at
              \* each id, who is starred, the ids used up, and the messages so far
    catalog,  \* the UIDVALIDITY the local catalogue was committed with
    row,      \* messages: the message an id stands for, 0 = no row
    flagged,  \* messages.is_flagged
    tomb,     \* mailbox_action_tombstones
    cache,    \* message_content_cache: the body of an id's entry (0: none), and
              \* which of two entries was accessed earlier
    starred,  \* starred_message_bodies
    claim,    \* message_content_fetches: who owns the fetch of an id
    old,      \* the claims whose lease has run out
    task,     \* what each fetcher is doing
    user,     \* the operation that holds the account's operation lock
    faults,   \* the faults so far
    events    \* the actions so far of the user and other clients

catalogue == <<catalog, row, flagged, tomb>>
bodies    == <<cache, starred>>
claims    == <<claim, old>>
counters  == <<faults, events>>
vars == <<server, catalog, row, flagged, tomb, cache, starred, claim, old,
          task, user, faults, events>>

Idle == [at |-> "idle", id |-> NoId, body |-> 0, star |-> FALSE, val |-> 0,
         waits |-> 0, lost |-> FALSE]
NoOp == [at |-> "idle", id |-> NoId, on |-> FALSE, body |-> 0, star |-> FALSE,
         val |-> 0, to |-> NoId]

NoCache == [body |-> [i \in Ids |-> 0], older |-> {}]

(* The process starts over an empty mailbox that was synchronized. *)
Init ==
    /\ server = [validity |-> 1, at |-> [i \in Ids |-> 0],
                 star |-> [i \in Ids |-> FALSE], used |-> {}, next |-> 1]
    /\ row = [i \in Ids |-> 0] /\ flagged = [i \in Ids |-> FALSE]
    /\ catalog = 1 /\ tomb = {}
    /\ cache = NoCache /\ starred = [i \in Ids |-> 0]
    /\ claim = [i \in Ids |-> NoOne] /\ old = {}
    /\ task = [t \in Fetchers |-> Idle] /\ user = NoOp
    /\ faults = 0 /\ events = 0

-----------------------------------------------------------------------------
(* The two stores of bodies *)

At(t, at) == task[t].at = at
Now(t, l) == task' = [task EXCEPT ![t] = l]
Go(t, at) == Now(t, [task[t] EXCEPT !.at = at])
Ending(l) == [Idle EXCEPT !.at = "release", !.id = l.id, !.lost = l.lost]
End(t)    == Now(t, Ending(task[t]))
GoOrEnd(t, end, at) == IF end THEN End(t) ELSE Go(t, at)

(* cached_message_content and starred_body: what the reader shows for an id *)
InCache(i)  == cache.body[i] # 0 /\ row[i] # 0 /\ ~flagged[i]
Display(i)  == IF starred[i] # 0 THEN starred[i]
               ELSE IF InCache(i) THEN cache.body[i] ELSE 0

Held(c)        == {i \in Ids : c.body[i] # 0}
Without(c, is) == [body |-> [i \in Ids |-> IF i \in is THEN 0 ELSE c.body[i]],
                   older |-> {p \in c.older : p[1] \notin is /\ p[2] \notin is}]

(* last_accessed becomes the greatest.                                      *)
Touched(c, i)  == [c EXCEPT !.older = {p \in @ : p[1] # i}
                                        \cup {<<j, i>> : j \in Held(c) \ {i}}]

(* A hit promotes the entry, unless the starred body answered. *)
Promoted(i) == IF starred[i] = 0 /\ InCache(i) THEN Touched(cache, i) ELSE cache

Bytes(c, is) == SumFunctionOnSet([i \in Ids |-> Size[c.body[i]]], is)

(* The order in which entries leave a cache over budget: recent mail after  *)
(* the rest, least recently used first.                                     *)
Before(c, i, j) == IF (i \in Recent) = (j \in Recent) THEN <<i, j>> \in c.older
                   ELSE j \in Recent

(* What is left when it is the turn of i.                                   *)
Left(c, i) == {j \in Held(c) : j = i \/ Before(c, i, j)}

(* Mutant: one entry too many stays. *)
OneOver(c) == Without(c, {i \in Held(c) :
                 \A j \in Held(c) : i \in Left(c, j) => Bytes(c, Left(c, j) \ {j}) > Budget})

(* The loop of cache_message_content_with_budget: an entry leaves if too    *)
(* much is left at its turn, and was at every turn before.                  *)
Evicted(c) == Without(c, {i \in Held(c) :
                 \A j \in Held(c) : i \in Left(c, j) => Bytes(c, Left(c, j)) > Budget})

(* cache_message_content: an oversized body, a missing row and a flagged    *)
(* row all remove the entry instead.                                        *)
Stored(i, b) == IF Size[b] <= Budget /\ row[i] # 0 /\ ~flagged[i]
                THEN Evicted(Touched([cache EXCEPT !.body[i] = b], i))
                ELSE Without(cache, {i})

(* cache_starred_message_content keeps a body only while the row is flagged *)
Keeps(i) == row[i] # 0 /\ flagged[i]

-----------------------------------------------------------------------------
(* Claims *)

Working(t)   == task[t].at \notin {"idle", "claim", "poll"}
Free(i)      == claim[i] = NoOne \/ i \in old

(* Taking the claim of an id over, or revoking it with its row, takes it    *)
(* from the task that still fetches it.                                     *)
Losing(i, tk) == [t \in Fetchers |->
                    IF claim[i] = t THEN [tk[t] EXCEPT !.lost = TRUE] ELSE tk[t]]
Revoked(is)   == /\ claim' = [i \in Ids |-> IF i \in is THEN NoOne ELSE claim[i]]
                 /\ old' = old \ is
                 /\ task' = [t \in Fetchers |->
                       IF \E i \in is : claim[i] = t
                       THEN [task[t] EXCEPT !.lost = TRUE] ELSE task[t]]

(* acquire_message_content_fetch by t, whose locals become l. *)
Claim(t, i, l) ==
    /\ row[i] # 0 /\ Free(i)
    /\ claim' = [claim EXCEPT ![i] = t] /\ old' = old \ {i}
    /\ task' = [Losing(i, task) EXCEPT ![t] = l]

(* Mutant: release deletes the claim of whoever holds it. *)
ReleasesAny(t, i) == TRUE

(* release_message_content_fetch_for_owner deletes only its own claim. *)
Releases(t, i) == claim[i] = t

-----------------------------------------------------------------------------
(* A window opens a message: load_message_content *)

(* The first look at the stores answers, or the message needs a fetch. *)
Open(t, i) ==
    /\ t \in Readers /\ At(t, "idle")
    /\ IF Display(i) # 0
       THEN cache' = Promoted(i) /\ UNCHANGED task
       ELSE Now(t, [Idle EXCEPT !.at = "claim", !.id = i]) /\ UNCHANGED cache
    /\ UNCHANGED <<server, catalogue, starred, claims, user, counters>>

OpenClaim(t) ==
    LET i == task[t].id
    IN /\ t \in Readers /\ At(t, "claim")
       /\ \/ Claim(t, i, [task[t] EXCEPT !.at = "recheck"])
          \/ row[i] = 0 /\ Now(t, Idle) /\ UNCHANGED claims
          \/ row[i] # 0 /\ ~Free(i) /\ Go(t, "poll") /\ UNCHANGED claims
       /\ UNCHANGED <<server, catalogue, bodies, user, counters>>

(* Mutant: every new claim begins another wait. *)
Forgotten(l) == 0

(* The bounded foreground wait window, over all its claims. *)
Waited(l) == l.waits + 1

(* Busy: the other fetch may have stored the body, or the reader waits. *)
Poll(t) ==
    LET i == task[t].id
    IN /\ At(t, "poll")
       /\ IF Display(i) # 0 \/ task[t].waits >= MaxWaits THEN Now(t, Idle)
          ELSE Now(t, [task[t] EXCEPT !.at = "claim", !.waits = Waited(task[t])])
       /\ cache' = IF Display(i) # 0 THEN Promoted(i) ELSE cache
       /\ UNCHANGED <<server, catalogue, starred, claims, user, counters>>

(* The winner looks again: another fetch may just have committed. *)
Recheck(t) ==
    LET i == task[t].id
    IN /\ At(t, "recheck")
       /\ GoOrEnd(t, Display(i) # 0, "locate")
       /\ cache' = IF Display(i) # 0 THEN Promoted(i) ELSE cache
       /\ UNCHANGED <<server, catalogue, starred, claims, user, counters>>

(* fetch_remote_message: the row and the catalogue's UIDVALIDITY are read   *)
(* before the connection is made.  A warmer carries its row in its plan and *)
(* reads only the catalogue state.                                          *)
Locate(t) ==
    LET l == task[t]
    IN /\ l.at = "locate"
       /\ IF t \in Readers /\ row[l.id] = 0
          THEN End(t)
          ELSE Now(t, [l EXCEPT !.at = "fetch", !.val = catalog])
       /\ UNCHANGED <<server, catalogue, bodies, claims, user, counters>>

(* verify_mailbox_uid_validity *)
SameValidity(val) == server.validity = val

(* fetch_message: SELECT, then the body and the provider's flags together.  *)
(* The fetch fails when the mailbox was recreated, the message is gone, or  *)
(* the connection breaks.                                                   *)
Fetch(t) ==
    LET l == task[t]
    IN /\ l.at = "fetch"
       /\ \/ /\ SameValidity(l.val) /\ server.at[l.id] # 0
             /\ Now(t, [l EXCEPT !.at = "attach", !.val = 0,
                                 !.body = server.at[l.id], !.star = server.star[l.id]])
          \/ End(t)
       /\ UNCHANGED <<server, catalogue, bodies, claims, user, counters>>

(* update_message_attachment_state tells whether the row is still there; a  *)
(* reader without a row still tries the display cache.                      *)
Attach(t) ==
    LET l == task[t]
    IN /\ l.at = "attach"
       /\ GoOrEnd(t, row[l.id] = 0 /\ t \in Warmers,
                  IF row[l.id] # 0 /\ l.star THEN "star" ELSE "cache")
       /\ UNCHANGED <<server, catalogue, bodies, claims, user, counters>>

(* cache_starred_message_content, for a body the provider says is starred. *)
Star(t) ==
    LET l == task[t]
    IN /\ l.at = "star"
       /\ GoOrEnd(t, Keeps(l.id), "cache")
       /\ starred' = IF Keeps(l.id) THEN [starred EXCEPT ![l.id] = l.body]
                     ELSE starred
       /\ UNCHANGED <<server, catalogue, cache, claims, user, counters>>

Cache(t) ==
    LET l == task[t]
    IN /\ l.at = "cache"
       /\ GoOrEnd(t, t \in Readers, "check")
       /\ cache' = Stored(l.id, l.body)
       /\ UNCHANGED <<server, catalogue, starred, claims, user, counters>>

(* persist_display_cache: when the display cache declined, a message that   *)
(* was starred in the meantime gets its starred body after all.             *)
Check(t) ==
    LET i == task[t].id
    IN /\ At(t, "check")
       /\ GoOrEnd(t, InCache(i), "restar")
       /\ cache' = IF InCache(i) THEN Touched(cache, i) ELSE cache
       /\ UNCHANGED <<server, catalogue, starred, claims, user, counters>>

Restar(t) ==
    LET l == task[t]
    IN /\ l.at = "restar" /\ End(t)
       /\ starred' = IF Keeps(l.id) THEN [starred EXCEPT ![l.id] = l.body]
                     ELSE starred
       /\ UNCHANGED <<server, catalogue, cache, claims, user, counters>>

(* The claim is released when the fetch ends, however it ended; the drop of *)
(* a cancelled fetch releases it from a task of its own, as late.  When     *)
(* storage fails the row stays until its lease runs out.                    *)
Release(t) ==
    LET i == task[t].id
    IN /\ At(t, "release") /\ Now(t, Idle)
       /\ \/ /\ claim' = IF Releases(t, i) THEN [claim EXCEPT ![i] = NoOne] ELSE claim
             /\ old' = IF Releases(t, i) THEN old \ {i} ELSE old
             /\ UNCHANGED faults
          \/ /\ faults < MaxFaults /\ faults' = faults + 1
             /\ claim' = IF claim[i] = t THEN [claim EXCEPT ![i] = Orphan] ELSE claim
             /\ UNCHANGED old
       /\ UNCHANGED <<server, catalogue, bodies, user, events>>

-----------------------------------------------------------------------------
(* A warmer: hydrate_target *)

(* A busy or missing message is left to whoever has it. *)
Warm(t, i) ==
    /\ t \in Warmers /\ At(t, "idle") /\ row[i] # 0 /\ Display(i) = 0
    /\ Claim(t, i, [Idle EXCEPT !.at = "locate", !.id = i])
    /\ UNCHANGED <<server, catalogue, bodies, user, counters>>

(* The watcher is stopped: the fetch is dropped at whatever await it is in, *)
(* and the claim released.                                                  *)
Cancel(t) ==
    /\ t \in Warmers /\ Working(t) /\ ~At(t, "release")
    /\ End(t)
    /\ UNCHANGED <<server, catalogue, bodies, claims, user, counters>>

-----------------------------------------------------------------------------
(* Faults: the process dies with its fetches; a lease runs out because its  *)
(* owner is gone, or was suspended longer than MESSAGE_CONTENT_FETCH_LEASE. *)

Crash ==
    /\ faults < MaxFaults /\ faults' = faults + 1
    /\ task' = [t \in Fetchers |-> Idle] /\ user' = NoOp
    /\ claim' = [i \in Ids |-> IF claim[i] = NoOne THEN NoOne ELSE Orphan]
    /\ UNCHANGED <<server, catalogue, bodies, old, events>>

Lapse(i) ==
    /\ i \notin old
    /\ \/ claim[i] = Orphan /\ UNCHANGED faults
       \/ /\ claim[i] \in Fetchers
          /\ faults < MaxFaults /\ faults' = faults + 1
    /\ old' = old \cup {i}
    /\ UNCHANGED <<server, catalogue, bodies, claim, task, user, events>>

(* The renewal task wakes up again before anyone took the claim over. *)
Renew(i) ==
    /\ i \in old /\ claim[i] \in Fetchers
    /\ old' = old \ {i}
    /\ UNCHANGED <<server, catalogue, bodies, claim, task, user, counters>>

-----------------------------------------------------------------------------
(* The server and other mail clients *)

(* A new message, at an id no message of this UIDVALIDITY ever had. *)
Deliver(i) ==
    /\ i \notin server.used /\ server.next <= MaxBody
    /\ \E star \in BOOLEAN :
          server' = [server EXCEPT !.at[i] = server.next, !.star[i] = star,
                                   !.used = @ \cup {i}, !.next = @ + 1]
    /\ UNCHANGED <<catalogue, bodies, claims, task, user, counters>>

ExpungeElsewhere(i) ==
    /\ server.at[i] # 0 /\ events < MaxEvents /\ events' = events + 1
    /\ server' = [server EXCEPT !.at[i] = 0, !.star[i] = FALSE]
    /\ UNCHANGED <<catalogue, bodies, claims, task, user, faults>>

StarElsewhere(i) ==
    /\ server.at[i] # 0 /\ events < MaxEvents /\ events' = events + 1
    /\ server' = [server EXCEPT !.star[i] = ~@]
    /\ UNCHANGED <<catalogue, bodies, claims, task, user, faults>>

(* The mailbox is recreated: other messages take the same UIDs. *)
Recreate ==
    /\ server.validity < MaxValidity
    /\ \E is \in SUBSET Ids :
          LET last == server.next + Cardinality(is) - 1
          IN /\ is # {} /\ last <= MaxBody
             /\ \E at \in Bijection(is, server.next..last) :
                   server' = [validity |-> server.validity + 1,
                              at   |-> [i \in Ids |-> IF i \in is THEN at[i] ELSE 0],
                              star |-> [i \in Ids |-> FALSE], used |-> is,
                              next |-> last + 1]
    /\ UNCHANGED <<catalogue, bodies, claims, task, user, counters>>

-----------------------------------------------------------------------------
(* Synchronization, seen from the bodies: what MailboxSync publishes *)

InSync == catalog = server.validity

(* The bodies a change of flags makes wrong. *)
StarredAfter(i, star) == IF star THEN starred ELSE [starred EXCEPT ![i] = 0]
CacheAfter(i, star)   == IF star THEN Without(cache, {i}) ELSE cache

(* persist_message of a header: provider flags are authoritative, a         *)
(* tombstone suppresses the row, and the cache entry is left alone.         *)
Persist(i) ==
    /\ InSync /\ server.at[i] # 0 /\ i \notin tomb
    /\ row[i] # server.at[i] \/ flagged[i] # server.star[i]
    /\ row' = [row EXCEPT ![i] = server.at[i]]
    /\ flagged' = [flagged EXCEPT ![i] = server.star[i]]
    /\ starred' = StarredAfter(i, server.star[i])
    /\ UNCHANGED <<server, catalog, tomb, cache, claims, task, user, counters>>

(* update_mailbox_flags, the flags of a snapshot or of CHANGEDSINCE. *)
SyncFlags(i) ==
    /\ InSync /\ row[i] # 0 /\ server.at[i] # 0 /\ flagged[i] # server.star[i]
    /\ flagged' = [flagged EXCEPT ![i] = server.star[i]]
    /\ starred' = StarredAfter(i, server.star[i])
    /\ cache' = CacheAfter(i, server.star[i])
    /\ UNCHANGED <<server, catalog, row, tomb, claims, task, user, counters>>

(* A row is deleted: the cascade takes its bodies and its claim. *)
Cascade(is) ==
    /\ row' = [i \in Ids |-> IF i \in is THEN 0 ELSE row[i]]
    /\ flagged' = [i \in Ids |-> i \notin is /\ flagged[i]]
    /\ starred' = [i \in Ids |-> IF i \in is THEN 0 ELSE starred[i]]
    /\ cache' = Without(cache, is)
    /\ Revoked(is)

(* The mailbox inventory no longer has the message. *)
Vanish(i) ==
    /\ InSync /\ row[i] # 0 /\ server.at[i] = 0
    /\ Cascade({i})
    /\ UNCHANGED <<server, catalog, tomb, user, counters>>

(* Publication of the catalogue of a recreated mailbox: every row goes with *)
(* its bodies and claims, and the new messages take the same ids.           *)
Publish ==
    /\ ~InSync
    /\ catalog' = server.validity /\ tomb' = {}
    /\ row' = server.at /\ flagged' = server.star
    /\ starred' = [i \in Ids |-> 0] /\ cache' = NoCache
    /\ Revoked(Ids)
    /\ UNCHANGED <<server, user, counters>>

-----------------------------------------------------------------------------
(* The user, under the account's operation lock *)

(* set_message_starred: STORE on the server, which nobody checks against    *)
(* the catalogue's UIDVALIDITY; the local flag; then the body.              *)
StarStore(i, on) ==
    /\ user = NoOp /\ row[i] # 0 /\ events < MaxEvents /\ events' = events + 1
    /\ server' = IF server.at[i] # 0 THEN [server EXCEPT !.star[i] = on] ELSE server
    /\ user' = [NoOp EXCEPT !.at = "flag", !.id = i, !.on = on]
    /\ UNCHANGED <<catalogue, bodies, claims, task, faults>>

(* set_message_flagged, by id: a missing row is no error. *)
StarFlag ==
    LET i == user.id
    IN /\ user.at = "flag"
       /\ flagged' = [flagged EXCEPT ![i] = row[i] # 0 /\ user.on]
       /\ starred' = StarredAfter(i, user.on)
       /\ cache' = CacheAfter(i, user.on)
       /\ user' = IF user.on THEN [user EXCEPT !.at = "fetch", !.val = catalog] ELSE NoOp
       /\ UNCHANGED <<server, catalog, row, tomb, claims, task, counters>>

StarFetch ==
    LET i == user.id
    IN /\ user.at = "fetch"
       /\ \/ /\ server.validity = user.val /\ server.at[i] # 0
             /\ user' = [user EXCEPT !.at = "save", !.body = server.at[i],
                                     !.star = server.star[i]]
          \/ user' = NoOp
       /\ UNCHANGED <<server, catalogue, bodies, claims, task, counters>>

(* hydrate_message ends in upsert_messages: row, provider flags and starred *)
(* body in one transaction, without a claim.                                *)
StarSave ==
    LET i == user.id
        live == i \notin tomb
    IN /\ user.at = "save" /\ user' = NoOp
       /\ row' = IF live THEN [row EXCEPT ![i] = user.body] ELSE row
       /\ flagged' = IF live THEN [flagged EXCEPT ![i] = user.star] ELSE flagged
       /\ starred' = IF live THEN [starred EXCEPT ![i] = IF user.star THEN user.body ELSE 0]
                     ELSE starred
       /\ UNCHANGED <<server, catalog, tomb, cache, claims, task, counters>>

(* An archive, spam or trash action: the server moves the message to an id  *)
(* of another mailbox, which COPYUID may tell.                              *)
MoveStore(i, to) ==
    /\ user = NoOp /\ row[i] # 0 /\ server.at[i] # 0 /\ i # to
    /\ to \notin server.used /\ events < MaxEvents /\ events' = events + 1
    /\ server' = [server EXCEPT !.at[i] = 0, !.star[i] = FALSE,
                                !.at[to] = server.at[i], !.star[to] = server.star[i],
                                !.used = @ \cup {to}]
    /\ \E told \in {to, NoId} :
          user' = [NoOp EXCEPT !.at = "move", !.id = i, !.to = told]
    /\ UNCHANGED <<catalogue, bodies, claims, task, faults>>

(* Mutant: the bodies of the old id stay where they are. *)
NothingOf(i, to) == {}

(* move_message drops the bodies and the claim of the old id, for what they *)
(* hold names the old locator.                                              *)
Stripped(i, to) == {i, to}

(* move_message: the tombstone, then the row goes or takes its new id.      *)
MoveLocally ==
    LET i == user.id
        to == user.to
        moved == to # NoId
        kept == moved /\ row[i] # 0
        gone == IF moved THEN Stripped(i, to) ELSE {i}
    IN /\ user.at = "move" /\ user' = NoOp
       /\ tomb' = tomb \cup {i}
       /\ row' = [j \in Ids |-> IF j = i \/ (j = to /\ ~kept) THEN 0
                                ELSE IF j = to THEN row[i] ELSE row[j]]
       /\ flagged' = [j \in Ids |-> IF j = i \/ (j = to /\ ~kept) THEN FALSE
                                    ELSE IF j = to THEN flagged[i] ELSE flagged[j]]
       /\ starred' = [j \in Ids |-> IF j \in gone THEN 0 ELSE starred[j]]
       /\ cache' = Without(cache, gone)
       /\ Revoked(gone)
       /\ UNCHANGED <<server, catalog, counters>>

-----------------------------------------------------------------------------
Next ==
    \/ \E t \in Readers, i \in Ids : Open(t, i)
    \/ \E t \in Readers : OpenClaim(t) \/ Poll(t)
    \/ \E t \in Fetchers :
          \/ Recheck(t) \/ Locate(t) \/ Fetch(t) \/ Attach(t) \/ Star(t)
          \/ Cache(t) \/ Check(t) \/ Restar(t) \/ Release(t)
    \/ \E t \in Warmers : Cancel(t) \/ \E i \in Ids : Warm(t, i)
    \/ Crash
    \/ \E i \in Ids : Lapse(i) \/ Renew(i)
    \/ \E i \in Ids : Deliver(i) \/ ExpungeElsewhere(i) \/ StarElsewhere(i)
    \/ Recreate \/ Publish
    \/ \E i \in Ids : Persist(i) \/ SyncFlags(i) \/ Vanish(i)
    \/ \E i \in Ids : \E on \in BOOLEAN : StarStore(i, on)
    \/ StarFlag \/ StarFetch \/ StarSave \/ MoveLocally
    \/ \E i, to \in Ids : MoveStore(i, to)

(* A fetch always ends: the connection answers or times out, and the store  *)
(* answers.  Nothing makes a user open a message or a lease run out.        *)
FetchStep(t) ==
    \/ OpenClaim(t) /\ t \in Readers
    \/ Poll(t) \/ Recheck(t) \/ Locate(t) \/ Fetch(t) \/ Attach(t) \/ Star(t)
    \/ Cache(t) \/ Check(t) \/ Restar(t) \/ Release(t)

Spec == Init /\ [][Next]_vars
FairSpec == Spec /\ \A t \in Fetchers : WF_vars(FetchStep(t))

-----------------------------------------------------------------------------
(* Properties *)

(* A starred body exists only for a live row that is flagged now: no fetch  *)
(* that saw an older flag, no move and no deletion leaves one behind        *)
(* (cache_starred_message_content, set_message_flagged).                    *)
StarredOnlyWhileFlagged ==
    \A i \in Ids : starred[i] # 0 => row[i] # 0 /\ flagged[i]

(* The display cache never exceeds its budget, keeps entries only for rows  *)
(* that exist, and knows of any two which was accessed earlier              *)
(* (cache_message_content_with_budget).                                     *)
CacheFits ==
    /\ Bytes(cache, Held(cache)) <= Budget
    /\ \A i \in Held(cache) : row[i] # 0
    /\ \A i, j \in Held(cache) : i = j \/ (<<i, j>> \in cache.older) # (<<j, i>> \in cache.older)

(* A task that fetches under a claim owns it until the claim is taken over  *)
(* after a lapse or revoked with its row: so two tasks that both believe in *)
(* their claim never fetch the same body (release by owner, storage 2873).  *)
OneFetch ==
    \A t \in Fetchers : Working(t) /\ ~task[t].lost => claim[task[t].id] = t

(* What an id displays is the message its row describes: ids are reused by   *)
(* moves and by a recreated mailbox, rows by moves (load_message_content).  *)
NoStaleBody == \A i \in Ids : Display(i) # 0 => Display(i) = row[i]

(* So it is as long as the mailbox is not recreated.                        *)
BodyBelongs == server.validity = 1 => NoStaleBody

(* Every window that opens a message gets an answer, whoever else holds the *)
(* claim and whatever happens to it.                                        *)
OpenEnds == \A t \in Readers : [](task[t].at # "idle" => <>(task[t].at = "idle"))
=============================================================================
