------------------------------- MODULE Threads -------------------------------
(***************************************************************************)
(* Conversations: after messages are stored, every thread of the account   *)
(* is computed again from the headers (rebuild_threads_for_account).  The  *)
(* rows are read in one statement and the identifiers that changed written *)
(* in a later transaction.                                                 *)
(*                                                                         *)
(* A header is what threading looks at: its Message-ID, the identifiers in *)
(* References and In-Reply-To (the one a root is named for first), and     *)
(* whether it is a reply by its subject only.  Messages are numbered in    *)
(* the order of their dates.                                               *)
(***************************************************************************)
EXTENDS Naturals, Sequences, FiniteSetsExt, Functions

CONSTANTS
    Writers,  \* workers that store messages: the watcher, a full sync
    Messages, \* how many messages there are
    Names,    \* message identifiers; 1..Messages are the rows' own
    MaxLinks  \* bound: identifiers a header refers to

Rows == 1..Messages
NoThread == 0

ThreadsAssumption ==
    {Messages, MaxLinks} \subseteq Nat /\ Names \subseteq Nat \ (Rows \cup {NoThread})

VARIABLES
    header, \* row -> [name, links, reply]
    alike,  \* pairs of a reply and an earlier message that its subject fits
    thread, \* row -> NoThread or its thread; absent rows are not in its domain
    plan    \* worker -> where it is and the threads it computed

vars == <<header, alike, thread, plan>>

Links   == UNION {[1..k -> Names] : k \in 0..MaxLinks}
Headers == [name : Names \cup {NoThread}, links : Links, reply : {FALSE}]
              \cup [name : Names \cup {NoThread}, links : {<<>>}, reply : {TRUE}]
Idle    == [at |-> "idle", read |-> <<>>, made |-> <<>>]
None    == [i \in {} |-> NoThread]

Init ==
    /\ header \in [Rows -> Headers]
    /\ alike \in SUBSET {p \in Rows \X Rows : p[2] < p[1] /\ header[p[1]].reply}
    /\ thread = None /\ plan = [w \in Writers |-> Idle]

-----------------------------------------------------------------------------
(* The groups of a set of rows, each row named for its group. *)

Latest(S)   == IF S = {} THEN {} ELSE {CHOOSE i \in S : \A j \in S : j <= i}
Named(S, n) == {i \in S : header[i].name = n}
Linked(S, n) == {i \in S : n \in Range(header[i].links)}

(* A name met before: the row joins the last one of that name.              *)
ByName(S, i) ==
    IF header[i].name = NoThread THEN {}
    ELSE Latest({j \in Named(S, header[i].name) : j < i})

(* Mutant: only a stored parent joins its replies. *)
ParentOnly(S, i) == UNION {Latest(Named(S, n)) : n \in Range(header[i].links)}

(* A linked name: the row joins the last one of that name, and the last row *)
(* that links to it.                                                        *)
ByLink(S, i) ==
    UNION {Latest(Named(S, n)) \cup Latest({j \in Linked(S, n) : j < i}) :
              n \in Range(header[i].links)}

(* A bare reply joins the latest earlier message that its subject fits.     *)
BySubject(S, i) == Latest({j \in S : <<i, j>> \in alike})

Joins(S) == UNION {{i} \X (ByName(S, i) \cup ByLink(S, i) \cup BySubject(S, i)) : i \in S}

(* DisjointSet::union; the order of the unions leaves the groups the same.  *)
Union(p, g) == [k \in DOMAIN g |-> IF g[k] = g[p[2]] THEN g[p[1]] ELSE g[k]]

Groups(S) == FoldSet(Union, [i \in S |-> i], Joins(S))

(* A thread has the name its oldest message links to first, or its own.     *)
ThreadsOf(S) ==
    LET g == Groups(S)
        oldest(i) == CHOOSE j \in S : g[j] = g[i] /\ \A k \in S : g[k] = g[i] => j <= k
        name(j) == IF header[j].links # <<>> THEN Head(header[j].links)
                   ELSE IF header[j].name # NoThread THEN header[j].name ELSE j
    IN [i \in S |-> name(oldest(i))]

-----------------------------------------------------------------------------

At(w, at) == plan[w].at = at

(* A worker stores messages. *)
Persist(w) ==
    /\ At(w, "idle")
    /\ \E new \in (SUBSET (Rows \ DOMAIN thread)) \ {{}} :
          thread' = [i \in DOMAIN thread \cup new |->
                        IF i \in new THEN NoThread ELSE thread[i]]
    /\ plan' = [plan EXCEPT ![w].at = "rebuild"]
    /\ UNCHANGED <<header, alike>>

Load(w) ==
    /\ At(w, "rebuild")
    /\ plan' = [plan EXCEPT ![w] = [at |-> "write", read |-> thread,
                                    made |-> ThreadsOf(DOMAIN thread)]]
    /\ UNCHANGED <<header, alike, thread>>

(* Only what differs from what was read is written. *)
Write(w) ==
    /\ At(w, "write")
    /\ thread' = [i \in DOMAIN thread |->
                    IF i \in DOMAIN plan[w].made /\ plan[w].made[i] # plan[w].read[i]
                    THEN plan[w].made[i] ELSE thread[i]]
    /\ plan' = [plan EXCEPT ![w] = Idle]
    /\ UNCHANGED <<header, alike>>

Next == \E w \in Writers : Persist(w) \/ Load(w) \/ Write(w)

Spec == Init /\ [][Next]_vars

-----------------------------------------------------------------------------
(* What belongs together, by definition. *)
Related(i, j) ==
    LET names(k) == Range(header[k].links) \cup ({header[k].name} \ {NoThread})
    IN \/ names(i) \cap names(j) # {}
       \/ <<i, j>> \in alike /\ \A k \in DOMAIN thread : <<i, k>> \in alike => k <= j
       \/ i = j

(* Two rows are together when every set of rows that holds one of them and   *)
(* is closed under that relation holds the other.                           *)
Together(S) ==
    LET closed == {C \in SUBSET S : \A i \in C, j \in S \ C : ~Related(i, j) /\ ~Related(j, i)}
    IN {p \in S \X S : \A C \in closed : p[1] \in C => p[2] \in C}

(* Once a worker has written its threads, two messages have the same one    *)
(* exactly when a chain of shared identifiers or subjects connects them:    *)
(* whatever order they came in, with names that are missing or used twice,  *)
(* and though a thread is named for what its oldest message refers to       *)
(* (rebuild_threads_for_account).                                           *)
ThreadsRight ==
    (\A w \in Writers : At(w, "idle")) =>
       LET together == Together(DOMAIN thread)
       IN \A i, j \in DOMAIN thread : (thread[i] = thread[j]) <=> <<i, j>> \in together
=============================================================================
