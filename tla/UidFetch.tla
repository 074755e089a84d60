------------------------------- MODULE UidFetch -------------------------------
(***************************************************************************)
(* How one fetch is cut into IMAP commands.  UIDs go out in batches, newest *)
(* first; a sequence range goes out whole.  A provider may reject a command *)
(* with a tagged response, because it names too many items or one it       *)
(* cannot serve: the command is retried as two halves, until a single item *)
(* is left.  Anything else that goes wrong breaks the connection.          *)
(***************************************************************************)
EXTENDS Naturals, Sequences, Functions

CONSTANTS
    MaxItems,  \* bound: items asked for
    MaxBatch   \* MAX_METADATA_FETCH_UIDS and MAX_IMAP_COMMAND_BYTES

UidFetchAssumption == MaxItems \in Nat /\ MaxBatch \in Nat \ {0}

Items == 1..MaxItems

VARIABLES
    kind,    \* "uids" (fetch_uid_data_batched) or "range" (fetch_mailbox_snapshot_range)
    asked,   \* the items asked for, newest first
    limit,   \* the provider rejects a command that names more items
    cursed,  \* items the provider rejects in any command
    pending, \* commands still to send, first one first
    got,     \* items with a response, in order
    failed,  \* items with a failure of their own
    over     \* "no", "done", "error" or, with items left out, "fatal"

vars == <<kind, asked, limit, cursed, pending, got, failed, over>>

Descending(s) == \A i, j \in DOMAIN s : i < j => s[i] > s[j]
UidLists == {s \in UNION {[1..n -> Items] : n \in 0..MaxItems} : Descending(s)}
Ranges   == {[i \in 1..n |-> n + 1 - i] : n \in Items}

(* uid_fetch_command_batches: full batches, and a last one. *)
Batches(s) ==
    LET n == (Len(s) + MaxBatch - 1) \div MaxBatch
        end(k) == IF k * MaxBatch < Len(s) THEN k * MaxBatch ELSE Len(s)
    IN [k \in 1..n |-> SubSeq(s, (k - 1) * MaxBatch + 1, end(k))]

Init ==
    /\ kind \in {"uids", "range"} /\ limit \in 1..MaxItems /\ cursed \in SUBSET Items
    /\ asked \in IF kind = "uids" THEN UidLists ELSE Ranges
    /\ pending = IF kind = "uids" THEN Batches(asked) ELSE <<asked>>
    /\ got = <<>> /\ failed = {} /\ over = "no"

Command == Head(pending)
Rejects == Len(Command) > limit \/ Range(Command) \cap cursed # {}
Sent    == over = "no" /\ pending # <<>>

Accepted ==
    /\ Sent /\ ~Rejects
    /\ got' = got \o Command /\ pending' = Tail(pending)
    /\ UNCHANGED <<kind, asked, limit, cursed, failed, over>>

(* Mutant: the older half is lost when the newer one is queued. *)
OneHalf(s, half) == <<SubSeq(s, 1, half)>>

(* The newer half first. *)
Halves(s, half) == <<SubSeq(s, 1, half), SubSeq(s, half + 1, Len(s))>>

(* A batch halves with the larger half first, a range with the larger last. *)
Split ==
    LET n == Len(Command)
    IN /\ Sent /\ Rejects /\ n > 1
       /\ pending' = Halves(Command, IF kind = "uids" THEN (n + 1) \div 2 ELSE n \div 2)
                        \o Tail(pending)
       /\ UNCHANGED <<kind, asked, limit, cursed, got, failed, over>>

(* One item left: a UID fails alone, a range fails as a whole. *)
RejectedAlone ==
    /\ Sent /\ Rejects /\ Len(Command) = 1
    /\ IF kind = "uids" THEN /\ failed' = failed \cup Range(Command)
                              /\ pending' = Tail(pending) /\ UNCHANGED over
       ELSE over' = "error" /\ UNCHANGED <<failed, pending>>
    /\ UNCHANGED <<kind, asked, limit, cursed, got>>

(* A broken connection fails this batch, and leaves out the later ones.     *)
Broken ==
    /\ Sent
    /\ IF kind = "uids" THEN failed' = failed \cup Range(Command) /\ over' = "fatal"
       ELSE over' = "error" /\ UNCHANGED failed
    /\ UNCHANGED <<kind, asked, limit, cursed, pending, got>>

Finish ==
    /\ over = "no" /\ pending = <<>> /\ over' = "done"
    /\ UNCHANGED <<kind, asked, limit, cursed, pending, got, failed>>

Next == Accepted \/ Split \/ RejectedAlone \/ Broken \/ Finish

Spec == Init /\ [][Next]_vars

(* However the provider rejects and the commands are split, a fetch that    *)
(* ends has exactly one outcome for every item: those the provider cannot   *)
(* serve have failed, and only those, and the others have come once, newest *)
(* first (fetch_uid_data_batched, fetch_mailbox_snapshot_range).            *)
EachOnce ==
    /\ Descending(got) /\ Range(got) \subseteq Range(asked)
    /\ failed \cap Range(got) = {}
    /\ over = "done" => /\ failed = Range(asked) \cap cursed
                        /\ Range(got) = Range(asked) \ cursed
=============================================================================
