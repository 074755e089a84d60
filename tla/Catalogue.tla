------------------------------ MODULE Catalogue ------------------------------
(***************************************************************************)
(* What the local catalogue of a mailbox promises, whoever maintains it:   *)
(* messages are learned, forgotten and hidden, and a message the user has  *)
(* moved away stays hidden until its namespace is replaced.  MailboxSync   *)
(* implements it (MailboxSync!FollowsCatalogue).                           *)
(***************************************************************************)
CONSTANTS Ids,    \* what messages are found under
          Copies  \* what may be known of one
Unknown == 0

VARIABLES
    rows,   \* id -> what is known of its message, or Unknown
    hidden  \* ids the user has moved away

vars == <<rows, hidden>>

Init == rows \in [Ids -> Copies \cup {Unknown}] /\ hidden = {}

(* Messages found at the provider; what is hidden stays unknown. *)
Learn(us, copy) ==
    /\ us \cap hidden = {}
    /\ rows' = [u \in Ids |-> IF u \in us THEN copy ELSE rows[u]]
    /\ UNCHANGED hidden

(* The user moves a message away. *)
Hide(u) ==
    /\ rows' = [rows EXCEPT ![u] = Unknown]
    /\ hidden' = hidden \cup {u}

(* A whole inventory: what it lacks is forgotten. *)
Follow(inventory) ==
    /\ rows' = [u \in Ids |-> IF u \in inventory THEN rows[u] ELSE Unknown]
    /\ UNCHANGED hidden

(* A new namespace: the ids, hidden ones too, no longer mean anything. *)
Replace ==
    /\ rows' \in [Ids -> Copies \cup {Unknown}]
    /\ hidden' = {}

Next ==
    \/ \E us \in SUBSET Ids : Follow(us) \/ \E copy \in Copies \cup {Unknown} : Learn(us, copy)
    \/ \E u \in Ids : Hide(u)
    \/ Replace

Spec == Init /\ [][Next]_vars

(* Nothing is known of a message that is hidden. *)
HiddenIsUnknown == \A u \in hidden : rows[u] = Unknown

TypeOK == rows \in [Ids -> Copies \cup {Unknown}] /\ hidden \in SUBSET Ids
=============================================================================
