--------------------------- MODULE MailActionsProofs ---------------------------
(***************************************************************************)
(* What MailActions guarantees, for any messages, senders and folders, and *)
(* for any number of actions, faults and other clients' steps.             *)
(*                                                                         *)
(* The inductive invariant says, of each place of an operation, what the   *)
(* operation still relies on: Harmless that a marked message has a copy or *)
(* was meant to go, Aimed whose message a UID found by a clean-up names,   *)
(* and Accounted what has left its folder.                                 *)
(***************************************************************************)
EXTENDS MailActions, FiniteSetTheorems, FunctionTheorems, TLAPS

-----------------------------------------------------------------------------
(* The invariant *)

Kinds  == {"none", "move", "delete", "cleanup"}
(* The folder is selected, and cannot be recreated for the session. *)
Commands == {"move", "nomove", "copy", "store", "expunge", "unmark"}
Works    == Commands \cup {"select", "commit"}
Places   == Works \cup {"idle", "asked", "discover", "pick", "done", "failed"}

Entries  == [uid : Nat, msg : Msgs, del : {"no", "us", "other"}]
Locators == [f : Folders, uid : Nat, val : Nat \ {0}]
Ops == [kind : Kinds, at : Places, f : Folders, uid : Nat, msg : SUBSET Msgs,
        want : Nat, val : Nat, dest : Nat, uidplus : BOOLEAN, move : BOOLEAN,
        left : SUBSET Folders, todo : SUBSET Locators, moved : SUBSET Locators,
        failed : SUBSET [f : Folders, uid : Nat, val : Nat], hit : SUBSET Msgs]

TypeOK ==
    /\ box \in [Folders -> [val : Nat \ {0}, next : Nat, held : SUBSET Entries]]
    /\ \A f \in Folders : IsFiniteSet(box[f].held)
    /\ cat \in [Folders -> [val : Nat \ {0}, rows : SUBSET [uid : Nat, msg : Msgs]]]
    /\ tombs \subseteq Folders \X Nat
    /\ op \in Ops
    /\ used \in [ops : Nat, faults : Nat, others : Nat]
    /\ doomed \subseteq Msgs

(* An operation works on a folder only as its kind does: no mail is moved   *)
(* from Trash, and what is deleted is not moved or copied.                  *)
Placed ==
    /\ op.kind = "move" => op.f # Trash
    /\ op.kind = "cleanup" => /\ Trash \notin op.left
                              /\ \A c \in op.todo : c.f # Trash
                              /\ op.at \in Works => op.f # Trash
    /\ op.at # "idle" => op.kind # "none"
    /\ op.at \in {"move", "nomove", "copy"} => op.kind # "delete"
    /\ op.at \in Commands => op.val = box[op.f].val
    /\ op.at = "commit" => op.val \in 1..box[op.f].val

(* Whatever bears a mark goes with an expunge: somebody meant it to, or its *)
(* copy is in Trash.                                                        *)
InTrash(m) == \E t \in box[Trash].held : t.msg = m
Harmless ==
    /\ NothingLost
    /\ \A f \in Folders : \A e \in box[f].held :
          e.del # "no" => e.msg \in doomed \/ (f # Trash /\ InTrash(e.msg))
    /\ op.at = "store" /\ op.kind # "delete" =>
          \A e \in Here : e.msg \in doomed \/ InTrash(e.msg)

(* Outside Trash a UID names one message: a server numbers a folder anew    *)
(* whole, and nothing arrives there afterwards.                             *)
OneEach(f) == \A e, x \in box[f].held : e.uid = x.uid => e.msg = x.msg
Numbered   == \A f \in Folders \ {Trash} : OneEach(f)

(* While a folder keeps its UIDVALIDITY, a UID found by a clean-up names no *)
(* message of another sender: nothing arrives outside Trash.                *)
Theirs(f, uid, val) ==
    /\ val \in 1..box[f].val
    /\ box[f].val = val => \A e \in box[f].held : e.uid = uid => e.msg \in op.msg
Aimed ==
    op.kind = "cleanup" =>
        /\ op.hit \subseteq op.msg
        /\ \A c \in op.todo : Theirs(c.f, c.uid, c.val)
        /\ op.at = "select" => Theirs(op.f, op.uid, op.want)
        /\ op.at \in Commands => \A e \in Here : e.msg \in op.msg

(* What was moved or deleted has left its folder, on the server before the  *)
(* catalogue.                                                               *)
OffServer(f, uid, val) ==
    /\ val <= box[f].val
    /\ box[f].val = val => \A e \in box[f].held : e.uid # uid
Accounted ==
    /\ op.at = "expunge" => \A e \in Here : e.del # "no"
    /\ op.at = "commit" => OffServer(op.f, op.uid, op.val)
    /\ \A c \in op.moved :
          /\ OffServer(c.f, c.uid, c.val)
          /\ cat[c.f].val = c.val => \A r \in cat[c.f].rows : r.uid # c.uid
          /\ op.kind # "delete" => c.f # Trash
          /\ op.kind = "delete" => op.at \in {"done", "failed"}

-----------------------------------------------------------------------------
(* Mailboxes *)

(* What arrives in Trash are finitely many copies. *)
LEMMA CopiesFinite ==
    ASSUME NEW S, IsFiniteSet(S), NEW n
    PROVE  IsFiniteSet({[uid |-> n, msg |-> e.msg, del |-> "no"] : e \in S})
  <1>. DEFINE T == {[uid |-> n, msg |-> e.msg, del |-> "no"] : e \in S}
              c == [e \in S |-> [uid |-> n, msg |-> e.msg, del |-> "no"]]
  <1>1. c \in Surjection(S, T)
        BY DEF Surjection
  <1>. QED  BY <1>1, FS_Surjection

(* The messages of a folder are finitely many, too. *)
LEMMA MessagesFinite ==
    ASSUME NEW S, IsFiniteSet(S) PROVE IsFiniteSet({e.msg : e \in S})
  <1>. DEFINE c == [e \in S |-> e.msg]
  <1>1. c \in Surjection(S, {e.msg : e \in S})
        BY DEF Surjection
  <1>. QED  BY <1>1, FS_Surjection

(* Finitely many messages can be numbered. *)
LEMMA Numberable ==
    ASSUME NEW ms, IsFiniteSet(ms) PROVE \E n : n \in Numberings(ms)
  <1>1. ExistsBijection(ms, 1..Cardinality(ms))
        BY FS_CardinalityType, Fun_ExistsBijSymmetric
  <1>2. PICK n : n \in Bijection(ms, 1..Cardinality(ms))
        BY <1>1 DEF ExistsBijection
  <1>3. n \in [ms -> 1..Cardinality(ms)] /\ \A x, y \in ms : n[x] = n[y] => x = y
        BY <1>2 DEF Bijection, Injection, IsInjective
  <1>. QED  BY <1>3 DEF Numberings

(* A folder just numbered holds each message, and marks none. *)
LEMMA HoldingAll ==
    ASSUME NEW ms \in SUBSET Msgs, IsFiniteSet(ms), NEW v \in Nat \ {0},
           NEW n \in Numberings(ms)
    PROVE  /\ Holding(v, n) \in [val : Nat \ {0}, next : Nat, held : SUBSET Entries]
           /\ IsFiniteSet(Holding(v, n).held)
           /\ Holding(v, n).val = v
           /\ \A m \in ms : \E e \in Holding(v, n).held : e.msg = m
           /\ \A e \in Holding(v, n).held : e.msg \in ms /\ e.del = "no"
           /\ \A e, x \in Holding(v, n).held : e.uid = x.uid => e.msg = x.msg
  <1>1. n \in [ms -> 1..Cardinality(ms)] /\ Cardinality(ms) \in Nat
        BY FS_CardinalityType DEF Numberings
  <1>. DEFINE T == {[uid |-> n[m], msg |-> m, del |-> "no"] : m \in ms}
              c == [m \in ms |-> [uid |-> n[m], msg |-> m, del |-> "no"]]
  <1>2. Holding(v, n) = [val |-> v, next |-> Cardinality(ms) + 1, held |-> T]
        BY <1>1 DEF Holding
  <1>3. c \in Surjection(ms, T)
        BY DEF Surjection
  <1>4. IsFiniteSet(T)
        BY <1>3, FS_Surjection
  <1>5. T \subseteq Entries
        BY <1>1 DEF Entries
  <1>6. ASSUME NEW m \in ms PROVE \E e \in T : e.msg = m
    <2>1. [uid |-> n[m], msg |-> m, del |-> "no"] \in T
          OBVIOUS
    <2>. QED  BY <2>1
  <1>7. \A e, x \in T : e.uid = x.uid => e.msg = x.msg
        BY DEF Numberings
  <1>. QED  BY <1>1, <1>2, <1>4, <1>5, <1>6, <1>7

(* What the commands of one message find and leave in its folder. *)
LEMMA FolderTypes ==
    ASSUME TypeOK, Trash \in Folders
    PROVE  /\ op.f \in Folders /\ Here \subseteq box[op.f].held /\ Hit \in SUBSET Msgs
           /\ \A d \in {"no", "us"} : Marked(d) \in SUBSET Entries /\ IsFiniteSet(Marked(d))
           /\ Arrived \in [val : Nat \ {0}, next : Nat, held : SUBSET Entries]
           /\ IsFiniteSet(Arrived.held) /\ Arrived.val = box[Trash].val
           /\ \A e \in Here : \E t \in Arrived.held : t.msg = e.msg
           /\ box[Trash].held \subseteq Arrived.held
           /\ \A t \in Arrived.held \ box[Trash].held :
                 t.del = "no" /\ \E e \in Here : t.msg = e.msg
           /\ CopyUid \in Nat
  <1>. DEFINE T == {[uid |-> box[Trash].next, msg |-> e.msg, del |-> "no"] : e \in Here}
  <1>1. /\ op.f \in Folders /\ op.hit \in SUBSET Msgs
        /\ box[op.f].held \in SUBSET Entries /\ IsFiniteSet(box[op.f].held)
        BY DEF TypeOK, Ops
  <1>2. /\ Here \subseteq box[op.f].held /\ Here \in SUBSET box[op.f].held
        BY DEF Here
  <1>3. IsFiniteSet(Here)
        BY <1>1, <1>2, FS_Subset
  <1>4. Cardinality(Here) \in Nat
        BY <1>3, FS_CardinalityType
  <1>5. Hit \in SUBSET Msgs
        BY <1>1, <1>2 DEF Hit, Entries
  <1>6. ASSUME NEW d \in {"no", "us"}
        PROVE  Marked(d) \in SUBSET Entries /\ IsFiniteSet(Marked(d))
    <2>. DEFINE M == {[e EXCEPT !.del = d] : e \in Here}
                c == [e \in Here |-> [e EXCEPT !.del = d]]
    <2>1. c \in Surjection(Here, M)
          BY DEF Surjection
    <2>2. IsFiniteSet(M)
          BY <2>1, <1>3, FS_Surjection
    <2>3. IsFiniteSet(box[op.f].held \ Here)
          BY <1>1, FS_Subset
    <2>4. IsFiniteSet((box[op.f].held \ Here) \cup M)
          BY <2>2, <2>3, FS_Union
    <2>5. M \subseteq Entries
          BY <1>1, <1>2 DEF Entries
    <2>. QED  BY <1>1, <2>4, <2>5 DEF Marked
  <1>7. /\ box[Trash] \in [val : Nat \ {0}, next : Nat, held : SUBSET Entries]
        /\ IsFiniteSet(box[Trash].held)
        BY DEF TypeOK
  <1>8. /\ Arrived.val = box[Trash].val /\ Arrived.held = box[Trash].held \cup T
        /\ Arrived = [val |-> box[Trash].val, next |-> box[Trash].next + Cardinality(Here),
                      held |-> box[Trash].held \cup T]
    <2>. DEFINE b == box[Trash]
                h == b.held \cup T
    <2>1. b = [val |-> b.val, next |-> b.next, held |-> b.held]
          BY <1>7
    <2>2. Arrived = [b EXCEPT !.next = b.next + Cardinality(Here), !.held = h]
          BY DEF Arrived
    <2>. HIDE DEF b, h
    <2>3. Arrived = [val |-> b.val, next |-> b.next + Cardinality(Here), held |-> h]
          BY <2>1, <2>2
    <2>. QED  BY <2>3 DEF b, h
  <1>9. T \subseteq Entries
        BY <1>1, <1>2, <1>7 DEF Entries
  <1>10. IsFiniteSet(T)
        BY <1>3, CopiesFinite
  <1>11. IsFiniteSet(Arrived.held)
        BY <1>7, <1>8, <1>10, FS_Union
  <1>12. Arrived \in [val : Nat \ {0}, next : Nat, held : SUBSET Entries]
        BY <1>4, <1>7, <1>8, <1>9
  <1>13. ASSUME NEW e \in Here PROVE \E t \in T : t.msg = e.msg
    <2>1. [uid |-> box[Trash].next, msg |-> e.msg, del |-> "no"] \in T
          OBVIOUS
    <2>. QED  BY <2>1
  <1>14. \A t \in T : t.del = "no" /\ \E e \in Here : t.msg = e.msg
        OBVIOUS
  <1>15. CopyUid \in Nat
        BY <1>7 DEF CopyUid
  <1>. QED  BY <1>1, <1>2, <1>5, <1>6, <1>8, <1>11, <1>12, <1>13, <1>14, <1>15

(* Marking, or taking a mark back, changes nothing but the mark. *)
LEMMA MarkedDoes ==
    ASSUME TypeOK, NEW d \in {"no", "us"}, box' = [box EXCEPT ![op.f].held = Marked(d)]
    PROVE  /\ op.f \in Folders
           /\ \A f \in Folders : f # op.f => box'[f] = box[f]
           /\ \A x \in box[op.f].held : \E e \in box'[op.f].held : e.msg = x.msg
           /\ \A e \in box'[op.f].held :
                 \/ e \in box[op.f].held /\ e.uid # op.uid
                 \/ e.del = d /\ \E x \in Here : e.msg = x.msg /\ e.uid = x.uid
  <1>. DEFINE c == [e \in Here |-> [e EXCEPT !.del = d]]
              M == {[e EXCEPT !.del = d] : e \in Here}
  <1>1. op.f \in Folders /\ box[op.f].held \in SUBSET Entries
        BY DEF TypeOK, Ops
  <1>2. /\ Here \subseteq box[op.f].held /\ Here \subseteq Entries
        /\ \A e \in box[op.f].held \ Here : e.uid # op.uid
        BY <1>1 DEF Here
  <1>3. \A e \in Here : c[e].del = d /\ c[e].msg = e.msg /\ c[e].uid = e.uid
        BY <1>2 DEF Entries
  <1>4. \A e \in M : \E x \in Here : e = c[x]
        OBVIOUS
  <1>5. \A x \in Here : c[x] \in M
        OBVIOUS
  <1>. HIDE DEF c
  <1>6. box'[op.f].held = (box[op.f].held \ Here) \cup M
        BY <1>1 DEF Marked, TypeOK
  <1>7. \A f \in Folders : f # op.f => box'[f] = box[f]
        BY <1>1 DEF TypeOK
  <1>. HIDE DEF M
  <1>8. ASSUME NEW x \in box[op.f].held PROVE \E e \in box'[op.f].held : e.msg = x.msg
    <2>1. CASE x \in Here
          BY <2>1, <1>3, <1>5, <1>6
    <2>2. CASE x \notin Here
          BY <2>2, <1>6
    <2>. QED  BY <2>1, <2>2
  <1>9. ASSUME NEW e \in box'[op.f].held
        PROVE  \/ e \in box[op.f].held /\ e.uid # op.uid
               \/ e.del = d /\ \E x \in Here : e.msg = x.msg /\ e.uid = x.uid
        BY <1>2, <1>3, <1>4, <1>6
  <1>. QED  BY <1>1, <1>7, <1>8, <1>9

-----------------------------------------------------------------------------
(* What the steps of an operation do *)

(* An operation goes on in its folder, or gives up there. *)
GivesUp == {"pick", "done", "failed"}
Onward(o, ats) ==
    /\ o \in Ops /\ o.at \in ats
    /\ o.kind = op.kind /\ o.msg = op.msg /\ o.f = op.f /\ o.uid = op.uid
    /\ o.left = op.left /\ o.todo \subseteq op.todo /\ o.moved = op.moved
Same(o) == o.hit = op.hit /\ o.val = op.val

(* A command answers, or the connection is lost with what it may have hit. *)
Lost(h)  == [GivenUp(TRUE) EXCEPT !.hit = h]
Counted  == used' \in [ops : Nat, faults : Nat, others : Nat]

(* The folders after a command, and what it meant to delete. *)
Boxes    == [Folders -> [val : Nat \ {0}, next : Nat, held : SUBSET Entries]]
Moved    == [box EXCEPT ![Trash] = Arrived, ![op.f].held = @ \ Here]
Copied   == [box EXCEPT ![Trash] = Arrived]
MarkedUs == [box EXCEPT ![op.f].held = Marked("us")]
Cleared  == [box EXCEPT ![op.f].held = @ \ Expunged]
Cleaned  == [box EXCEPT ![op.f].held = Marked("no")]
Meant    == IF op.kind = "delete" THEN doomed \cup {e.msg : e \in Here} ELSE doomed

(* What a clean-up finds in a folder. *)
Found(f) == {[f |-> f, uid |-> e.uid, val |-> box[f].val] :
                e \in {x \in box[f].held : x.msg \in op.msg}}

(* Giving up, a clean-up goes on to its next message, or has lost its       *)
(* connection.                                                              *)
LEMMA GivenUpDoes ==
    ASSUME op \in Ops, NEW lost \in BOOLEAN
    PROVE  Onward(GivenUp(lost), GivesUp) /\ Same(GivenUp(lost))
  <1>1. op.f \in Folders /\ op.uid \in Nat /\ op.val \in Nat /\ op.todo \subseteq Locators
        BY DEF Ops
  <1>2. CASE op.kind # "cleanup"
        BY <1>2 DEF GivenUp, Ops, Places, Works, Onward, Same, GivesUp
  <1>3. CASE op.kind = "cleanup"
    <2>. DEFINE out == op.failed \cup {[f |-> op.f, uid |-> op.uid, val |-> op.val]}
                         \cup (IF lost THEN op.todo ELSE {})
    <2>1. out \in SUBSET [f : Folders, uid : Nat, val : Nat]
          BY <1>1 DEF Ops, Locators
    <2>2. GivenUp(lost) = [op EXCEPT !.at = IF lost THEN "done" ELSE "pick",
                             !.todo = IF lost THEN {} ELSE op.todo, !.failed = out]
          BY <1>3 DEF GivenUp, Ops
    <2>. HIDE DEF out
    <2>. DEFINE g == GivenUp(lost)
                at == IF lost THEN "done" ELSE "pick"
                todo == IF lost THEN {} ELSE op.todo
    <2>3. at \in GivesUp /\ at \in Places /\ todo \subseteq op.todo
          BY DEF GivesUp, Places
    <2>4. g = [op EXCEPT !.at = at, !.todo = todo, !.failed = out]
          BY <2>2
    <2>. HIDE DEF g, at, todo
    <2>5. g \in Ops /\ g.at = at /\ g.todo = todo
          BY <1>1, <2>1, <2>3, <2>4 DEF Ops
    <2>6. /\ g.kind = op.kind /\ g.msg = op.msg /\ g.f = op.f /\ g.uid = op.uid
          /\ g.left = op.left /\ g.moved = op.moved /\ g.hit = op.hit /\ g.val = op.val
          BY <2>4 DEF Ops
    <2>7. Onward(g, GivesUp) /\ Same(g)
          BY <2>3, <2>5, <2>6 DEF Onward, Same
    <2>. QED  BY <2>7 DEF g
  <1>. QED  BY <1>2, <1>3

(* The connection is lost, whether the server acted or not. *)
LEMMA LostDoes ==
    ASSUME op \in Ops, NEW h \in SUBSET Msgs
    PROVE  Onward(Lost(h), GivesUp) /\ Lost(h).hit = h /\ Lost(h).val = op.val
  <1>. DEFINE g == GivenUp(TRUE)
  <1>1. Onward(g, GivesUp) /\ Same(g)
        BY GivenUpDoes
  <1>2. Lost(h) = [g EXCEPT !.hit = h]
        BY DEF Lost
  <1>. HIDE DEF g
  <1>. QED  BY <1>1, <1>2 DEF Ops, Onward, Same

(* Each use of a bound is counted. *)
LEMMA UsesCount ==
    ASSUME TypeOK, NEW what \in {"ops", "faults", "others"}, NEW max,
           Uses(what, max) \/ UNCHANGED used
    PROVE  Counted
  BY DEF TypeOK, Uses, Counted

(* How a command may end. *)
LEMMA CommandEnds ==
    ASSUME TypeOK, NEW STATE then, NEW STATE refused, NEW ats, NEW fails,
           Onward(then, ats), Onward(refused, fails), then.hit \in SUBSET Msgs,
           \/ op' = then /\ UNCHANGED used
           \/ op' = refused /\ Uses("faults", MaxFaults)
           \/ op' = Lost(then.hit) /\ Uses("faults", MaxFaults)
    PROVE  /\ Onward(op', ats \cup fails \cup GivesUp) /\ Counted
           /\ op'.hit \in {then.hit, refused.hit}
           /\ op'.val \in {op.val, then.val, refused.val}
  <1>1. op \in Ops
        BY DEF TypeOK
  <1>2. Counted
        BY UsesCount
  <1>3. CASE op' = Lost(then.hit)
        BY <1>1, <1>2, <1>3, LostDoes DEF Onward
  <1>. QED  BY <1>2, <1>3 DEF Onward

(* Select: the folder has the UIDVALIDITY that was asked for. *)
LEMMA SelectDoes ==
    ASSUME TypeOK, Select
    PROVE  /\ Onward(op', {"store", "move", "nomove"} \cup GivesUp)
           /\ op.at = "select" /\ op'.hit = op.hit /\ Counted
           /\ op'.at \notin GivesUp => /\ SameIdentity /\ op'.val = box[op.f].val
                                       /\ op'.at = "store" <=> op.kind = "delete"
           /\ UNCHANGED <<box, cat, tombs, doomed>>
  <1>. DEFINE next == [op EXCEPT !.val = box[op.f].val,
                         !.at = IF op.kind = "delete" THEN "store"
                                ELSE IF op.move THEN "move" ELSE "nomove"]
  <1>1. /\ op \in Ops /\ op.at = "select" /\ UNCHANGED <<box, cat, tombs, doomed>>
        BY DEF TypeOK, Select, Asking, Command
  <1>2. box[op.f].val \in Nat
        BY <1>1 DEF TypeOK, Ops
  <1>3. /\ Onward(next, {"store", "move", "nomove"})
        /\ next.hit = op.hit /\ next.val = box[op.f].val
        /\ next.at = "store" <=> op.kind = "delete"
        BY <1>1, <1>2 DEF Ops, Places, Works, Commands, Onward
  <1>. HIDE DEF next
  <1>4. op.hit \in SUBSET Msgs /\ GivenUp(FALSE).hit = op.hit
        BY <1>1, GivenUpDoes DEF Ops, Same
  <1>5. \/ op' = next /\ SameIdentity /\ UNCHANGED used
        \/ op' = GivenUp(FALSE) /\ (UNCHANGED used \/ Uses("faults", MaxFaults))
        \/ op' = Lost(op.hit) /\ Uses("faults", MaxFaults)
        BY <1>3, <1>4 DEF Select, Command, next, Lost
  <1>6. Counted
        BY <1>5, UsesCount
  <1>7. CASE op' = next /\ SameIdentity
        BY <1>1, <1>3, <1>6, <1>7 DEF Onward
  <1>8. CASE op' = GivenUp(FALSE)
        BY <1>1, <1>4, <1>6, <1>8, GivenUpDoes DEF Onward
  <1>9. CASE op' = Lost(op.hit)
        BY <1>1, <1>4, <1>6, <1>9, LostDoes DEF Onward
  <1>. QED  BY <1>5, <1>7, <1>8, <1>9

(* Move: what the UID names leaves its folder for Trash. *)
LEMMA MoveDoes ==
    ASSUME TypeOK, Trash \in Folders, Move
    PROVE  /\ Onward(op', {"commit", "nomove"} \cup GivesUp)
           /\ op.at = "move" /\ op'.hit \in {op.hit, Hit} /\ op'.val = op.val /\ Counted
           /\ box' \in {box, Moved} /\ (op'.at = "commit" => box' = Moved)
           /\ UNCHANGED <<cat, tombs, doomed>>
  <1>. DEFINE next == [op EXCEPT !.at = "commit", !.dest = CopyUid, !.hit = Hit]
              refused == [op EXCEPT !.at = "nomove"]
  <1>1. op \in Ops /\ op.at = "move" /\ UNCHANGED <<cat, tombs, doomed>>
        BY DEF TypeOK, Move, Command
  <1>2. /\ Onward(next, {"commit"}) /\ next.hit = Hit /\ next.val = op.val
        /\ Onward(refused, {"nomove"}) /\ Same(refused) /\ Hit \in SUBSET Msgs
        BY <1>1, FolderTypes DEF Ops, Places, Works, Commands, Onward, Same
  <1>. HIDE DEF next, refused
  <1>3. \/ op' = next /\ box' = Moved /\ UNCHANGED used
        \/ op' = refused /\ box' = box /\ Uses("faults", MaxFaults)
        \/ op' = Lost(next.hit) /\ box' \in {box, Moved} /\ Uses("faults", MaxFaults)
        BY DEF Move, Command, next, refused, Lost, Moved
  <1>4. /\ Onward(op', {"commit"} \cup {"nomove"} \cup GivesUp) /\ Counted
        /\ op'.hit \in {Hit, op.hit} /\ op'.val = op.val
        BY <1>2, <1>3, CommandEnds DEF Same
  <1>5. op'.at = "commit" => box' = Moved
        BY <1>1, <1>2, <1>3, LostDoes DEF Onward, GivesUp
  <1>. QED  BY <1>1, <1>3, <1>4, <1>5

(* NoMove: a copy comes next, or nothing. *)
LEMMA NoMoveDoes ==
    ASSUME TypeOK, NoMove
    PROVE  /\ Onward(op', {"copy"} \cup GivesUp) /\ op.at = "nomove" /\ Same(op')
           /\ UNCHANGED <<box, cat, tombs, used, doomed>>
  <1>. DEFINE next == [op EXCEPT !.at = "copy"]
  <1>1. op \in Ops
        BY DEF TypeOK
  <1>2. Onward(next, {"copy"}) /\ Same(next)
        BY <1>1 DEF Ops, Places, Works, Commands, Onward, Same
  <1>3. op' \in {next, GivenUp(FALSE)}
        BY DEF NoMove
  <1>. HIDE DEF next
  <1>. QED  BY <1>1, <1>2, <1>3, GivenUpDoes DEF NoMove, Onward

(* Copy: what the UID names is in Trash, too. *)
LEMMA CopyDoes ==
    ASSUME TypeOK, Trash \in Folders, Copy
    PROVE  /\ Onward(op', {"store"} \cup GivesUp)
           /\ op.at = "copy" /\ op'.hit \in {op.hit, Hit} /\ op'.val = op.val /\ Counted
           /\ box' \in {box, Copied} /\ (op'.at = "store" => box' = Copied)
           /\ UNCHANGED <<cat, tombs, doomed>>
  <1>. DEFINE next == [op EXCEPT !.at = "store", !.dest = CopyUid, !.hit = Hit]
  <1>1. op \in Ops /\ op.at = "copy" /\ UNCHANGED <<cat, tombs, doomed>>
        BY DEF TypeOK, Copy, Command
  <1>2. /\ Onward(next, {"store"}) /\ next.hit = Hit /\ next.val = op.val
        /\ Onward(GivenUp(FALSE), GivesUp) /\ Same(GivenUp(FALSE)) /\ Hit \in SUBSET Msgs
        BY <1>1, FolderTypes, GivenUpDoes DEF Ops, Places, Works, Commands, Onward
  <1>. HIDE DEF next
  <1>3. \/ op' = next /\ box' = Copied /\ UNCHANGED used
        \/ op' = GivenUp(FALSE) /\ box' = box /\ Uses("faults", MaxFaults)
        \/ op' = Lost(next.hit) /\ box' \in {box, Copied} /\ Uses("faults", MaxFaults)
        BY DEF Copy, Command, next, CopyRefused, Lost, Copied
  <1>4. /\ Onward(op', {"store"} \cup GivesUp \cup GivesUp) /\ Counted
        /\ op'.hit \in {Hit, op.hit} /\ op'.val = op.val
        BY <1>2, <1>3, CommandEnds DEF Same
  <1>5. op'.at = "store" => box' = Copied
        BY <1>1, <1>2, <1>3, LostDoes DEF Onward, GivesUp
  <1>. QED  BY <1>1, <1>3, <1>4, <1>5

(* Store: what the UID names is marked; a deletion means it to go. *)
LEMMA StoreDoes ==
    ASSUME TypeOK, Trash \in Folders, Store
    PROVE  /\ Onward(op', {"expunge"} \cup GivesUp)
           /\ op.at = "store" /\ op'.hit \in {op.hit, Hit} /\ op'.val = op.val /\ Counted
           /\ \/ box' = MarkedUs /\ doomed' = Meant
              \/ op'.at # "expunge" /\ UNCHANGED <<box, doomed>>
           /\ UNCHANGED <<cat, tombs>>
  <1>. DEFINE next == [op EXCEPT !.at = "expunge", !.hit = Hit]
  <1>1. op \in Ops /\ op.at = "store" /\ UNCHANGED <<cat, tombs>>
        BY DEF TypeOK, Store, Command
  <1>2. /\ Onward(next, {"expunge"}) /\ next.hit = Hit /\ next.val = op.val
        /\ Onward(GivenUp(FALSE), GivesUp) /\ Same(GivenUp(FALSE)) /\ Hit \in SUBSET Msgs
        BY <1>1, FolderTypes, GivenUpDoes DEF Ops, Places, Works, Commands, Onward
  <1>. HIDE DEF next
  <1>3. \/ op' = next /\ box' = MarkedUs /\ doomed' = Meant /\ UNCHANGED used
        \/ op' = GivenUp(FALSE) /\ UNCHANGED <<box, doomed>> /\ Uses("faults", MaxFaults)
        \/ op' = Lost(next.hit) /\ Uses("faults", MaxFaults)
             /\ ((box' = MarkedUs /\ doomed' = Meant) \/ UNCHANGED <<box, doomed>>)
        BY DEF Store, Command, next, AfterStore, Lost, MarkedUs, Meant, Put
  <1>4. /\ Onward(op', {"expunge"} \cup GivesUp \cup GivesUp) /\ Counted
        /\ op'.hit \in {Hit, op.hit} /\ op'.val = op.val
        BY <1>2, <1>3, CommandEnds DEF Same
  <1>5. op'.at = "expunge" => box' = MarkedUs /\ doomed' = Meant
        BY <1>1, <1>2, <1>3, LostDoes DEF Onward, GivesUp
  <1>. QED  BY <1>1, <1>3, <1>4, <1>5

(* Expunge: what is marked goes, of the whole folder for a plain move. *)
LEMMA ExpungeDoes ==
    ASSUME TypeOK, Trash \in Folders, Expunge
    PROVE  /\ Onward(op', {"commit", "unmark"} \cup GivesUp)
           /\ op.at = "expunge" /\ Same(op') /\ Counted
           /\ box' \in {box, Cleared} /\ (op'.at = "commit" => box' = Cleared)
           /\ UNCHANGED <<cat, tombs, doomed>>
  <1>. DEFINE next == [op EXCEPT !.at = "commit"]
              back == [op EXCEPT !.at = "unmark"]
  <1>1. op \in Ops /\ op.at = "expunge" /\ UNCHANGED <<cat, tombs, doomed>>
        BY DEF TypeOK, Expunge, Command
  <1>2. /\ Onward(next, {"commit"}) /\ Same(next) /\ next.hit \in SUBSET Msgs
        /\ Onward(back, {"unmark"}) /\ Same(back)
        /\ Onward(GivenUp(FALSE), GivesUp) /\ Same(GivenUp(FALSE))
    <2>1. Onward(next, {"commit"}) /\ Same(next) /\ next.hit \in SUBSET Msgs
          BY <1>1 DEF Ops, Places, Works, Commands, Onward, Same
    <2>2. Onward(back, {"unmark"}) /\ Same(back)
          BY <1>1 DEF Ops, Places, Works, Commands, Onward, Same
    <2>3. Onward(GivenUp(FALSE), GivesUp) /\ Same(GivenUp(FALSE))
          BY <1>1, GivenUpDoes
    <2>. QED  BY <2>1, <2>2, <2>3
  <1>3. /\ Onward(ExpungeRefused, {"unmark"} \cup GivesUp) /\ Same(ExpungeRefused)
        BY <1>2 DEF ExpungeRefused, Onward
  <1>. HIDE DEF next, back
  <1>4. \/ op' = next /\ box' = Cleared /\ UNCHANGED used
        \/ op' = ExpungeRefused /\ box' = box /\ Uses("faults", MaxFaults)
        \/ op' = Lost(next.hit) /\ box' \in {box, Cleared} /\ Uses("faults", MaxFaults)
        BY DEF Expunge, Command, next, Lost, Cleared, Put
  <1>5. /\ Onward(op', {"commit"} \cup ({"unmark"} \cup GivesUp) \cup GivesUp) /\ Counted
        /\ op'.hit = op.hit /\ op'.val = op.val
        BY <1>2, <1>3, <1>4, CommandEnds DEF Same
  <1>6. op'.at = "commit" => box' = Cleared
        BY <1>1, <1>2, <1>3, <1>4, LostDoes DEF Onward, GivesUp
  <1>. QED  BY <1>1, <1>4, <1>5, <1>6 DEF Same

(* Unmark: the mark is taken back, if it can be. *)
LEMMA UnmarkDoes ==
    ASSUME TypeOK, Trash \in Folders, Unmark
    PROVE  /\ Onward(op', GivesUp) /\ op.at = "unmark" /\ Same(op') /\ Counted
           /\ box' \in {box, Cleaned} /\ UNCHANGED <<cat, tombs, doomed>>
  <1>. DEFINE next == GivenUp(FALSE)
  <1>1. op \in Ops /\ op.at = "unmark" /\ UNCHANGED <<cat, tombs, doomed>>
        BY DEF TypeOK, Unmark, Command
  <1>2. Onward(next, GivesUp) /\ Same(next) /\ next.hit \in SUBSET Msgs
        BY <1>1, GivenUpDoes DEF Ops, Same
  <1>. HIDE DEF next
  <1>3. \/ op' = next /\ box' = Cleaned /\ UNCHANGED used
        \/ op' = next /\ box' = box /\ Uses("faults", MaxFaults)
        \/ op' = Lost(next.hit) /\ box' \in {box, Cleaned} /\ Uses("faults", MaxFaults)
        BY DEF Unmark, Command, next, Lost, Cleaned, Put
  <1>4. /\ Onward(op', GivesUp \cup GivesUp \cup GivesUp) /\ Counted
        /\ op'.hit = op.hit /\ op'.val = op.val
        BY <1>2, <1>3, CommandEnds DEF Same
  <1>. QED  BY <1>1, <1>3, <1>4 DEF Same

(* Discover: the messages of the sender in one more folder. *)
LEMMA DiscoverDoes ==
    ASSUME TypeOK, NEW f \in Folders, Discover(f)
    PROVE  /\ op' \in Ops /\ op.kind = "cleanup" /\ op'.kind = "cleanup"
           /\ op'.at \in {"discover"} \cup GivesUp /\ op'.msg = op.msg /\ Same(op')
           /\ op'.moved = op.moved /\ op'.left \subseteq op.left /\ f \in op.left
           /\ op'.todo \subseteq op.todo \cup Found(f) /\ Counted
           /\ UNCHANGED <<box, cat, tombs, doomed>>
  <1>. DEFINE next == [op EXCEPT !.left = @ \ {f}, !.todo = @ \cup Found(f),
                             !.at = IF op.left = {f} THEN "pick" ELSE "discover"]
              stop == [op EXCEPT !.at = "failed"]
  <1>1. /\ op \in Ops /\ op.kind = "cleanup" /\ op.at = "discover" /\ f \in op.left
        /\ UNCHANGED <<box, cat, tombs, doomed>>
        BY DEF TypeOK, Discover, Asking, Command
  <1>2. Found(f) \subseteq Locators
        BY DEF TypeOK, Found, Entries, Locators
  <1>3. /\ next \in Ops /\ next.at \in {"discover", "pick"} /\ next.kind = op.kind
        /\ next.msg = op.msg /\ Same(next) /\ next.moved = op.moved
        /\ next.left \subseteq op.left /\ next.todo = op.todo \cup Found(f)
        BY <1>1, <1>2 DEF Ops, Places, Works, Commands, Same
  <1>4. Onward(stop, GivesUp) /\ Same(stop) /\ op.hit \in SUBSET Msgs
        BY <1>1 DEF Ops, Places, Works, Onward, Same, GivesUp
  <1>. HIDE DEF next, stop
  <1>5. \/ op' \in {next, stop} /\ UNCHANGED used
        \/ op' = stop /\ Uses("faults", MaxFaults)
        \/ op' = Lost(op.hit) /\ Uses("faults", MaxFaults)
    <2>1. \/ op' \in {next, stop} /\ UNCHANGED used
          \/ op' = stop /\ Uses("faults", MaxFaults)
          \/ /\ op' = Lost((IF box[f].val # cat[f].val THEN stop ELSE next).hit)
             /\ Uses("faults", MaxFaults)
          BY DEF Discover, Command, next, stop, Found, Lost
    <2>. QED  BY <2>1, <1>3, <1>4 DEF Same
  <1>6. Counted
        BY <1>5, UsesCount
  <1>7. CASE op' = next
        BY <1>1, <1>3, <1>6, <1>7 DEF GivesUp, Same
  <1>8. CASE op' = stop
        BY <1>1, <1>4, <1>6, <1>8 DEF Onward, Same
  <1>9. CASE op' = Lost(op.hit)
        BY <1>1, <1>4, <1>6, <1>9, LostDoes DEF Onward, Same
  <1>. QED  BY <1>5, <1>7, <1>8, <1>9

(* Pick: the next message found, or the end of the clean-up. *)
LEMMA PickDoes ==
    ASSUME TypeOK, Pick
    PROVE  /\ op.kind = "cleanup" /\ op' \in Ops /\ op'.kind = "cleanup" /\ Same(op')
           /\ op'.msg = op.msg /\ op'.moved = op.moved /\ op'.left = op.left
           /\ op'.todo \subseteq op.todo
           /\ \/ op'.at = "done"
              \/ /\ op'.at = "select"
                 /\ \E c \in op.todo : op'.f = c.f /\ op'.uid = c.uid /\ op'.want = c.val
           /\ UNCHANGED <<box, cat, tombs, used, doomed>>
  <1>1. op \in Ops /\ op.kind = "cleanup" /\ UNCHANGED <<box, cat, tombs, used, doomed>>
        BY DEF TypeOK, Pick, Asking
  <1>2. CASE op.todo = {}
        BY <1>1, <1>2 DEF Pick, Go, Ops, Places, Works, Same
  <1>3. CASE op.todo # {}
    <2>1. PICK c \in op.todo :
            op' = [op EXCEPT !.at = "select", !.f = c.f, !.uid = c.uid, !.want = c.val,
                             !.dest = 0, !.todo = @ \ {c}]
          BY <1>3 DEF Pick
    <2>2. c.f \in Folders /\ c.uid \in Nat /\ c.val \in Nat
          BY <1>1 DEF Ops, Locators
    <2>. QED  BY <1>1, <2>1, <2>2 DEF Ops, Places, Works, Same
  <1>. QED  BY <1>2, <1>3

(* Ask, AskCleanup: an operation starts with nothing found or moved. *)
LEMMA AskDoes ==
    ASSUME TypeOK, Trash \in Folders,
           \/ \E f \in Folders : \E r \in cat[f].rows :
                 \E k \in {"move", "delete"} : Ask(k, f, r)
           \/ \E s \in Senders : AskCleanup(s)
    PROVE  /\ op' \in Ops /\ op'.at = "asked" /\ op'.kind \in {"move", "delete", "cleanup"}
           /\ op'.kind = "move" => op'.f # Trash
           /\ op'.hit = {} /\ op'.todo = {} /\ op'.moved = {} /\ op'.left = {} /\ Counted
           /\ UNCHANGED <<box, cat, tombs, doomed>>
  <1>1. CASE \E s \in Senders : AskCleanup(s)
    <2>1. PICK s \in Senders : AskCleanup(s)
          BY <1>1
    <2>2. Counted
          BY <2>1, UsesCount DEF AskCleanup
    <2>. QED  BY <2>1, <2>2 DEF AskCleanup, Idle, Ops, Kinds, Places, Works
  <1>2. ASSUME NEW f \in Folders, NEW r \in cat[f].rows, NEW k \in {"move", "delete"},
               Ask(k, f, r)
        PROVE  /\ op' \in Ops /\ op'.at = "asked" /\ op'.kind \in {"move", "delete", "cleanup"}
               /\ op'.kind = "move" => op'.f # Trash
               /\ op'.hit = {} /\ op'.todo = {} /\ op'.moved = {} /\ op'.left = {} /\ Counted
               /\ UNCHANGED <<box, cat, tombs, doomed>>
    <2>1. r.uid \in Nat /\ r.msg \in Msgs
          BY DEF TypeOK
    <2>2. Counted
          BY <1>2, UsesCount DEF Ask
    <2>. QED  BY <1>2, <2>1, <2>2 DEF Ask, Idle, Ops, Kinds, Places, Works
  <1>. QED  BY <1>1, <1>2

(* Begin: the operation has the account. *)
LEMMA BeginDoes ==
    ASSUME TypeOK, Begin
    PROVE  /\ op.at = "asked" /\ op' \in Ops /\ Same(op') /\ op'.f = op.f
           /\ op'.kind = op.kind /\ op'.msg = op.msg /\ op'.moved = op.moved
           /\ op'.todo = op.todo
           /\ op'.at \in {"discover", "select", "failed"}
           /\ op.kind = "cleanup" => op'.at = "discover" /\ op'.left = Folders \ {Trash}
           /\ UNCHANGED <<box, cat, tombs, used, doomed>>
  <1>1. op \in Ops /\ op.at = "asked" /\ UNCHANGED <<box, cat, tombs, used, doomed>>
        BY DEF TypeOK, Begin
  <1>2. cat[op.f].val \in Nat
        BY <1>1 DEF TypeOK, Ops
  <1>3. PICK plus \in BOOLEAN, mv \in BOOLEAN :
          op' = [op EXCEPT !.uidplus = plus, !.move = mv,
                   !.left = IF op.kind = "cleanup" THEN Folders \ {Trash} ELSE {},
                   !.want = IF op.kind = "delete" THEN cat[op.f].val ELSE 0,
                   !.at = CASE op.kind = "cleanup" -> "discover"
                            [] op.kind = "move" -> "select"
                            [] OTHER -> IF Located(op.f, op.uid) /\ plus THEN "select"
                                        ELSE "failed"]
        BY DEF Begin
  <1>. DEFINE place == CASE op.kind = "cleanup" -> "discover"
                         [] op.kind = "move" -> "select"
                         [] OTHER -> IF Located(op.f, op.uid) /\ plus THEN "select"
                                     ELSE "failed"
              left == IF op.kind = "cleanup" THEN Folders \ {Trash} ELSE {}
              want == IF op.kind = "delete" THEN cat[op.f].val ELSE 0
  <1>4. /\ place \in {"discover", "select", "failed"}
        /\ op.kind = "cleanup" => place = "discover"
        /\ left \in SUBSET Folders /\ want \in Nat
        BY <1>2
  <1>5. op' = [op EXCEPT !.uidplus = plus, !.move = mv, !.left = left, !.want = want,
                         !.at = place]
        BY <1>3
  <1>6. op.kind = "cleanup" => left = Folders \ {Trash}
        OBVIOUS
  <1>. HIDE DEF place, left, want
  <1>7. place \in Places
        BY <1>4 DEF Places, Works
  <1>8. op' \in Ops
        BY <1>1, <1>4, <1>5, <1>7 DEF Ops
  <1>9. /\ Same(op') /\ op'.f = op.f /\ op'.kind = op.kind /\ op'.msg = op.msg
        /\ op'.moved = op.moved /\ op'.todo = op.todo /\ op'.at = place /\ op'.left = left
        BY <1>1, <1>5 DEF Ops, Same
  <1>. QED  BY <1>1, <1>4, <1>6, <1>8, <1>9

(* Commit: the row of the UID leaves its folder; a move may bring it to     *)
(* Trash.                                                                   *)
LEMMA CommitDoes ==
    ASSUME TypeOK, Trash \in Folders, op.val # 0, Commit
    PROVE  /\ op.at = "commit" /\ op' \in Ops /\ Same(op') /\ op'.f = op.f
           /\ op'.kind = op.kind /\ op'.msg = op.msg /\ op'.left = op.left
           /\ op'.todo = op.todo
           /\ op'.at = (IF op.kind = "cleanup" THEN "pick" ELSE "done")
           /\ op'.moved = op.moved \cup {[uid |-> op.uid, f |-> op.f, val |-> op.val]}
           /\ cat' \in [Folders -> [val : Nat \ {0}, rows : SUBSET [uid : Nat, msg : Msgs]]]
           /\ \A f \in Folders : cat'[f].val = cat[f].val
           /\ \A f \in Folders : op.kind = "delete" \/ f # Trash =>
                 \A r \in cat'[f].rows : r \in cat[f].rows /\ (f = op.f => r.uid # op.uid)
           /\ tombs' = tombs \cup {<<op.f, op.uid>>}
           /\ UNCHANGED <<box, used, doomed>>
  <1>. DEFINE row  == {r \in cat[op.f].rows : r.uid = op.uid}
              here == [uid |-> op.uid, f |-> op.f, val |-> op.val]
              gone == [cat EXCEPT ![op.f].rows = @ \ row]
              kept == {r \in gone[Trash].rows :
                          r.uid # op.dest \/ (op.kind = "cleanup" /\ row = {})}
              back == {[uid |-> op.dest, msg |-> r.msg] : r \in row}
              place == IF op.kind = "cleanup" THEN "pick" ELSE "done"
              Cats == [Folders -> [val : Nat \ {0}, rows : SUBSET [uid : Nat, msg : Msgs]]]
  <1>1. /\ op \in Ops /\ op.at = "commit" /\ UNCHANGED <<box, used, doomed>>
        /\ tombs' = tombs \cup {<<op.f, op.uid>>}
        /\ op' = [op EXCEPT !.at = place, !.moved = @ \cup {here}]
        BY DEF TypeOK, Commit
  <1>2. op.f \in Folders /\ op.uid \in Nat /\ op.dest \in Nat /\ here \in Locators
        BY <1>1 DEF Ops, Locators
  <1>3. /\ op' \in Ops /\ Same(op') /\ op'.f = op.f /\ op'.kind = op.kind
        /\ op'.msg = op.msg /\ op'.left = op.left /\ op'.todo = op.todo
        /\ op'.at = place /\ op'.moved = op.moved \cup {here}
    <2>. HIDE DEF here
    <2>. QED  BY <1>1, <1>2 DEF Ops, Places, Works, Same
  <1>4. /\ gone \in Cats /\ \A f \in Folders : gone[f].val = cat[f].val
        /\ \A f \in Folders : gone[f].rows \subseteq cat[f].rows
        /\ \A r \in gone[op.f].rows : r.uid # op.uid
        BY <1>2 DEF TypeOK
  <1>5. back \subseteq [uid : Nat, msg : Msgs]
        BY <1>2 DEF TypeOK
  <1>6. \/ cat' = gone
        \/ op.kind # "delete" /\ cat' = [gone EXCEPT ![Trash].rows = kept \cup back]
    <2>1. CASE op.dest = 0 \/ op.kind = "delete"
          BY <2>1 DEF Commit
    <2>2. CASE ~(op.dest = 0 \/ op.kind = "delete")
      <3>1. cat' = [gone EXCEPT ![Trash].rows =
                       {r \in @ : r.uid # op.dest \/ (op.kind = "cleanup" /\ row = {})}
                         \cup {[uid |-> op.dest, msg |-> r.msg] : r \in row}]
            BY <2>2 DEF Commit
      <3>. QED  BY <2>2, <3>1
    <2>. QED  BY <2>1, <2>2
  <1>. HIDE DEF gone, back
  <1>7. kept \cup back \subseteq [uid : Nat, msg : Msgs]
        BY <1>4, <1>5
  <1>. HIDE DEF kept
  <1>8. /\ cat' \in Cats /\ \A f \in Folders : cat'[f].val = cat[f].val
        /\ \A f \in Folders : op.kind = "delete" \/ f # Trash => cat'[f].rows = gone[f].rows
        BY <1>4, <1>6, <1>7
  <1>. QED  BY <1>1, <1>3, <1>4, <1>8

-----------------------------------------------------------------------------
(* Types *)

(* The folders stay what they are when the commands of a message change them.*)
LEMMA BoxTypes ==
    ASSUME TypeOK, Trash \in Folders, NEW b \in {box, Moved, Copied, MarkedUs, Cleared, Cleaned}
    PROVE  /\ b \in Boxes /\ \A f \in Folders : IsFiniteSet(b[f].held)
           /\ \A f \in Folders : b[f].val = box[f].val
           /\ b \in {Moved, Copied} => \A f \in Folders \ {Trash} : b[f].held \subseteq box[f].held
  <1>1. /\ box \in Boxes /\ op.f \in Folders /\ Here \subseteq box[op.f].held
        /\ \A f \in Folders : IsFiniteSet(box[f].held)
        BY FolderTypes DEF TypeOK, Boxes
  <1>2. \A f \in Folders : \A S \in SUBSET box[f].held : IsFiniteSet(S)
        BY <1>1, FS_Subset
  <1>3. CASE b = box
        BY <1>1, <1>3
  <1>4. CASE b = Copied
        BY <1>1, <1>4, FolderTypes DEF Copied, Boxes
  <1>5. CASE b = Moved
    <2>1. /\ \A f \in Folders : b[f].val = box[f].val /\ b[f].next \in Nat
          /\ \A f \in Folders \ {Trash} : b[f].held \subseteq box[f].held
          /\ b[Trash].held \subseteq Arrived.held
          /\ b \in Boxes
          BY <1>1, <1>5, FolderTypes DEF Moved, Boxes
    <2>2. IsFiniteSet(b[Trash].held)
          BY <2>1, FolderTypes, FS_Subset
    <2>. QED  BY <1>2, <2>1, <2>2
  <1>6. ASSUME NEW d \in {"no", "us"}, b = [box EXCEPT ![op.f].held = Marked(d)]
        PROVE  /\ b \in Boxes /\ \A f \in Folders : IsFiniteSet(b[f].held)
               /\ \A f \in Folders : b[f].val = box[f].val
    <2>. DEFINE m == Marked(d)
    <2>1. m \in SUBSET Entries /\ IsFiniteSet(m)
          BY FolderTypes
    <2>2. b = [box EXCEPT ![op.f].held = m]
          BY <1>6
    <2>. HIDE DEF m
    <2>3. \A f \in Folders : b[f].held \in {m, box[f].held} /\ b[f].val = box[f].val
          BY <1>1, <2>2 DEF Boxes
    <2>4. b \in Boxes
          BY <1>1, <2>1, <2>2 DEF Boxes
    <2>. QED  BY <1>1, <2>1, <2>3, <2>4
  <1>7. CASE b \in {MarkedUs, Cleaned} /\ b \notin {Moved, Copied}
        BY <1>6, <1>7 DEF MarkedUs, Cleaned
  <1>8. CASE b = Cleared
    <2>1. /\ \A f \in Folders : b[f].val = box[f].val
          /\ \A f \in Folders : b[f].held \in SUBSET box[f].held
          /\ b \in Boxes
          BY <1>1, <1>8 DEF Cleared, Boxes
    <2>. QED  BY <1>2, <2>1
  <1>. QED  BY <1>3, <1>4, <1>5, <1>7, <1>8

(* The other client and the server. *)
LEMMA OthersDo ==
    ASSUME TypeOK, NEW f \in Folders,
           Compact(f) \/ Recreate(f) \/ \E e \in box[f].held : Mark(f, e)
    PROVE  /\ box' \in Boxes /\ \A g \in Folders : IsFiniteSet(box'[g].held)
           /\ \A g \in Folders : g # f => box'[g] = box[g]
           /\ box'[f].val \in {box[f].val, box[f].val + 1}
           /\ box'[f].val # box[f].val => op.f # f \/ op.at \notin Commands
           /\ \A e \in box'[f].held : \E x \in box[f].held : e.msg = x.msg
           /\ box'[f].val = box[f].val =>
                 \A e \in box'[f].held : \E x \in box[f].held :
                    e.msg = x.msg /\ e.uid = x.uid
                    /\ (e.del = x.del \/ (x.del = "no" /\ e.del = "other" /\ e.msg \in doomed'))
           /\ box'[f].val # box[f].val => /\ \A e \in box'[f].held : e.del = "no"
                                         /\ OneEach(f)'
           /\ \A x \in box[f].held :
                 x.del = "no" \/ ~Compact(f) => \E e \in box'[f].held : e.msg = x.msg
           /\ doomed \subseteq doomed' /\ doomed' \subseteq Msgs
           /\ Counted /\ UNCHANGED <<cat, tombs, op>>
  <1>1. /\ box \in Boxes /\ \A g \in Folders : IsFiniteSet(box[g].held)
        /\ doomed \subseteq Msgs
        BY DEF TypeOK, Boxes
  <1>2. CASE Compact(f)
    <2>1. /\ box' = [box EXCEPT ![f].held = {e \in box[f].held : e.del = "no"}]
          /\ UNCHANGED <<cat, tombs, op, doomed>> /\ Counted
          BY <1>2, UsesCount DEF Compact, Put
    <2>2. IsFiniteSet({e \in box[f].held : e.del = "no"})
          BY <1>1, FS_Subset
    <2>. QED  BY <1>1, <1>2, <2>1, <2>2 DEF Boxes
  <1>3. ASSUME NEW x \in box[f].held, Mark(f, x)
        PROVE  /\ box' \in Boxes /\ \A g \in Folders : IsFiniteSet(box'[g].held)
               /\ \A g \in Folders : g # f => box'[g] = box[g]
               /\ box'[f].val = box[f].val
               /\ \A e \in box'[f].held : \E y \in box[f].held :
                     e.msg = y.msg /\ e.uid = y.uid
                     /\ (e.del = y.del \/ (y.del = "no" /\ e.del = "other" /\ e.msg \in doomed'))
               /\ \A y \in box[f].held : \E e \in box'[f].held : e.msg = y.msg
               /\ doomed \subseteq doomed' /\ doomed' \subseteq Msgs
               /\ Counted /\ UNCHANGED <<cat, tombs, op>>
    <2>. DEFINE m == [x EXCEPT !.del = "other"]
    <2>1. /\ x \in Entries /\ x.del = "no"
          /\ box' = [box EXCEPT ![f].held = (box[f].held \ {x}) \cup {m}]
          /\ doomed' = doomed \cup {x.msg}
          /\ UNCHANGED <<cat, tombs, op>> /\ Counted
          BY <1>1, <1>3, UsesCount DEF Mark, Put, Boxes
    <2>2. m \in Entries /\ m.msg = x.msg /\ m.uid = x.uid /\ m.del = "other"
          BY <2>1 DEF Entries
    <2>. HIDE DEF m
    <2>3. IsFiniteSet((box[f].held \ {x}) \cup {m})
          BY <1>1, FS_RemoveElement, FS_AddElement
    <2>4. x.msg \in Msgs
          BY <2>1 DEF Entries
    <2>. QED  BY <1>1, <2>1, <2>2, <2>3, <2>4 DEF Boxes
  <1>4. CASE Recreate(f)
    <2>. DEFINE ms == {e.msg : e \in box[f].held}
    <2>1. PICK n \in Numberings(ms) : box' = [box EXCEPT ![f] = Holding(box[f].val + 1, n)]
          BY <1>4 DEF Recreate
    <2>2. ms \in SUBSET Msgs /\ IsFiniteSet(ms)
          BY <1>1, MessagesFinite DEF Boxes, Entries
    <2>3. box[f].val + 1 \in Nat \ {0} /\ box[f].val \in Nat
          BY <1>1 DEF Boxes
    <2>4. /\ UNCHANGED <<cat, tombs, op, used, doomed>> /\ Counted
          /\ op.f # f \/ op.at \notin Commands
          BY <1>4 DEF Recreate, TypeOK, Counted, Commands
    <2>. DEFINE v == box[f].val + 1
                H == Holding(v, n)
    <2>5. /\ H \in [val : Nat \ {0}, next : Nat, held : SUBSET Entries]
          /\ IsFiniteSet(H.held) /\ H.val = box[f].val + 1
          /\ \A m \in ms : \E e \in H.held : e.msg = m
          /\ \A e \in H.held : e.msg \in ms /\ e.del = "no"
          /\ \A e, x \in H.held : e.uid = x.uid => e.msg = x.msg
      <3>. HIDE DEF ms, v
      <3>1. v \in Nat \ {0}
            BY <2>3 DEF v
      <3>2. H.val = v
            BY <2>2, <3>1, HoldingAll
      <3>3. \A e \in H.held : e.msg \in ms /\ e.del = "no"
            BY <2>2, <3>1, HoldingAll
      <3>. QED  BY <2>2, <3>1, <3>2, <3>3, HoldingAll DEF v
    <2>. HIDE DEF H
    <2>6. box' = [box EXCEPT ![f] = H]
          BY <2>1 DEF H
    <2>7. /\ box' \in Boxes /\ \A g \in Folders : IsFiniteSet(box'[g].held)
          /\ \A g \in Folders : g # f => box'[g] = box[g]
          /\ box'[f] = H
          BY <1>1, <2>5, <2>6 DEF Boxes
    <2>8. OneEach(f)'
          BY <2>5, <2>7 DEF OneEach
    <2>9. /\ box'[f].val = box[f].val + 1 /\ box'[f].val # box[f].val
          /\ \A e \in box'[f].held : e.del = "no" /\ \E x \in box[f].held : e.msg = x.msg
          /\ \A x \in box[f].held : \E e \in box'[f].held : e.msg = x.msg
      <3>1. box'[f].val = box[f].val + 1 /\ box'[f].val # box[f].val
            BY <2>3, <2>5, <2>7
      <3>2. \A e \in box'[f].held : e.del = "no" /\ \E x \in box[f].held : e.msg = x.msg
            BY <2>5, <2>7
      <3>3. ASSUME NEW x \in box[f].held PROVE \E e \in box'[f].held : e.msg = x.msg
        <4>1. x.msg \in ms
              OBVIOUS
        <4>. HIDE DEF ms
        <4>. QED  BY <2>5, <2>7, <4>1
      <3>. QED  BY <3>1, <3>2, <3>3
    <2>10. /\ box'[f].val \in {box[f].val, box[f].val + 1}
           /\ box'[f].val # box[f].val => op.f # f \/ op.at \notin Commands
           /\ box'[f].val # box[f].val => (\A e \in box'[f].held : e.del = "no") /\ OneEach(f)'
           BY <2>4, <2>8, <2>9
    <2>11. /\ \A e \in box'[f].held : \E x \in box[f].held : e.msg = x.msg
           /\ \A x \in box[f].held :
                 x.del = "no" \/ ~Compact(f) => \E e \in box'[f].held : e.msg = x.msg
           BY <2>9
    <2>12. box'[f].val = box[f].val =>
              \A e \in box'[f].held : \E x \in box[f].held :
                 e.msg = x.msg /\ e.uid = x.uid
                 /\ (e.del = x.del \/ (x.del = "no" /\ e.del = "other" /\ e.msg \in doomed'))
           BY <2>9
    <2>13. doomed \subseteq doomed' /\ doomed' \subseteq Msgs /\ Counted
           /\ UNCHANGED <<cat, tombs, op>>
           BY <1>1, <2>4
    <2>. QED  BY <2>7, <2>10, <2>11, <2>12, <2>13, Zenon
  <1>. QED  BY <1>2, <1>3, <1>4

(* Sync: the watcher reads the folder as it is. *)
LEMMA SyncDoes ==
    ASSUME TypeOK, NEW f \in Folders, Sync(f)
    PROVE  /\ cat' \in [Folders -> [val : Nat \ {0}, rows : SUBSET [uid : Nat, msg : Msgs]]]
           /\ tombs' \subseteq Folders \X Nat
           /\ \A g \in Folders : g # f => cat'[g] = cat[g]
           /\ cat'[f].val = box[f].val
           /\ \A r \in cat'[f].rows : \E e \in box[f].held : e.uid = r.uid
           /\ UNCHANGED <<box, op, used, doomed>>
  <1>. DEFINE new == box[f].val # cat[f].val
              old == IF new THEN {} ELSE {t \in tombs : t[1] = f}
              rs == {r \in Rows(box[f].held) : <<f, r.uid>> \notin old}
  <1>1. /\ cat' = [cat EXCEPT ![f] = [val |-> box[f].val, rows |-> rs]]
        /\ tombs' \subseteq tombs /\ UNCHANGED <<box, op, used, doomed>>
        BY DEF Sync
  <1>2. /\ rs \subseteq [uid : Nat, msg : Msgs]
        /\ \A r \in rs : \E e \in box[f].held : e.uid = r.uid
        BY DEF Rows, TypeOK, Entries
  <1>3. box[f].val \in Nat \ {0}
        BY DEF TypeOK
  <1>. HIDE DEF rs
  <1>. QED  BY <1>1, <1>2, <1>3 DEF TypeOK

(* End: the account is free. *)
LEMMA EndDoes ==
    ASSUME TypeOK, Trash \in Folders, End
    PROVE  /\ op' \in Ops /\ op'.at = "idle" /\ op'.kind = "none" /\ op'.moved = {}
           /\ UNCHANGED <<box, cat, tombs, used, doomed>>
  BY DEF End, Idle, Ops, Kinds, Places, Works

(* The steps of the user, and of the other client and the server. *)
Asks == \/ \E f \in Folders : \E r \in cat[f].rows : \E k \in {"move", "delete"} : Ask(k, f, r)
        \/ \E s \in Senders : AskCleanup(s)
Others(f) == Compact(f) \/ Recreate(f) \/ \E e \in box[f].held : Mark(f, e)

(* What a step leaves alone, and the types of what it does not. *)
LEMMA NextType ==
    ASSUME Trash \in Folders, TypeOK, Placed, [Next]_vars PROVE TypeOK'
  <1>1. CASE UNCHANGED vars
        BY <1>1 DEF TypeOK, vars
  <1>2. CASE Asks
        BY <1>2, AskDoes DEF Asks, TypeOK, Counted
  <1>3. CASE Begin \/ Pick \/ NoMove \/ End
        BY <1>3, BeginDoes, PickDoes, NoMoveDoes, EndDoes DEF TypeOK, Onward
  <1>4. ASSUME NEW f \in Folders, Discover(f) PROVE TypeOK'
        BY <1>4, DiscoverDoes DEF TypeOK, Counted
  <1>5. CASE Select
        BY <1>5, SelectDoes DEF TypeOK, Counted, Onward
  <1>6. CASE Move \/ Copy \/ Store \/ Expunge \/ Unmark
    <2>1. /\ op' \in Ops /\ Counted /\ UNCHANGED <<cat, tombs>> /\ doomed' \in {doomed, Meant}
          /\ box' \in {box, Moved, Copied, MarkedUs, Cleared, Cleaned}
          BY <1>6, MoveDoes, CopyDoes, StoreDoes, ExpungeDoes, UnmarkDoes DEF Onward
    <2>2. box' \in Boxes /\ \A f \in Folders : IsFiniteSet(box'[f].held)
          BY <2>1, BoxTypes
    <2>3. Meant \subseteq Msgs
          BY FolderTypes DEF Meant, TypeOK, Hit
    <2>. QED  BY <2>1, <2>2, <2>3 DEF TypeOK, Counted, Boxes
  <1>7. CASE Commit
    <2>1. op.val # 0 /\ op.f \in Folders /\ op.uid \in Nat
          BY <1>7 DEF Placed, Commit, TypeOK, Ops
    <2>. QED  BY <1>7, <2>1, CommitDoes DEF TypeOK
  <1>8. ASSUME NEW f \in Folders, Sync(f) PROVE TypeOK'
        BY <1>8, SyncDoes DEF TypeOK
  <1>9. ASSUME NEW f \in Folders, Others(f) PROVE TypeOK'
        BY <1>9, OthersDo DEF Others, TypeOK, Counted, Boxes
  <1>. QED  BY <1>1, <1>2, <1>3, <1>4, <1>5, <1>6, <1>7, <1>8, <1>9 DEF Next, Asks, Others

-----------------------------------------------------------------------------
(* Where an operation works *)

(* Every step keeps Placed. *)
LEMMA NextPlaced ==
    ASSUME Trash \in Folders, TypeOK, Placed, [Next]_vars PROVE Placed'
  <1>0. op \in Ops /\ op.f \in Folders
        BY DEF TypeOK, Ops
  <1>1. CASE UNCHANGED vars
        BY <1>1 DEF Placed, vars
  <1>2. CASE Asks
    <2>1. /\ op'.at = "asked" /\ (op'.kind = "move" => op'.f # Trash)
          /\ op'.todo = {} /\ op'.left = {} /\ op'.kind # "none"
          BY <1>2, AskDoes DEF Asks
    <2>. QED  BY <2>1 DEF Placed, Works, Commands
  <1>3. CASE Begin
        BY <1>0, <1>3, BeginDoes DEF Placed, Works, Commands
  <1>4. CASE Pick
        BY <1>0, <1>4, PickDoes DEF Placed, Works, Commands
  <1>5. CASE NoMove
        BY <1>0, <1>5, NoMoveDoes DEF Placed, Works, Commands, Onward, Same, GivesUp
  <1>6. CASE End
        BY <1>6, EndDoes DEF Placed, Works, Commands
  <1>7. ASSUME NEW f \in Folders, Discover(f) PROVE Placed'
    <2>1. \A c \in Found(f) : c.f = f
          BY DEF Found
    <2>. QED  BY <1>7, <2>1, DiscoverDoes DEF Placed, Works, Commands, GivesUp
  <1>8. CASE Select
    <2>1. op'.at \in Commands \cup GivesUp
          BY <1>8, SelectDoes DEF Onward, Commands
    <2>. QED  BY <1>8, <2>1, SelectDoes DEF Placed, Onward, Works, Commands, GivesUp
  <1>9. CASE Move \/ Copy \/ Store \/ Expunge \/ Unmark
    <2>1. /\ Onward(op', {"commit", "nomove", "store", "expunge", "unmark"} \cup GivesUp)
          /\ op.at \in Commands /\ op'.val = op.val
          /\ box' \in {box, Moved, Copied, MarkedUs, Cleared, Cleaned}
          /\ op'.at = "nomove" => op.at = "move"
          BY <1>9, MoveDoes, CopyDoes, StoreDoes, ExpungeDoes, UnmarkDoes
             DEF Onward, Commands, GivesUp, Same
    <2>2. /\ \A f \in Folders : box'[f].val = box[f].val
          /\ box[op.f].val \in Nat \ {0}
          BY <1>0, <2>1, BoxTypes DEF TypeOK
    <2>. QED  BY <1>0, <2>1, <2>2 DEF Placed, Onward, Works, Commands, GivesUp
  <1>10. CASE Commit
    <2>1. op.val # 0
          BY <1>10 DEF Placed, Commit
    <2>. QED  BY <1>10, <2>1, CommitDoes DEF Placed, Works, Commands
  <1>11. ASSUME NEW f \in Folders, Sync(f) PROVE Placed'
        BY <1>11, SyncDoes DEF Placed
  <1>12. ASSUME NEW f \in Folders, Others(f) PROVE Placed'
    <2>1. /\ op' = op
          /\ box[op.f].val \in Nat /\ box'[op.f].val \in {box[op.f].val, box[op.f].val + 1}
          /\ op.at \in Commands => box'[op.f].val = box[op.f].val
          BY <1>0, <1>12, OthersDo DEF Others, TypeOK
    <2>. QED  BY <2>1 DEF Placed, Commands
  <1>. QED  BY <1>1, <1>2, <1>3, <1>4, <1>5, <1>6, <1>7, <1>8, <1>9, <1>10, <1>11, <1>12
            DEF Next, Asks, Others

-----------------------------------------------------------------------------
(* Nothing is lost *)

(* A step that takes no message from a folder, and marks only what was meant *)
(* to go, harms nobody.                                                      *)
LEMMA HarmlessStays ==
    ASSUME TypeOK, Trash \in Folders, Harmless, doomed \subseteq doomed',
           \A f \in Folders : \A x \in box[f].held :
              x.msg \in doomed' \/ \E g \in Folders : \E e \in box'[g].held : e.msg = x.msg,
           \A x \in box[Trash].held :
              x.msg \in doomed' \/ \E e \in box'[Trash].held : e.msg = x.msg,
           \A f \in Folders : \A e \in box'[f].held : e.del # "no" =>
              \/ e.msg \in doomed'
              \/ \E x \in box[f].held : x.msg = e.msg /\ x.del # "no"
              \/ f # Trash /\ InTrash(e.msg),
           op'.at = "store" /\ op'.kind # "delete" => \A e \in Here' :
              e.msg \in doomed' \/ InTrash(e.msg)'
    PROVE  Harmless'
  <1>1. \A m : InTrash(m) => m \in doomed' \/ InTrash(m)'
        BY DEF InTrash
  <1>2. NothingLost'
    <2>. SUFFICES ASSUME NEW m \in Msgs \ doomed'
                  PROVE  \E g \in Folders : \E e \in box'[g].held : e.msg = m
         BY DEF NothingLost
    <2>1. PICK f \in Folders : \E x \in box[f].held : x.msg = m
          BY DEF Harmless, NothingLost
    <2>. QED  BY <2>1
  <1>3. ASSUME NEW f \in Folders, NEW e \in box'[f].held, e.del # "no"
        PROVE  e.msg \in doomed' \/ (f # Trash /\ InTrash(e.msg)')
    <2>1. CASE \E x \in box[f].held : x.msg = e.msg /\ x.del # "no"
          BY <1>1, <2>1 DEF Harmless
    <2>2. CASE f # Trash /\ InTrash(e.msg)
          BY <1>1, <2>2
    <2>. QED  BY <1>3, <2>1, <2>2
  <1>4. /\ op'.at = "store" => op'.kind = "delete"
           \/ \A e \in Here' : e.msg \in doomed' \/ InTrash(e.msg)'
        OBVIOUS
  <1>. QED  BY <1>2, <1>3, <1>4 DEF Harmless

(* Nothing goes, and nothing is marked, while the folders stay. *)
LEMMA HarmlessRests ==
    ASSUME Harmless, UNCHANGED <<box, doomed>>, op'.at # "store"
    PROVE  Harmless'
  BY DEF Harmless, NothingLost, InTrash

(* What a UID names is in Trash before its folder loses it. *)
LEMMA MoveHarmless ==
    ASSUME TypeOK, Trash \in Folders, Placed, Harmless, Move \/ Copy PROVE Harmless'
  <1>1. /\ op.f \in Folders /\ op.f # Trash /\ UNCHANGED doomed
        /\ op'.f = op.f /\ op'.uid = op.uid
        /\ op'.at = "store" => box' = Copied
        /\ box' \in {box, Moved, Copied}
        BY FolderTypes, MoveDoes, CopyDoes DEF Placed, Works, Commands, Onward, GivesUp, TypeOK, Ops, Kinds
  <1>2. /\ \A f \in Folders : f \notin {Trash, op.f} => box'[f] = box[f]
        /\ box'[Trash].held \in {box[Trash].held, Arrived.held}
        /\ box'[op.f].held \in {box[op.f].held, box[op.f].held \ Here}
        /\ box'[op.f].held # box[op.f].held => box'[Trash].held = Arrived.held
        /\ box' = Copied => box'[Trash].held = Arrived.held /\ box'[op.f] = box[op.f]
    <2>1. box[op.f] \in [val : Nat \ {0}, next : Nat, held : SUBSET Entries]
          BY <1>1 DEF TypeOK
    <2>2. box \in [Folders -> [val : Nat \ {0}, next : Nat, held : SUBSET Entries]]
          BY DEF TypeOK
    <2>. QED  BY <1>1, <2>1, <2>2 DEF Moved, Copied
  <1>3. \A x \in box[Trash].held : \E e \in box'[Trash].held : e.msg = x.msg
        BY <1>2, FolderTypes
  <1>4. ASSUME NEW f \in Folders, NEW x \in box[f].held
        PROVE  \E g \in Folders : \E e \in box'[g].held : e.msg = x.msg
    <2>1. CASE f = op.f /\ x \notin box'[f].held
          BY <1>2, <2>1, FolderTypes
    <2>2. CASE f # op.f
          BY <1>2, <1>3, <2>2
    <2>. QED  BY <2>1, <2>2
  <1>5. ASSUME NEW f \in Folders, NEW e \in box'[f].held, e.del # "no"
        PROVE  e \in box[f].held
        BY <1>1, <1>2, <1>5, FolderTypes
  <1>6. ASSUME op'.at = "store", NEW e \in Here'
        PROVE  InTrash(e.msg)'
        BY <1>1, <1>2, <1>6, FolderTypes DEF Here, InTrash
  <1>7. \A f \in Folders : \A e \in box'[f].held : e.del # "no" =>
           \E x \in box[f].held : x.msg = e.msg /\ x.del # "no"
        BY <1>5
  <1>8. \A x \in box[Trash].held : x.msg \in doomed'
           \/ \E e \in box'[Trash].held : e.msg = x.msg
        BY <1>3
  <1>. QED  BY <1>1, <1>4, <1>6, <1>7, <1>8, HarmlessStays

(* A mark is set after the copy is made, or on what is meant to go. *)
LEMMA StoreHarmless ==
    ASSUME TypeOK, Trash \in Folders, Placed, Harmless, Store PROVE Harmless'
  <1>1. /\ op.f \in Folders /\ op.at = "store" /\ op'.at # "store"
        /\ op.kind = "delete" \/ op.f # Trash
        BY FolderTypes, StoreDoes DEF Placed, Works, Commands, Onward, GivesUp, TypeOK, Ops, Kinds
  <1>2. CASE UNCHANGED <<box, doomed>>
        BY <1>1, <1>2, HarmlessRests
  <1>3. CASE box' = MarkedUs /\ doomed' = Meant
    <2>1. box' = [box EXCEPT ![op.f].held = Marked("us")]
          BY <1>3 DEF MarkedUs
    <2>2. /\ \A f \in Folders : f # op.f => box'[f] = box[f]
          /\ \A x \in box[op.f].held : \E e \in box'[op.f].held : e.msg = x.msg
          /\ \A e \in box'[op.f].held : \/ e \in box[op.f].held
                                      \/ \E x \in Here : e.msg = x.msg
          BY <2>1, MarkedDoes
    <2>5. \A f \in Folders : \A x \in box[f].held : \E e \in box'[f].held : e.msg = x.msg
          BY <2>2
    <2>6. \A e \in Here : e.msg \in doomed' \/ (op.f # Trash /\ InTrash(e.msg))
          BY <1>1, <1>3 DEF Meant, Harmless
    <2>7. ASSUME NEW f \in Folders, NEW e \in box'[f].held, e.del # "no"
          PROVE  \/ e.msg \in doomed'
                 \/ \E x \in box[f].held : x.msg = e.msg /\ x.del # "no"
                 \/ f # Trash /\ InTrash(e.msg)
      <3>1. CASE e \in box[f].held
            BY <3>1, <2>7
      <3>2. CASE e \notin box[f].held
        <4>1. f = op.f /\ \E x \in Here : e.msg = x.msg
              BY <2>2, <3>2
        <4>. QED  BY <4>1, <2>6
      <3>. QED  BY <3>1, <3>2
    <2>8. doomed \subseteq doomed'
          BY <1>3 DEF Meant
    <2>. QED  BY <1>1, <2>5, <2>7, <2>8, HarmlessStays
  <1>. QED  BY <1>2, <1>3, StoreDoes

(* What an expunge takes bears a mark, and a mark taken back changes nothing. *)
LEMMA ExpungeHarmless ==
    ASSUME TypeOK, Trash \in Folders, Placed, Harmless, Expunge \/ Unmark PROVE Harmless'
  <1>1. /\ op.f \in Folders /\ op'.at # "store" /\ UNCHANGED doomed
        /\ box' \in {box, Cleared, Cleaned}
        BY FolderTypes, ExpungeDoes, UnmarkDoes DEF Onward, GivesUp
  <1>2. CASE box' = box
        BY <1>1, <1>2, HarmlessRests
  <1>3. CASE box' = Cleared
    <2>1. /\ \A f \in Folders : f # op.f => box'[f] = box[f]
          /\ box'[op.f].held = box[op.f].held \ Expunged
          BY <1>1, <1>3 DEF Cleared, TypeOK
    <2>2. \A f \in Folders : \A x \in box[f].held :
             x \in box'[f].held \/ (f = op.f /\ x.del # "no")
          BY <2>1 DEF Expunged
    <2>3. \A x \in box[Trash].held : x.msg \in doomed \/ \E e \in box'[Trash].held : e.msg = x.msg
          BY <2>2 DEF Harmless
    <2>4. \A f \in Folders : \A x \in box[f].held : f # Trash /\ InTrash(x.msg) =>
             x.msg \in doomed \/ InTrash(x.msg)'
          BY <2>3 DEF InTrash
    <2>5. ASSUME NEW f \in Folders, NEW x \in box[f].held
          PROVE  x.msg \in doomed' \/ \E g \in Folders : \E e \in box'[g].held : e.msg = x.msg
      <3>1. CASE x \in box'[f].held
            BY <3>1
      <3>2. CASE x \notin box'[f].held
        <4>1. x.msg \in doomed \/ (f # Trash /\ InTrash(x.msg))
              BY <2>2, <3>2 DEF Harmless
        <4>. QED  BY <1>1, <4>1, <2>4 DEF InTrash
      <3>. QED  BY <3>1, <3>2
    <2>6. \A f \in Folders : box'[f].held \subseteq box[f].held
          BY <2>1
    <2>. QED  BY <1>1, <2>3, <2>5, <2>6, HarmlessStays
  <1>4. CASE box' = Cleaned
    <2>1. box' = [box EXCEPT ![op.f].held = Marked("no")]
          BY <1>4 DEF Cleaned
    <2>2. /\ \A f \in Folders : f # op.f => box'[f] = box[f]
          /\ \A x \in box[op.f].held : \E e \in box'[op.f].held : e.msg = x.msg
          /\ \A e \in box'[op.f].held : e \in box[op.f].held \/ e.del = "no"
          BY <2>1, MarkedDoes
    <2>4. \A f \in Folders : \A x \in box[f].held : \E e \in box'[f].held : e.msg = x.msg
          BY <2>2
    <2>5. \A f \in Folders : \A e \in box'[f].held : e.del # "no" => e \in box[f].held
          BY <2>2
    <2>. QED  BY <1>1, <2>4, <2>5, HarmlessStays
  <1>. QED  BY <1>1, <1>2, <1>3, <1>4

(* The other client expunges only what is marked, and means to delete what  *)
(* it marks; a folder recreated holds all it held.                          *)
LEMMA OthersHarmless ==
    ASSUME TypeOK, Trash \in Folders, Placed, Harmless, NEW f \in Folders, Others(f)
    PROVE  Harmless'
  <1>1. /\ op' = op /\ doomed \subseteq doomed' /\ op.f \in Folders
        /\ \A g \in Folders : g # f => box'[g] = box[g]
        BY OthersDo DEF Others, TypeOK, Ops
  <1>2. ASSUME NEW x \in box[f].held
        PROVE  x.del # "no" \/ \E e \in box'[f].held : e.msg = x.msg
        BY OthersDo DEF Others
  <1>3. ASSUME NEW e \in box'[f].held, e.del # "no"
        PROVE  e.msg \in doomed' \/ \E x \in box[f].held : x.msg = e.msg /\ x.del # "no"
    <2>1. box'[f].val = box[f].val
          BY <1>3, OthersDo DEF Others
    <2>2. \E x \in box[f].held : e.msg = x.msg /\ e.uid = x.uid
             /\ (e.del = x.del \/ (x.del = "no" /\ e.del = "other" /\ e.msg \in doomed'))
          BY <2>1, OthersDo DEF Others
    <2>. QED  BY <1>3, <2>2
  <1>4. \A x \in box[Trash].held : x.msg \in doomed' \/ \E e \in box'[Trash].held : e.msg = x.msg
        BY <1>1, <1>2 DEF Harmless
  <1>5. \A m : InTrash(m) => m \in doomed' \/ InTrash(m)'
        BY <1>4 DEF InTrash
  <1>6. ASSUME NEW g \in Folders, NEW x \in box[g].held
        PROVE  x.msg \in doomed' \/ \E h \in Folders : \E e \in box'[h].held : e.msg = x.msg
    <2>1. CASE \E e \in box'[g].held : e.msg = x.msg
          BY <2>1
    <2>2. CASE ~\E e \in box'[g].held : e.msg = x.msg
      <3>1. x.del # "no"
            BY <1>1, <1>2, <2>2
      <3>2. x.msg \in doomed' \/ InTrash(x.msg)'
            BY <3>1, <1>1, <1>5 DEF Harmless
      <3>. QED  BY <3>2 DEF InTrash
    <2>. QED  BY <2>1, <2>2
  <1>7. ASSUME NEW g \in Folders, NEW e \in box'[g].held, e.del # "no"
        PROVE  e.msg \in doomed' \/ \E x \in box[g].held : x.msg = e.msg /\ x.del # "no"
        BY <1>1, <1>3, <1>7
  <1>8. ASSUME op.at = "store", op.kind # "delete", NEW e \in Here'
        PROVE  e.msg \in doomed' \/ InTrash(e.msg)'
    <2>1. box'[op.f].val = box[op.f].val
          BY <1>1, <1>8, OthersDo DEF Others, Commands
    <2>2. \E x \in box[op.f].held : e.msg = x.msg /\ e.uid = x.uid
      <3>1. CASE op.f = f
            BY <2>1, <3>1, <1>1, <1>8, OthersDo DEF Others, Here
      <3>2. CASE op.f # f
            BY <3>2, <1>1, <1>8 DEF Here
      <3>. QED  BY <3>1, <3>2
    <2>3. \E x \in Here : e.msg = x.msg
          BY <1>1, <1>8, <2>2 DEF Here
    <2>. QED  BY <1>1, <1>5, <1>8, <2>3 DEF Harmless
  <1>. QED  BY <1>1, <1>4, <1>6, <1>7, <1>8, HarmlessStays

(* Every step keeps Harmless. *)
LEMMA NextHarmless ==
    ASSUME Trash \in Folders, TypeOK, Placed, Harmless, [Next]_vars PROVE Harmless'
  <1>1. CASE UNCHANGED vars
        BY <1>1 DEF Harmless, NothingLost, InTrash, Here, vars
  <1>2. CASE Asks
        BY <1>2, AskDoes, HarmlessRests DEF Asks
  <1>3. CASE Begin \/ Pick \/ NoMove \/ End
        BY <1>3, BeginDoes, PickDoes, NoMoveDoes, EndDoes, HarmlessRests DEF Onward, GivesUp
  <1>4. ASSUME NEW f \in Folders, Discover(f) PROVE Harmless'
        BY <1>4, DiscoverDoes, HarmlessRests DEF GivesUp
  <1>5. CASE Select
    <2>1. op'.at = "store" => op'.kind = "delete"
          BY <1>5, SelectDoes DEF Onward, GivesUp
    <2>2. UNCHANGED <<box, doomed>>
          BY <1>5, SelectDoes
    <2>. QED  BY <2>1, <2>2 DEF Harmless, NothingLost, InTrash
  <1>6. CASE Commit
    <2>1. op.val # 0
          BY <1>6 DEF Placed, Commit
    <2>. QED  BY <1>6, <2>1, CommitDoes, HarmlessRests
  <1>7. ASSUME NEW f \in Folders, Sync(f) PROVE Harmless'
    <2>1. UNCHANGED <<box, doomed, op>>
          BY <1>7, SyncDoes
    <2>. QED  BY <2>1 DEF Harmless, NothingLost, InTrash, Here
  <1>8. ASSUME NEW f \in Folders, Others(f) PROVE Harmless'
        BY <1>8, OthersHarmless
  <1>. QED  BY <1>1, <1>2, <1>3, <1>4, <1>5, <1>6, <1>7, <1>8,
               MoveHarmless, StoreHarmless, ExpungeHarmless DEF Next, Asks, Others

-----------------------------------------------------------------------------
(* What a UID names *)

(* While a folder keeps its UIDVALIDITY, no UID comes to name a message that *)
(* it did not.                                                               *)
Shrinks(f) ==
    /\ box[f].val <= box'[f].val
    /\ box'[f].val # box[f].val =>
          OneEach(f)' /\ op' = op /\ (op.f # f \/ op.at \notin Commands)
    /\ box'[f].val = box[f].val =>
          \A e \in box'[f].held : \E x \in box[f].held : e.msg = x.msg /\ e.uid = x.uid

(* Messages only arrive in Trash, by a move or a copy. *)
LEMMA NextShrinks ==
    ASSUME Trash \in Folders, TypeOK, Placed, [Next]_vars, NEW f \in Folders,
           f # Trash \/ op.at \notin {"move", "copy"}
    PROVE  Shrinks(f)
  <1>0. box[f].val \in Nat /\ op.f \in Folders
        BY DEF TypeOK, Ops
  <1>1. CASE UNCHANGED box
        BY <1>0, <1>1 DEF Shrinks
  <1>2. CASE Move \/ Copy
    <2>1. box' \in {box, Moved, Copied} /\ f # Trash
          BY <1>2, MoveDoes, CopyDoes
    <2>2. box'[f].val = box[f].val /\ box'[f].held \subseteq box[f].held
          BY <2>1, BoxTypes
    <2>. QED  BY <1>0, <2>2 DEF Shrinks
  <1>3. ASSUME NEW d \in {"no", "us"}, box' = [box EXCEPT ![op.f].held = Marked(d)]
        PROVE  Shrinks(f)
    <2>1. /\ \A g \in Folders : g # op.f => box'[g] = box[g]
          /\ \A e \in box'[op.f].held :
                \/ e \in box[op.f].held
                \/ \E x \in Here : e.msg = x.msg /\ e.uid = x.uid
          BY <1>3, MarkedDoes
    <2>2. box'[f].val = box[f].val
          BY <1>0, <1>3 DEF TypeOK
    <2>3. Here \subseteq box[op.f].held
          BY DEF Here
    <2>. QED  BY <1>0, <2>1, <2>2, <2>3 DEF Shrinks
  <1>4. CASE Store \/ Unmark
        BY <1>1, <1>3, <1>4, StoreDoes, UnmarkDoes DEF MarkedUs, Cleaned
  <1>5. CASE Expunge
    <2>1. box' \in {box, Cleared}
          BY <1>5, ExpungeDoes
    <2>2. CASE box' = Cleared
      <3>1. box'[f].val = box[f].val /\ box'[f].held \subseteq box[f].held
            BY <2>2, <1>0 DEF Cleared, TypeOK
      <3>. QED  BY <1>0, <3>1 DEF Shrinks
    <2>. QED  BY <1>1, <2>1, <2>2
  <1>6. ASSUME NEW g \in Folders, Others(g) PROVE Shrinks(f)
    <2>1. CASE f = g
          BY <1>0, <1>6, <2>1, OthersDo DEF Others, Shrinks
    <2>2. CASE f # g
          BY <1>0, <1>6, <2>2, OthersDo DEF Others, Shrinks
    <2>. QED  BY <2>1, <2>2
  <1>7. ASSUME NEW g \in Folders, Sync(g) \/ Discover(g) PROVE Shrinks(f)
        BY <1>1, <1>7, SyncDoes, DiscoverDoes
  <1>8. CASE Asks \/ Begin \/ Pick \/ Select \/ NoMove \/ End
        BY <1>1, <1>8, AskDoes, BeginDoes, PickDoes, SelectDoes, NoMoveDoes, EndDoes DEF Asks
  <1>9. CASE Commit
        BY <1>1, <1>9 DEF Commit
  <1>10. CASE UNCHANGED vars
        BY <1>1, <1>10 DEF vars
  <1>. QED  BY <1>2, <1>4, <1>5, <1>6, <1>7, <1>8, <1>9, <1>10 DEF Next, Asks, Others

(* What a clean-up has found stays what it was. *)
LEMMA TheirsStays ==
    ASSUME TypeOK, NEW f \in Folders, Shrinks(f), op'.msg = op.msg,
           box'[f].val \in Nat, NEW uid, NEW val, Theirs(f, uid, val)
    PROVE  Theirs(f, uid, val)'
  <1>1. box[f].val \in Nat
        BY DEF TypeOK
  <1>. QED  BY <1>1 DEF Theirs, Shrinks

(* What has left its folder stays away. *)
LEMMA OffStays ==
    ASSUME TypeOK, NEW f \in Folders, Shrinks(f),
           box'[f].val \in Nat, NEW uid, NEW val \in Nat, OffServer(f, uid, val)
    PROVE  OffServer(f, uid, val)'
  <1>1. box[f].val \in Nat
        BY DEF TypeOK
  <1>. QED  BY <1>1 DEF OffServer, Shrinks

(* Every step keeps Numbered. *)
LEMMA NextNumbered ==
    ASSUME Trash \in Folders, TypeOK, Placed, Numbered, [Next]_vars PROVE Numbered'
  <1>1. SUFFICES ASSUME NEW f \in Folders \ {Trash} PROVE OneEach(f)'
        BY DEF Numbered
  <1>2. Shrinks(f) /\ OneEach(f)
        BY NextShrinks DEF Numbered
  <1>. QED  BY <1>2 DEF Shrinks, OneEach

(* The commands of a clean-up touch mail of its sender. *)
LEMMA NextAimed ==
    ASSUME Trash \in Folders, TypeOK, TypeOK', Placed, Numbered, Aimed, [Next]_vars
    PROVE  Aimed'
  <1>1. /\ \A f \in Folders : box'[f].val \in Nat /\ box[f].val \in Nat \ {0}
        /\ op.todo \subseteq Locators /\ op.f \in Folders
        BY DEF TypeOK, Ops
  <1>2. \A f \in Folders \ {Trash} : Shrinks(f)
        BY NextShrinks
  <1>3. ASSUME op.kind = "cleanup", op'.msg = op.msg, NEW c \in op.todo
        PROVE  Theirs(c.f, c.uid, c.val)'
    <2>1. c.f \in Folders \ {Trash} /\ Theirs(c.f, c.uid, c.val)
          BY <1>1, <1>3 DEF Locators, Placed, Aimed
    <2>. QED  BY <1>1, <1>2, <1>3, <2>1, TheirsStays
  <1>4. ASSUME op.kind = "cleanup", op'.msg = op.msg, op'.f = op.f, op'.uid = op.uid,
               op.at \in Commands
        PROVE  \A e \in Here' : e.msg \in op'.msg
    <2>1. Shrinks(op.f)
          BY <1>1, <1>2, <1>4 DEF Placed, Works
    <2>. QED  BY <1>4, <2>1 DEF Here, Shrinks, Aimed
  <1>5. ASSUME op.kind = "cleanup", op.at \in Commands PROVE Hit \subseteq op.msg
        BY <1>5 DEF Hit, Aimed
  <1>6. ASSUME op' = op PROVE Aimed'
    <2>1. op.kind = "cleanup" /\ op.at = "select" => Theirs(op.f, op.uid, op.want)'
      <3>1. SUFFICES ASSUME op.kind = "cleanup", op.at = "select"
                     PROVE  Theirs(op.f, op.uid, op.want)'
            OBVIOUS
      <3>2. op.f \in Folders \ {Trash} /\ Theirs(op.f, op.uid, op.want)
            BY <1>1, <3>1 DEF Placed, Works, Aimed
      <3>. QED  BY <1>1, <1>2, <1>6, <3>2, TheirsStays
    <2>. QED  BY <1>3, <1>4, <1>6, <2>1 DEF Aimed
  <1>7. CASE Asks \/ End
    <2>1. \/ op'.kind = "none"
          \/ op'.at = "asked" /\ op'.hit = {} /\ op'.todo = {}
          BY <1>7, AskDoes, EndDoes DEF Asks
    <2>. QED  BY <2>1 DEF Aimed, Commands
  <1>8. CASE Begin
        BY <1>3, <1>8, BeginDoes DEF Aimed, Commands, Same
  <1>9. ASSUME NEW f \in Folders, Discover(f) PROVE Aimed'
    <2>1. f # Trash /\ op.kind = "cleanup"
          BY <1>9, DiscoverDoes DEF Placed
    <2>2. ASSUME NEW c \in Found(f) PROVE Theirs(c.f, c.uid, c.val)'
      <3>1. PICK e \in box[f].held :
               e.msg \in op.msg /\ c = [f |-> f, uid |-> e.uid, val |-> box[f].val]
            BY DEF Found
      <3>2. OneEach(f)
            BY <2>1 DEF Numbered
      <3>3. Theirs(c.f, c.uid, c.val)
            BY <1>1, <3>1, <3>2 DEF Theirs, OneEach
      <3>4. op'.msg = op.msg /\ c.f = f
            BY <1>9, <3>1, DiscoverDoes
      <3>. QED  BY <1>1, <1>2, <2>1, <3>3, <3>4, TheirsStays
    <2>3. /\ op'.at \notin Commands \cup {"select"} /\ op'.hit = op.hit
          /\ op'.msg = op.msg /\ op'.todo \subseteq op.todo \cup Found(f)
          BY <1>9, DiscoverDoes DEF GivesUp, Commands, Same
    <2>. QED  BY <1>3, <2>1, <2>2, <2>3 DEF Aimed
  <1>10. CASE Pick
    <2>1. /\ op.kind = "cleanup" /\ op'.msg = op.msg /\ op'.hit = op.hit
          /\ op'.todo \subseteq op.todo /\ op'.at \in {"done", "select"}
          /\ op'.at = "select" =>
                \E c \in op.todo : op'.f = c.f /\ op'.uid = c.uid /\ op'.want = c.val
          BY <1>10, PickDoes DEF Same
    <2>2. op'.at = "select" => Theirs(op.f, op.uid, op.want)'
      <3>1. SUFFICES ASSUME op'.at = "select" PROVE Theirs(op.f, op.uid, op.want)'
            OBVIOUS
      <3>2. PICK c \in op.todo : op'.f = c.f /\ op'.uid = c.uid /\ op'.want = c.val
            BY <2>1, <3>1
      <3>3. Theirs(c.f, c.uid, c.val)'
            BY <1>3, <2>1
      <3>. QED  BY <3>2, <3>3 DEF Theirs
    <2>. QED  BY <1>3, <2>1, <2>2 DEF Aimed, Commands
  <1>11. CASE Select
    <2>1. /\ op.at = "select" /\ op'.hit = op.hit /\ UNCHANGED box /\ op'.at # "select"
          /\ op'.kind = op.kind /\ op'.msg = op.msg /\ op'.f = op.f /\ op'.uid = op.uid
          /\ op'.todo \subseteq op.todo
          /\ op'.at \in Commands => SameIdentity
          BY <1>11, SelectDoes DEF Onward, GivesUp, Commands
    <2>2. ASSUME op.kind = "cleanup", SameIdentity PROVE \A e \in Here' : e.msg \in op'.msg
      <3>1. Theirs(op.f, op.uid, op.want)
            BY <2>1, <2>2 DEF Aimed
      <3>2. op.want = box[op.f].val
            BY <1>1, <2>2, <3>1 DEF SameIdentity, Theirs
      <3>. QED  BY <2>1, <3>1, <3>2 DEF Theirs, Here
    <2>. QED  BY <1>3, <2>1, <2>2 DEF Aimed
  <1>12. CASE Move \/ NoMove \/ Copy \/ Store \/ Expunge \/ Unmark
    <2>1. /\ op.at \in Commands /\ op'.at # "select" /\ op'.hit \in {op.hit, Hit}
          /\ op'.kind = op.kind /\ op'.msg = op.msg /\ op'.f = op.f /\ op'.uid = op.uid
          /\ op'.todo \subseteq op.todo
          BY <1>12, MoveDoes, NoMoveDoes, CopyDoes, StoreDoes, ExpungeDoes, UnmarkDoes
             DEF Onward, GivesUp, Commands, Same
    <2>. QED  BY <1>3, <1>4, <1>5, <2>1 DEF Aimed
  <1>13. CASE Commit
    <2>1. op.val # 0
          BY <1>13 DEF Placed, Commit
    <2>2. /\ op'.kind = op.kind /\ op'.msg = op.msg /\ op'.hit = op.hit
          /\ op'.todo = op.todo /\ op'.at \in {"pick", "done"}
          BY <1>13, <2>1, CommitDoes DEF Same
    <2>. QED  BY <1>3, <2>2 DEF Aimed, Commands
  <1>14. ASSUME NEW f \in Folders, Sync(f) \/ Others(f) PROVE Aimed'
        BY <1>6, <1>14, SyncDoes, OthersDo DEF Others
  <1>15. CASE UNCHANGED vars
        BY <1>6, <1>15 DEF vars
  <1>. QED  BY <1>7, <1>8, <1>9, <1>10, <1>11, <1>12, <1>13, <1>14, <1>15
            DEF Next, Asks, Others

-----------------------------------------------------------------------------
(* What has been moved or deleted *)

(* A marked message stays marked until the operation expunges it.           *)
LEMMA NextMarked ==
    ASSUME Trash \in Folders, TypeOK, Placed, Accounted, [Next]_vars, op'.at = "expunge",
           NEW e \in Here'
    PROVE  e.del # "no"
  <1>1. op.f \in Folders
        BY DEF TypeOK, Ops
  <1>2. CASE op' = op /\ UNCHANGED box
        BY <1>2 DEF Accounted, Here
  <1>3. CASE Store
    <2>1. /\ box' = MarkedUs /\ op'.f = op.f /\ op'.uid = op.uid
          BY <1>3, StoreDoes DEF Onward
    <2>2. \A x \in box'[op.f].held : x.uid # op.uid \/ x.del = "us"
          BY <2>1, MarkedDoes DEF MarkedUs
    <2>. QED  BY <2>1, <2>2 DEF Here
  <1>4. ASSUME NEW f \in Folders, Others(f) PROVE e.del # "no"
    <2>1. /\ op' = op /\ \A g \in Folders : g # f => box'[g] = box[g]
          /\ op.f = f => box'[f].val = box[f].val
          BY <1>4, OthersDo DEF Others, Commands
    <2>2. CASE op.f # f
          BY <1>1, <2>1, <2>2 DEF Here, Accounted
    <2>3. CASE op.f = f
      <3>1. PICK x \in box[f].held :
               e.uid = x.uid /\ (e.del = x.del \/ e.del = "other")
            BY <1>4, <2>1, <2>3, OthersDo DEF Others, Here
      <3>2. x \in Here
            BY <2>1, <2>3, <3>1 DEF Here
      <3>. QED  BY <2>1, <3>1, <3>2 DEF Accounted
    <2>. QED  BY <2>2, <2>3
  <1>5. ASSUME NEW f \in Folders, Sync(f) PROVE e.del # "no"
        BY <1>2, <1>5, SyncDoes
  <1>6. CASE Asks \/ Begin \/ Pick \/ Select \/ NoMove \/ End
    <2>1. op'.at # "expunge"
          BY <1>6, AskDoes, BeginDoes, PickDoes, SelectDoes, NoMoveDoes, EndDoes
             DEF Asks, Onward, GivesUp
    <2>. QED  BY <2>1
  <1>7. CASE Move \/ Copy \/ Expunge \/ Unmark
    <2>1. op'.at # "expunge"
          BY <1>7, MoveDoes, CopyDoes, ExpungeDoes, UnmarkDoes DEF Onward, GivesUp
    <2>. QED  BY <2>1
  <1>8. CASE Commit
    <2>1. op.val # 0
          BY <1>8 DEF Placed, Commit
    <2>. QED  BY <1>8, <2>1, CommitDoes
  <1>9. ASSUME NEW f \in Folders, Discover(f) PROVE e.del # "no"
        BY <1>9, DiscoverDoes DEF GivesUp
  <1>10. CASE UNCHANGED vars
        BY <1>2, <1>10 DEF vars
  <1>. QED  BY <1>3, <1>4, <1>5, <1>6, <1>7, <1>8, <1>9, <1>10 DEF Next, Asks, Others

(* What the transaction is about has left the folder on the server: it was  *)
(* moved, or was marked before the expunge.                                 *)
LEMMA NextOff ==
    ASSUME Trash \in Folders, TypeOK, TypeOK', Placed, Accounted, [Next]_vars,
           op'.at = "commit"
    PROVE  OffServer(op.f, op.uid, op.val)'
  <1>1. /\ op.f \in Folders /\ op.val \in Nat /\ op.uid \in Nat
        /\ box[op.f].val \in Nat /\ box'[op.f].val \in Nat
        BY DEF TypeOK, Ops
  <1>2. CASE op' = op
    <2>1. Shrinks(op.f) /\ OffServer(op.f, op.uid, op.val)
          BY <1>1, <1>2, NextShrinks DEF Accounted
    <2>2. OffServer(op.f, op.uid, op.val)' <=>
             /\ op.val <= box'[op.f].val
             /\ box'[op.f].val = op.val => \A e \in box'[op.f].held : e.uid # op.uid
          BY <1>2 DEF OffServer
    <2>. QED  BY <1>1, <2>1, <2>2 DEF OffServer, Shrinks
  <1>3. CASE Move \/ Expunge
    <2>1. /\ op'.f = op.f /\ op'.uid = op.uid /\ op'.val = op.val
          /\ op.at \in {"move", "expunge"} /\ op.val = box[op.f].val
          BY <1>3, MoveDoes, ExpungeDoes DEF Onward, Placed, Commands, Same
    <2>2. CASE Move
      <3>1. op.f # Trash /\ box' = Moved
            BY <2>2, <1>1, MoveDoes DEF Placed, Works, Commands, Kinds, TypeOK, Ops
      <3>2. box'[op.f] = [box[op.f] EXCEPT !.held = @ \ Here]
            BY <1>1, <3>1 DEF Moved, TypeOK
      <3>. QED  BY <1>1, <2>1, <3>2 DEF OffServer, Here, TypeOK
    <2>3. CASE Expunge
      <3>1. op.at = "expunge" /\ box' = Cleared
            BY <2>3, ExpungeDoes
      <3>2. box'[op.f] = [box[op.f] EXCEPT !.held = @ \ Expunged]
            BY <1>1, <3>1 DEF Cleared, TypeOK
      <3>3. \A e \in box[op.f].held \ Expunged : e.uid # op.uid
            BY <3>1 DEF Expunged, Accounted, Here
      <3>. QED  BY <1>1, <2>1, <3>2, <3>3 DEF OffServer, TypeOK
    <2>. QED  BY <1>3, <2>2, <2>3
  <1>4. CASE Asks \/ Begin \/ Pick \/ Select \/ NoMove \/ End
    <2>1. op'.at # "commit"
          BY <1>4, AskDoes, BeginDoes, PickDoes, SelectDoes, NoMoveDoes, EndDoes
             DEF Asks, Onward, GivesUp
    <2>. QED  BY <2>1
  <1>5. CASE Copy \/ Store \/ Unmark
    <2>1. op'.at # "commit"
          BY <1>5, CopyDoes, StoreDoes, UnmarkDoes DEF Onward, GivesUp
    <2>. QED  BY <2>1
  <1>6. CASE Commit
    <2>1. op.val # 0
          BY <1>6 DEF Placed, Commit
    <2>. QED  BY <1>6, <2>1, CommitDoes
  <1>7. ASSUME NEW f \in Folders, Discover(f) PROVE FALSE
        BY <1>7, DiscoverDoes DEF GivesUp
  <1>8. ASSUME NEW f \in Folders, Sync(f) \/ Others(f) PROVE op' = op
        BY <1>8, SyncDoes, OthersDo DEF Others
  <1>9. CASE UNCHANGED vars
        BY <1>2, <1>9 DEF vars
  <1>. QED  BY <1>2, <1>3, <1>4, <1>5, <1>6, <1>7, <1>8, <1>9 DEF Next, Asks, Others

(* What was moved is out of its folder and of its catalogue. *)
Out(c) == /\ OffServer(c.f, c.uid, c.val)
          /\ cat[c.f].val = c.val => \A r \in cat[c.f].rows : r.uid # c.uid

(* It stays out: the catalogue reads the folder as it is, and a message in  *)
(* Trash is not reported as moved.                                          *)
LEMMA OutStays ==
    ASSUME Trash \in Folders, TypeOK, TypeOK', Placed, Accounted, [Next]_vars,
           NEW c \in op.moved
    PROVE  Out(c)'
  <1>1. /\ c.f \in Folders /\ c.uid \in Nat /\ c.val \in Nat
        /\ box'[c.f].val \in Nat /\ Out(c)
        BY DEF TypeOK, Ops, Locators, Accounted, Out
  <1>2. OffServer(c.f, c.uid, c.val)'
    <2>1. c.f # Trash \/ op.at \notin {"move", "copy"}
          BY DEF Accounted
    <2>2. Shrinks(c.f)
          BY <1>1, <2>1, NextShrinks
    <2>. QED  BY <1>1, <2>2, OffStays DEF Out
  <1>3. CASE UNCHANGED cat
        BY <1>1, <1>2, <1>3 DEF Out
  <1>4. ASSUME NEW f \in Folders, Sync(f) PROVE Out(c)'
    <2>1. CASE f # c.f
          BY <1>1, <1>2, <1>4, <2>1, SyncDoes DEF Out
    <2>2. CASE f = c.f
      <3>1. /\ cat'[c.f].val = box[c.f].val
            /\ \A r \in cat'[c.f].rows : \E e \in box[c.f].held : e.uid = r.uid
            BY <1>4, <2>2, SyncDoes
      <3>. QED  BY <1>1, <1>2, <3>1 DEF Out, OffServer
    <2>. QED  BY <2>1, <2>2
  <1>5. CASE Commit
    <2>1. op.at = "commit" /\ op.val # 0
          BY <1>5 DEF Placed, Commit
    <2>2. c.f # Trash
          BY <2>1 DEF Accounted
    <2>3. cat'[c.f].val = cat[c.f].val /\ \A r \in cat'[c.f].rows : r \in cat[c.f].rows
          BY <1>1, <1>5, <2>1, <2>2, CommitDoes
    <2>. QED  BY <1>1, <1>2, <2>3 DEF Out
  <1>6. CASE Asks \/ Begin \/ Pick \/ Select \/ NoMove \/ End
        BY <1>3, <1>6, AskDoes, BeginDoes, PickDoes, SelectDoes, NoMoveDoes, EndDoes DEF Asks
  <1>7. CASE Move \/ Copy \/ Store \/ Expunge \/ Unmark
        BY <1>3, <1>7, MoveDoes, CopyDoes, StoreDoes, ExpungeDoes, UnmarkDoes
  <1>8. ASSUME NEW f \in Folders, Discover(f) \/ Others(f) PROVE UNCHANGED cat
        BY <1>8, DiscoverDoes, OthersDo DEF Others
  <1>9. CASE UNCHANGED vars
        BY <1>3, <1>9 DEF vars
  <1>. QED  BY <1>3, <1>4, <1>5, <1>6, <1>7, <1>8, <1>9 DEF Next, Asks, Others

(* Every step keeps Accounted. *)
LEMMA NextAccounted ==
    ASSUME Trash \in Folders, TypeOK, TypeOK', Placed, Accounted, [Next]_vars PROVE Accounted'
  <1>1. \A c \in op.moved : Out(c)'
        BY OutStays
  <1>2. SUFFICES ASSUME NEW c \in op'.moved
                 PROVE  /\ Out(c)'
                        /\ op'.kind # "delete" => c.f # Trash
                        /\ op'.kind = "delete" => op'.at \in {"done", "failed"}
        BY NextMarked, NextOff DEF Accounted, Out
  <1>3. CASE op'.moved = op.moved /\ op'.kind = op.kind
             /\ (op'.at = op.at \/ op.at \notin {"done", "failed"})
        BY <1>1, <1>3 DEF Accounted
  <1>4. CASE Asks \/ End
        BY <1>4, AskDoes, EndDoes DEF Asks
  <1>5. CASE Begin \/ Pick \/ Select \/ NoMove
        BY <1>3, <1>5, BeginDoes, PickDoes, SelectDoes, NoMoveDoes DEF Onward, Pick, Asking
  <1>6. CASE Move \/ Copy \/ Store \/ Expunge \/ Unmark
        BY <1>3, <1>6, MoveDoes, CopyDoes, StoreDoes, ExpungeDoes, UnmarkDoes DEF Onward
  <1>7. ASSUME NEW f \in Folders, Discover(f)
        PROVE  op'.moved = op.moved /\ op'.kind = op.kind /\ op.at \notin {"done", "failed"}
        BY <1>7, DiscoverDoes DEF Discover, Asking
  <1>8. ASSUME NEW f \in Folders, Sync(f) \/ Others(f) PROVE op' = op
        BY <1>8, SyncDoes, OthersDo DEF Others
  <1>9. CASE Commit
    <2>1. /\ op.at = "commit" /\ op.val # 0 /\ op.f \in Folders
          BY <1>9 DEF Placed, Commit, TypeOK, Ops
    <2>2. op.kind = "delete" \/ op.f # Trash
          BY <2>1 DEF Placed, Works, Kinds, TypeOK, Ops
    <2>3. /\ op'.kind = op.kind /\ (op.kind = "delete" => op'.at = "done")
          /\ op'.moved = op.moved \cup {[uid |-> op.uid, f |-> op.f, val |-> op.val]}
          /\ \A r \in cat'[op.f].rows : r.uid # op.uid
          /\ UNCHANGED box
          BY <1>9, <2>1, <2>2, CommitDoes
    <2>4. CASE c \in op.moved
          BY <1>1, <2>1, <2>3, <2>4 DEF Accounted
    <2>5. CASE c = [uid |-> op.uid, f |-> op.f, val |-> op.val]
      <3>1. OffServer(op.f, op.uid, op.val)
            BY <2>1 DEF Accounted
      <3>2. Out(c)'
            BY <2>3, <2>5, <3>1 DEF Out, OffServer
      <3>. QED  BY <2>2, <2>3, <2>5, <3>2
    <2>. QED  BY <2>3, <2>4, <2>5
  <1>10. CASE UNCHANGED vars
        BY <1>3, <1>10 DEF vars
  <1>. QED  BY <1>3, <1>4, <1>5, <1>6, <1>7, <1>8, <1>9, <1>10 DEF Next, Asks, Others

-----------------------------------------------------------------------------
(* The theorems *)

(* Everything a step relies on. *)
Sound == TypeOK /\ Placed /\ Numbered /\ Harmless /\ Aimed /\ Accounted

(* At first every message is in some folder, none is marked, and nobody is   *)
(* at work.                                                                  *)
LEMMA InitSound ==
    ASSUME MailActionsAssumption, Init PROVE Sound
  <1>. DEFINE H(f) == Holding(1, CHOOSE n \in Numberings(Start[f]) : TRUE)
  <1>1. /\ IsFiniteSet(Msgs) /\ Trash \in Folders /\ Start \in [Folders -> SUBSET Msgs]
        /\ \A m \in Msgs : \E f \in Folders : m \in Start[f]
        BY DEF MailActionsAssumption
  <1>2. ASSUME NEW f \in Folders
        PROVE  /\ H(f) \in [val : Nat \ {0}, next : Nat, held : SUBSET Entries]
               /\ IsFiniteSet(H(f).held) /\ H(f).val = 1
               /\ \A m \in Start[f] : \E e \in H(f).held : e.msg = m
               /\ \A e \in H(f).held : e.del = "no"
               /\ \A e, x \in H(f).held : e.uid = x.uid => e.msg = x.msg
    <2>1. Start[f] \in SUBSET Msgs /\ IsFiniteSet(Start[f])
          BY <1>1, <1>2, FS_Subset
    <2>. DEFINE n == CHOOSE k \in Numberings(Start[f]) : TRUE
    <2>2. n \in Numberings(Start[f])
          BY <2>1, Numberable
    <2>3. H(f) = Holding(1, n)
          OBVIOUS
    <2>. HIDE DEF n, H
    <2>4. 1 \in Nat \ {0}
          OBVIOUS
    <2>5. /\ Holding(1, n) \in [val : Nat \ {0}, next : Nat, held : SUBSET Entries]
          /\ IsFiniteSet(Holding(1, n).held) /\ Holding(1, n).val = 1
          /\ \A m \in Start[f] : \E e \in Holding(1, n).held : e.msg = m
          /\ \A e \in Holding(1, n).held : e.msg \in Start[f] /\ e.del = "no"
          /\ \A e, x \in Holding(1, n).held : e.uid = x.uid => e.msg = x.msg
          BY <2>1, <2>2, <2>4, HoldingAll
    <2>. QED  BY <2>3, <2>5
  <1>3. /\ box = [f \in Folders |-> H(f)] /\ op = Idle /\ tombs = {} /\ doomed = {}
        /\ cat = [f \in Folders |-> [val |-> 1, rows |-> Rows(box[f].held)]]
        /\ used = [ops |-> 0, faults |-> 0, others |-> 0]
        BY DEF Init
  <1>. HIDE DEF H
  <1>4. Idle \in Ops /\ Idle.at = "idle" /\ Idle.kind = "none" /\ Idle.moved = {}
        BY <1>1 DEF Idle, Ops, Kinds, Places, Works
  <1>5. TypeOK
    <2>1. \A f \in Folders : Rows(box[f].held) \in SUBSET [uid : Nat, msg : Msgs]
          BY <1>2, <1>3 DEF Rows, Entries
    <2>. QED  BY <1>2, <1>3, <1>4, <2>1 DEF TypeOK
  <1>6. Placed /\ Aimed /\ Accounted
        BY <1>3, <1>4 DEF Placed, Aimed, Accounted, Works, Commands
  <1>7. Numbered
        BY <1>2, <1>3 DEF Numbered, OneEach
  <1>8. Harmless
        BY <1>1, <1>2, <1>3, <1>4 DEF Harmless, NothingLost, InTrash
  <1>. QED  BY <1>5, <1>6, <1>7, <1>8 DEF Sound

(* Every step keeps them. *)
LEMMA NextSound ==
    ASSUME MailActionsAssumption, Sound, [Next]_vars PROVE Sound'
  <1>1. Trash \in Folders
        BY DEF MailActionsAssumption
  <1>. QED  BY <1>1, NextType, NextPlaced, NextNumbered, NextHarmless, NextAimed,
               NextAccounted DEF Sound

(* In every reachable state the operation, the folders and the catalogue    *)
(* are as each part of the invariant says (apply_action_with_client,        *)
(* trash_messages_from_sender_with_client).                                 *)
THEOREM ActionsSound ==
    ASSUME MailActionsAssumption PROVE Spec => []Sound
  <1>1. Init => Sound
        BY InitSound
  <1>2. Sound /\ [Next]_vars => Sound'
        BY NextSound
  <1>. QED  BY <1>1, <1>2, PTL DEF Spec

(* Whatever is refused or lost, and wherever the connection breaks, a       *)
(* message nobody meant to delete stays in some folder: every mark follows  *)
(* a copy (apply_action_with_client, move_selected_message_to_trash).       *)
THEOREM MailNeverLost ==
    ASSUME MailActionsAssumption PROVE Spec => []NothingLost
  <1>1. Sound => NothingLost
        BY DEF Sound, Harmless
  <1>. QED  BY <1>1, ActionsSound, PTL

(* A clean-up moves and marks mail of its sender only, though mailboxes are *)
(* recreated between the discovery and the moves                            *)
(* (trash_messages_from_sender, verify_mailbox_uid_validity).               *)
THEOREM CleanupStaysAimed ==
    ASSUME MailActionsAssumption PROVE Spec => []CleanupHitsSender
  <1>1. Sound => CleanupHitsSender
        BY DEF Sound, Aimed, CleanupHitsSender
  <1>. QED  BY <1>1, ActionsSound, PTL

(* What an action reports as moved or deleted is neither on the server nor  *)
(* in the catalogue where it was, though the watcher reads the folder all   *)
(* along (apply_mailbox_action).                                           *)
THEOREM ReportedIsGone ==
    ASSUME MailActionsAssumption PROVE Spec => []DoneMeansGone
  <1>1. Sound => DoneMeansGone
        BY DEF Sound, Accounted, OffServer, DoneMeansGone
  <1>. QED  BY <1>1, ActionsSound, PTL
=============================================================================
