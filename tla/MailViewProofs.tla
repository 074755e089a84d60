---------------------------- MODULE MailViewProofs ----------------------------
(***************************************************************************)
(* What MailView guarantees, for any conversations, views, moves, changes  *)
(* of the read flag and failures, and answers in any order: at rest the    *)
(* list is the one of its view, and what is being acted on is hidden.  And *)
(* what Threads does, from which those conversations come.                 *)
(***************************************************************************)
EXTENDS MailView, Sequences, FiniteSetTheorems, WellFoundedInduction, TLAPS

-----------------------------------------------------------------------------
(* The invariant *)

Places  == Views \cup {Away}
Records == [view : Places, read : BOOLEAN]
RowSets == UNION {[S -> Records] : S \in SUBSET Threads}
Cursors == Threads \cup {0}

Loads  == [at : {"none", "asked", "answered", "searching", "found", "failed"}, view : Places,
           page : RowSets, next : Cursors, hits : RowSets]
Mores  == [at : {"idle", "asked", "answered"}, view : Places, fresh : BOOLEAN, from : Cursors,
           page : RowSets, next : Cursors]
MoveOf == [at : {"idle", "sent", "restoring"}, all : SUBSET Threads, left : SUBSET Threads,
           bad : SUBSET Threads, orig : RowSets, twice : SUBSET Threads]
JumpOf == [at : {"idle", "asked", "answered"}, view : Places, fresh : BOOLEAN, page : RowSets,
           next : Cursors]
MarkOf == [at : {"idle", "sent", "found", "answered"}, thread : Cursors, was : Records,
           ok : BOOLEAN, orig : RowSets]
Erases == [at : {"idle", "sent", "answered"}, thread : Cursors, from : Places, ok : BOOLEAN]
Sweeps == [at : {"idle", "sent", "answered"}, of : SUBSET Threads, view : Places, ok : BOOLEAN,
           orig : RowSets]

CatalogueOK == store \in [Threads -> Records] /\ view \in Views
ListOK  == /\ rows \in RowSets /\ cursor \in Cursors /\ loading \in BOOLEAN
           /\ load \in Loads /\ more \in Mores /\ back \in SUBSET Threads
           /\ jumps \in [Jumps -> JumpOf] /\ marked \in SUBSET Threads /\ astray \in BOOLEAN
MovesOK == /\ moves \in [Moves -> MoveOf] /\ moving \in SUBSET Threads
           /\ \A m \in Moves : moves[m].at = "idle" => moves[m] = NoMove
MarksOK == /\ marks \in [Marks -> MarkOf] /\ latest \in [Threads -> Marks \cup {Nobody}]
           /\ \A r \in Marks : marks[r].at # "idle" => marks[r].thread \in Threads
           /\ \A r \in Marks : marks[r].at \in {"sent", "found"} => ~marks[r].ok
Phases == {"here", "rebuilding", "leaving", "gone"}
OthersOK == /\ erase \in Erases /\ sweep \in Sweeps /\ notice \in BOOLEAN
            /\ accounts \in [Accounts -> Phases]
            /\ sweep.at = "idle" => sweep.of = {}
TypeOK  == CatalogueOK /\ ListOK /\ MovesOK /\ MarksOK /\ OthersOK

(* The list is about to be loaded again: a change has been announced, or an *)
(* action is in flight that loads it when it ends.                          *)
Busy == \/ notice
        \/ \E m \in Moves : moves[m].at # "idle"
        \/ sweep.at # "idle"
        \/ erase.at = "answered" /\ erase.ok
        \/ \E a \in Accounts : accounts[a] \in {"rebuilding", "leaving"}

(* In a view of what is unread a conversation misses its row while the      *)
(* change of its flag, the newest one, may still write the flag or fail and *)
(* put the row back.                                                        *)
Pending(r, t) ==
    /\ latest[t] = r /\ marks[r].thread = t /\ t \in DOMAIN marks[r].orig
    /\ ~marks[r].ok /\ marks[r].at # "idle"
    /\ marks[r].at = "found" => StillThere(marks[r].was, t)
Owed == IF view \in Unread THEN {t \in Threads : \E r \in Marks : Pending(r, t)} ELSE {}

(* Otherwise what is on screen, and what is about to be shown, is of its    *)
(* view.                                                                    *)
Here == Listed(view)
ShowsView ==
    /\ DOMAIN rows \subseteq Here \cup back \cup Excused
    /\ OnePage => Here \subseteq DOMAIN rows \cup Excused \cup Owed
PageIs(S) ==
    /\ S \subseteq Here \cup Excused
    /\ OnePage => Here \subseteq S \cup Excused
Right ==
    /\ load.at \in {"none", "searching", "found"} => astray \/ ShowsView
    /\ load.at \in {"answered", "searching", "found"} => PageIs(DOMAIN load.page)
    /\ load.at = "found" => DOMAIN load.hits \subseteq Here \cup Excused
    /\ more.at = "answered" /\ Welcome => DOMAIN more.page \subseteq Here \cup Excused
    /\ \A j \in Jumps : jumps[j].at = "answered" /\ jumps[j].fresh
                            => PageIs(DOMAIN jumps[j].page)

(* A load is for the view on screen, and so is an inbox that a notification *)
(* asked for, as long as no request has been numbered since; in a list of   *)
(* one page there is no further page to come.                               *)
Aimed == /\ load.at \notin {"none", "failed"} => load.view = view
         /\ \A j \in Jumps : jumps[j].fresh => jumps[j].view = view
Alone == OnePage => /\ cursor = 0 /\ load.next = 0 /\ more.at = "idle"
                    /\ \A j \in Jumps : jumps[j].next = 0

(* What is hidden belongs to an action in flight, and is hidden but for what *)
(* a failure put back; a move's conversations are hidden unless another one *)
(* took them as well.                                                       *)
Owned  == moving \subseteq InFlight
HidesAll == OnePage => astray \/ DOMAIN rows \cap Hidden \subseteq back
Claimed  == /\ \A m \in Moves : moves[m].all \subseteq moving \cup moves[m].twice
            /\ \A m, o \in Moves : m # o => moves[m].all \cap moves[o].all \subseteq moves[m].twice

IInv == /\ TypeOK
        /\ Busy \/ Right
        /\ Aimed /\ Alone
        /\ Owned /\ HidesAll /\ Claimed

-----------------------------------------------------------------------------
(* Rows and pages *)

LEMMA RowsAre ==
    ASSUME NEW r
    PROVE  r \in RowSets <=> DOMAIN r \subseteq Threads /\ r \in [DOMAIN r -> Records]
  BY DEF RowSets

LEMMA NoRowsAre == NoRows \in RowSets /\ DOMAIN NoRows = {}
  BY RowsAre DEF NoRows

LEMMA WithoutRows ==
    ASSUME NEW r \in RowSets, NEW S
    PROVE  Without(r, S) \in RowSets /\ DOMAIN Without(r, S) = DOMAIN r \ S
  BY RowsAre DEF Without

LEMMA OnlyRows ==
    ASSUME NEW r \in RowSets, NEW S
    PROVE  Only(r, S) \in RowSets /\ DOMAIN Only(r, S) = DOMAIN r \cap S
  BY RowsAre DEF Only

LEMMA MergedRows ==
    ASSUME NEW r \in RowSets, NEW q \in RowSets
    PROVE  Merged(r, q) \in RowSets /\ DOMAIN Merged(r, q) = DOMAIN r \cup DOMAIN q
  BY RowsAre DEF Merged

LEMMA StoredRows ==
    ASSUME CatalogueOK, NEW S \in SUBSET Threads
    PROVE  AsStored(S) \in RowSets /\ DOMAIN AsStored(S) = S
  BY RowsAre DEF AsStored, CatalogueOK

LEMMA UndoneRows ==
    ASSUME TypeOK, NEW r \in Marks, NEW t, marks[r].thread = t, marks[r].at # "idle"
    PROVE  /\ Undone(r, t) \in RowSets
           /\ DOMAIN rows \subseteq DOMAIN Undone(r, t)
           /\ DOMAIN Undone(r, t) \subseteq DOMAIN rows \cup {t}
           /\ t \in Threads
           /\ t \in DOMAIN marks[r].orig \ moving => t \in DOMAIN Undone(r, t)
  <1>. DEFINE orig  == marks[r].orig
              was == marks[r].was
              again == IF t \in moving THEN NoRows ELSE Only(orig, {t})
              all   == Merged(again, rows)
              new   == [s \in DOMAIN all |-> IF s = t THEN [all[s] EXCEPT !.read = was.read]
                                              ELSE all[s]]
  <1>1. orig \in RowSets /\ t \in Threads /\ rows \in RowSets /\ was \in Records
        BY DEF TypeOK, MarksOK, ListOK, MarkOf
  <1>2. /\ again \in RowSets /\ DOMAIN again \subseteq {t}
        /\ t \in DOMAIN orig \ moving => t \in DOMAIN again
    <2>1. NoRows \in RowSets /\ DOMAIN NoRows = {}
          BY NoRowsAre
    <2>2. Only(orig, {t}) \in RowSets /\ DOMAIN Only(orig, {t}) = DOMAIN orig \cap {t}
          BY <1>1, OnlyRows
    <2>. HIDE DEF orig
    <2>. QED  BY <2>1, <2>2
  <1>3. all \in RowSets /\ DOMAIN all = DOMAIN again \cup DOMAIN rows
        BY <1>1, <1>2, MergedRows
  <1>4. was.read \in BOOLEAN
        BY <1>1 DEF Records
  <1>5. DOMAIN new = DOMAIN all
        OBVIOUS
  <1>. HIDE DEF all, orig, was
  <1>6. new \in RowSets
    <2>1. DOMAIN all \subseteq Threads /\ \A s \in DOMAIN all : all[s] \in Records
          BY <1>3, RowsAre
    <2>2. \A q \in Records : [q EXCEPT !.read = was.read] \in Records
          BY <1>4 DEF Records
    <2>3. new \in [DOMAIN all -> Records]
          BY <2>1, <2>2
    <2>. HIDE DEF new
    <2>. QED  BY <1>5, <2>1, <2>3, RowsAre
  <1>7. Undone(r, t) = new
        BY DEF Undone, all, orig, was
  <1>. HIDE DEF new, again
  <1>. QED  BY <1>1, <1>2, <1>3, <1>5, <1>6, <1>7 DEF orig

(* A set of numbers that another one bounds from above has a greatest.      *)
LEMMA LeastNat ==
    ASSUME NEW T \in SUBSET Nat, T # {}
    PROVE  \E n \in T : \A m \in T : n <= m
  <1>1. \E x \in T : \A y \in T : <<y, x>> \notin OpToRel(<, Nat)
        BY NatLessThanWellFounded, WFMin
  <1>2. \A x, y \in T : <<y, x>> \notin OpToRel(<, Nat) => x <= y
        BY DEF OpToRel
  <1>. QED BY <1>1, <1>2

LEMMA GreatestNat ==
    ASSUME NEW T \in SUBSET Nat, T # {}, NEW b \in Nat, \A n \in T : n <= b
    PROVE  \E n \in T : \A m \in T : m <= n
  <1>. DEFINE Gaps == {b - n : n \in T}
  <1>1. Gaps \in SUBSET Nat /\ Gaps # {} /\ \A n \in T : b - n \in Gaps
    <2>1. \A n \in T : b - n \in Nat
      <3>1. ASSUME NEW n \in T PROVE b - n \in Nat
            OBVIOUS
      <3>. QED  BY <3>1
    <2>. QED  BY <2>1
  <1>2. PICK g \in Gaps : \A h \in Gaps : g <= h
        BY <1>1, LeastNat
  <1>3. PICK n \in T : g = b - n
        BY <1>2
  <1>4. ASSUME NEW m \in T PROVE m <= n
    <2>1. g <= b - m
          BY <1>1, <1>2
    <2>. QED  BY <1>3, <2>1
  <1>. QED  BY <1>4

LEMMA NumbersAre ==
    ASSUME MailViewAssumption
    PROVE  /\ IsFiniteSet(Threads) /\ Threads \subseteq Nat
           /\ \A t \in Threads : t \in Nat /\ t > 0
           /\ PageSize \in Nat /\ PageSize > 0
  <1>1. Threads \subseteq Nat \ {0} /\ PageSize \in Nat \ {0} /\ IsFiniteSet(Threads)
        BY DEF MailViewAssumption
  <1>2. \A n \in Nat \ {0} : n > 0
        OBVIOUS
  <1>. QED  BY <1>1, <1>2

LEMMA PageOf ==
    ASSUME NEW v, NEW c
    PROVE  Page(v, c) \subseteq Listed(v) /\ Listed(v) \subseteq Threads
  BY DEF Page, Beyond, Listed

(* With one page, it is the whole list.                                     *)
LEMMA OnePageOf ==
    ASSUME MailViewAssumption, OnePage, NEW v
    PROVE  Page(v, 0) = Listed(v) /\ NextCursor(v, 0) = 0
  <1>1. Beyond(v, 0) = Listed(v) /\ Listed(v) \subseteq Threads
        BY NumbersAre DEF Beyond, Listed
  <1>2. ASSUME NEW t \in Listed(v)
        PROVE  Cardinality({s \in Beyond(v, 0) : s < t}) < PageSize
    <2>. DEFINE S == {s \in Beyond(v, 0) : s < t}
    <2>1. S \subseteq Threads /\ t \in Threads /\ t \notin S
          BY <1>1, NumbersAre
    <2>. HIDE DEF S
    <2>2. /\ Cardinality(S) <= Cardinality(Threads)
          /\ Cardinality(S) # Cardinality(Threads)
          /\ IsFiniteSet(S)
          BY <2>1, NumbersAre, FS_Subset
    <2>3. Cardinality(Threads) \in Nat /\ Cardinality(S) \in Nat
          BY <2>2, NumbersAre, FS_CardinalityType
    <2>. QED  BY <2>2, <2>3, NumbersAre DEF OnePage, S
  <1>. QED  BY <1>1, <1>2 DEF Page, NextCursor

LEMMA NextCursorOf ==
    ASSUME MailViewAssumption, NEW v, NEW c
    PROVE  NextCursor(v, c) \in Cursors
  <1>1. CASE Page(v, c) = Beyond(v, c)
        BY <1>1 DEF NextCursor, Cursors
  <1>2. CASE Page(v, c) # Beyond(v, c)
    <2>. DEFINE B == Beyond(v, c)
                P == Page(v, c)
                Less(t) == {s \in B : s < t}
    <2>1. B \subseteq Threads /\ IsFiniteSet(B) /\ \A s \in B : s \in Nat
          BY FS_Subset, NumbersAre DEF Beyond, Listed
    <2>2. \A t \in B : Less(t) \subseteq B /\ IsFiniteSet(Less(t)) /\ Cardinality(Less(t)) \in Nat
          BY <2>1, FS_Subset, FS_CardinalityType
    <2>3. P = {t \in B : Cardinality(Less(t)) < PageSize} /\ PageSize \in Nat /\ PageSize > 0
          BY NumbersAre DEF Page
    <2>. HIDE DEF B, P
    <2>4. PICK b \in B : ~(Cardinality(Less(b)) < PageSize)
          BY <1>2, <2>3 DEF B, P
    <2>5. ASSUME NEW t \in P PROVE t <= b
      <3>1. SUFFICES ASSUME b < t PROVE FALSE
            BY <2>1, <2>3, <2>4
      <3>2. Less(b) \subseteq Less(t)
        <4>1. b \in Nat /\ t \in Nat /\ t \in B
              BY <2>1, <2>3, <2>4
        <4>2. ASSUME NEW s \in B, s < b
              PROVE  s < t
              BY <3>1, <4>1, <4>2, <2>1
        <4>. QED  BY <4>2
      <3>3. Cardinality(Less(b)) <= Cardinality(Less(t))
            BY <3>2, <2>2, <2>3, FS_Subset
      <3>. HIDE DEF Less
      <3>. QED  BY <3>3, <2>2, <2>3, <2>4
    <2>6. PICK l \in B : \A s \in B : l <= s
      <3>1. B \in SUBSET Nat /\ B # {}
            BY <2>1, <2>4
      <3>. QED  BY <3>1, LeastNat
    <2>7. l \in P
      <3>1. Less(l) = {}
        <4>1. l \in Nat
              BY <2>1, <2>6
        <4>2. \A s \in B : ~(s < l)
              BY <4>1, <2>1, <2>6
        <4>. QED  BY <4>2
      <3>. HIDE DEF Less
      <3>. QED  BY <3>1, <2>3, FS_EmptySet
    <2>8. P \subseteq Nat /\ P \subseteq Threads
          BY <2>1, <2>3
    <2>9. \E n \in P : \A m \in P : m <= n
          BY <2>1, <2>4, <2>5, <2>7, <2>8, GreatestNat
    <2>. QED  BY <1>2, <2>8, <2>9 DEF NextCursor, Cursors, B, P
  <1>. QED  BY <1>1, <1>2

-----------------------------------------------------------------------------
(* The steps of loading *)

LEMMA LoadedTypes ==
    ASSUME TypeOK, NEW v \in Views, AskFor(v)
    PROVE  /\ load' \in Loads /\ more' \in Mores /\ loading' \in BOOLEAN /\ marked' = {}
           /\ load'.at = "asked" /\ load'.view = v /\ load'.next = 0
           /\ ~more'.fresh /\ more'.at = more.at
  BY NoRowsAre DEF AskFor, NoLoad, Superseded, TypeOK, ListOK, Loads, Mores, Places, Cursors

LEMMA OutdatedJumps ==
    ASSUME TypeOK
    PROVE  /\ Outdated \in [Jumps -> JumpOf]
           /\ \A j \in Jumps : /\ ~Outdated[j].fresh /\ Outdated[j].next = jumps[j].next
  BY DEF Outdated, Superseded, TypeOK, ListOK, JumpOf

LEMMA InvalidateTypes ==
    ASSUME TypeOK, Invalidate
    PROVE  /\ load' \in Loads /\ more' \in Mores /\ load'.at = "none" /\ load'.next = 0
           /\ ~more'.fresh /\ more'.at = more.at /\ jumps' = Outdated
  BY NoRowsAre DEF Invalidate, NoLoad, Superseded, TypeOK, ListOK, Loads, Mores, Places, Cursors

(* A load begins: what was right or not no longer matters.                  *)
LEMMA Asks ==
    ASSUME IInv, view' \in Views, AskFor(view'), UNCHANGED cursor, jumps' \in [Jumps -> JumpOf],
           \A j \in Jumps : /\ jumps'[j].fresh => jumps'[j].at = "asked" /\ jumps'[j].view = view'
                            /\ jumps'[j].next \in {0, jumps[j].next}
    PROVE  /\ Right' /\ Aimed' /\ Alone'
           /\ load' \in Loads /\ more' \in Mores /\ loading' \in BOOLEAN
           /\ jumps' \in [Jumps -> JumpOf] /\ marked' \in SUBSET Threads
  <1>1. /\ load' \in Loads /\ more' \in Mores /\ loading' \in BOOLEAN /\ marked' = {}
        /\ load'.at = "asked" /\ load'.view = view' /\ load'.next = 0
        /\ ~more'.fresh /\ more'.at = more.at
        BY LoadedTypes DEF IInv
  <1>2. Right' /\ Aimed'
        BY <1>1 DEF Right, Aimed, Welcome
  <1>3. Alone'
        BY <1>1 DEF IInv, Alone, OnePage
  <1>. QED  BY <1>1, <1>2, <1>3

LEMMA Reloads ==
    ASSUME IInv, view' \in Views, LoadMessages(view'), UNCHANGED cursor
    PROVE  /\ Right' /\ Aimed' /\ Alone'
           /\ load' \in Loads /\ more' \in Mores /\ loading' \in BOOLEAN
           /\ jumps' \in [Jumps -> JumpOf] /\ marked' \in SUBSET Threads
  BY Asks, OutdatedJumps DEF LoadMessages, IInv

(* What a view lists, and what it may miss, is settled by the catalogue and *)
(* the changes of the flag.                                                 *)
LEMMA SameHere ==
    ASSUME UNCHANGED <<store, view, marked, marks, latest>>
    PROVE  Here' = Here /\ Excused' = Excused /\ Owed' = Owed /\ OnePage' = OnePage
  <1>1. Owed' = Owed
    <2>1. \A r, t : Pending(r, t)' <=> Pending(r, t)
          BY DEF Pending, StillThere
    <2>. QED  BY <2>1 DEF Owed
  <1>. QED  BY <1>1 DEF Here, Listed, Excused, OnePage

(* A step that asks for nothing keeps what is right, if a row that goes is  *)
(* one that may be missed and a new one is of the view or put back.         *)
LEMMA RightStays ==
    ASSUME Right, UNCHANGED <<view, load, more, jumps, astray>>,
           marked \subseteq marked', back \subseteq back',
           Here' \subseteq Here \cup Excused', Here \subseteq Here' \cup Excused',
           DOMAIN rows' \subseteq DOMAIN rows \cup back',
           OnePage => DOMAIN rows \cup Owed \subseteq DOMAIN rows' \cup Owed' \cup Excused'
    PROVE  Right'
  <1>1. Excused \subseteq Excused' /\ OnePage' = OnePage /\ Welcome' = Welcome
        BY DEF Excused, OnePage, Welcome
  <1>2. ShowsView => ShowsView'
        BY <1>1 DEF ShowsView
  <1>3. \A S : PageIs(S) => PageIs(S)'
        BY <1>1 DEF PageIs
  <1>4. \A S : S \subseteq Here \cup Excused => S \subseteq Here' \cup Excused'
        BY <1>1
  <1>. QED  BY <1>1, <1>2, <1>3, <1>4 DEF Right

(* While no action moves rows, it is enough to look at the list.            *)
LEMMA SameActions ==
    ASSUME IInv, UNCHANGED <<moves, moving, sweep>>,
           OnePage => astray' \/ DOMAIN rows' \cap Hidden \subseteq back'
    PROVE  Owned' /\ HidesAll' /\ Claimed'
  <1>1. Hidden' = Hidden /\ InFlight' = InFlight /\ OnePage' = OnePage
        BY DEF Hidden, InFlight, OnePage
  <1>. QED  BY <1>1 DEF IInv, Owned, HidesAll, Claimed

LEMMA NothingHidden ==
    ASSUME IInv, ~Busy
    PROVE  Hidden = {}
  <1>1. \A m \in Moves : moves[m].all = {}
        BY DEF IInv, TypeOK, MovesOK, Busy, NoMove
  <1>2. InFlight = {} /\ sweep.of = {}
        BY <1>1 DEF InFlight, IInv, TypeOK, OthersOK, Busy
  <1>. QED  BY <1>2 DEF IInv, Owned, Hidden

LEMMA SearchAnswersKeeps ==
    ASSUME MailViewAssumption, IInv, SearchAnswers PROVE IInv'
  <1>0. Here' = Here /\ Excused' = Excused /\ Owed' = Owed /\ OnePage' = OnePage
        BY SameHere DEF SearchAnswers, asides
  <1>. DEFINE page == Page(load.view, 0)
  <1>1. /\ page \subseteq Listed(load.view) /\ Listed(load.view) \subseteq Threads
        /\ OnePage => page = Listed(load.view) /\ NextCursor(load.view, 0) = 0
        /\ NextCursor(load.view, 0) \in Cursors
        BY PageOf, OnePageOf, NextCursorOf
  <1>2. AsStored(page) \in RowSets /\ DOMAIN AsStored(page) = page
        BY <1>1, StoredRows DEF IInv, TypeOK
  <1>3. /\ load' \in Loads
        /\ load'.at = "answered" /\ load'.view = load.view /\ load'.page = AsStored(page)
        /\ load'.next = NextCursor(load.view, 0) /\ load.at = "asked"
        BY <1>1, <1>2 DEF IInv, TypeOK, ListOK, SearchAnswers, asides, Loads
  <1>. HIDE DEF page
  <1>4. TypeOK'
        BY <1>3 DEF IInv, SearchAnswers, asides, TypeOK, CatalogueOK, ListOK, MovesOK, MarksOK, OthersOK
  <1>5. (Busy \/ Right)'
    <2>1. /\ DOMAIN load'.page \subseteq Here' \cup Excused'
          /\ OnePage' => Here' \subseteq DOMAIN load'.page \cup Excused'
          BY <1>0, <1>1, <1>2, <1>3 DEF Here, IInv, Aimed
    <2>. QED  BY <1>0, <1>3, <2>1 DEF IInv, SearchAnswers, asides, Busy, Right, PageIs, Welcome
  <1>6. Aimed' /\ Alone'
        BY <1>1, <1>3 DEF IInv, SearchAnswers, asides, Aimed, Alone, OnePage
  <1>7. Owned' /\ HidesAll' /\ Claimed'
        BY DEF IInv, SearchAnswers, asides, Owned, HidesAll, Claimed, InFlight, Hidden, OnePage
  <1>. QED  BY <1>4, <1>5, <1>6, <1>7 DEF IInv

LEMMA SearchFailsKeeps ==
    ASSUME IInv, SearchFails PROVE IInv'
  <1>0. Here' = Here /\ Excused' = Excused /\ Owed' = Owed /\ OnePage' = OnePage
        BY SameHere DEF SearchFails, asides
  <1>1. load' \in Loads /\ load'.at = "failed" /\ load'.next = 0 /\ loading' \in BOOLEAN
        BY NoRowsAre DEF SearchFails, asides, NoLoad, Loads, Places, Cursors
  <1>2. TypeOK'
        BY <1>1 DEF IInv, SearchFails, asides, TypeOK, CatalogueOK, ListOK, MovesOK, MarksOK, OthersOK
  <1>3. (Busy \/ Right)' /\ Aimed' /\ Alone'
        BY <1>0, <1>1 DEF IInv, SearchFails, asides, Busy, Right, PageIs, Welcome, Aimed, Alone
  <1>4. Owned' /\ HidesAll' /\ Claimed'
        BY SameActions DEF IInv, HidesAll, SearchFails, asides
  <1>. QED  BY <1>2, <1>3, <1>4 DEF IInv

LEMMA ShowPageKeeps ==
    ASSUME IInv, ShowPage PROVE IInv'
  <1>0. Here' = Here /\ Excused' = Excused /\ Owed' = Owed /\ OnePage' = OnePage
        BY SameHere DEF ShowPage
  <1>1. load.page \in RowSets
        BY DEF IInv, TypeOK, ListOK, Loads
  <1>2. rows' \in RowSets /\ DOMAIN rows' = DOMAIN load.page \ Hidden /\ back' = {} /\ ~astray'
        BY <1>1, WithoutRows DEF ShowPage, Visible
  <1>3. /\ load' \in Loads /\ cursor' \in Cursors /\ loading' \in BOOLEAN
        /\ load'.at \in {"searching", "none"} /\ load'.next \in {load.next, 0}
        /\ cursor' = load.next
        /\ load'.at = "searching" => load'.page = load.page /\ load'.view = load.view
    <2>1. load \in Loads /\ load.next \in Cursors /\ load.at = "answered"
          BY DEF IInv, TypeOK, ListOK, ShowPage, Loads
    <2>2. CASE load.view \in Searches
          BY <2>1, <2>2 DEF IInv, TypeOK, ListOK, ShowPage, Loads
    <2>3. CASE load.view \notin Searches
      <3>1. NoLoad \in Loads /\ NoLoad.at = "none" /\ NoLoad.next = 0
            BY NoRowsAre DEF NoLoad, Loads, Places, Cursors
      <3>. QED  BY <2>1, <2>3, <3>1 DEF ShowPage
    <2>. QED  BY <2>2, <2>3
  <1>4. TypeOK'
        BY <1>2, <1>3 DEF IInv, ShowPage, TypeOK, CatalogueOK, ListOK, MovesOK, MarksOK, OthersOK
  <1>5. Aimed' /\ Alone'
        BY <1>3 DEF IInv, ShowPage, Aimed, Alone, OnePage
  <1>6. ASSUME ~Busy' PROVE Right'
    <2>1. ~Busy /\ Right /\ Hidden = {}
          BY <1>6, NothingHidden DEF IInv, ShowPage, Busy
    <2>2. PageIs(DOMAIN load.page)
          BY <2>1 DEF Right, ShowPage
    <2>3. ShowsView'
          BY <1>0, <1>2, <2>1, <2>2 DEF ShowsView, PageIs
    <2>. QED  BY <1>0, <1>3, <2>1, <2>2, <2>3 DEF Right, PageIs, ShowPage, Welcome
  <1>7. Owned' /\ HidesAll' /\ Claimed'
        BY <1>2, SameActions DEF ShowPage
  <1>. QED  BY <1>4, <1>5, <1>6, <1>7 DEF IInv

LEMMA ServersAnswerKeeps ==
    ASSUME IInv, ServersAnswer PROVE IInv'
  <1>0. Here' = Here /\ Excused' = Excused /\ Owed' = Owed /\ OnePage' = OnePage
        BY SameHere DEF ServersAnswer, asides
  <1>1. PICK S \in SUBSET Listed(load.view) :
              load' = [load EXCEPT !.at = "found", !.hits = AsStored(S)]
        BY DEF ServersAnswer, asides
  <1>2. AsStored(S) \in RowSets /\ DOMAIN AsStored(S) = S
        BY StoredRows, PageOf DEF IInv, TypeOK
  <1>3. /\ load' \in Loads /\ load'.at = "found" /\ load'.hits = AsStored(S)
        /\ load'.page = load.page /\ load'.view = load.view /\ load'.next = load.next
        /\ load.at = "searching"
        BY <1>1, <1>2 DEF IInv, TypeOK, ListOK, Loads, ServersAnswer, asides
  <1>4. TypeOK'
        BY <1>3 DEF IInv, ServersAnswer, asides, TypeOK, CatalogueOK, ListOK, MovesOK, MarksOK, OthersOK
  <1>5. (Busy \/ Right)' /\ Aimed' /\ Alone'
    <2>1. DOMAIN load'.hits \subseteq Here'
          BY <1>0, <1>2, <1>3 DEF Here, IInv, Aimed
    <2>2. Aimed' /\ Alone'
          BY <1>0, <1>3 DEF IInv, ServersAnswer, asides, Aimed, Alone
    <2>3. (astray \/ ShowsView) => (astray \/ ShowsView)'
          BY <1>0 DEF ShowsView, ServersAnswer, asides
    <2>4. ASSUME ~Busy' PROVE Right'
      <3>1. Right
            BY <2>4 DEF IInv, ServersAnswer, Busy
      <3>. QED  BY <1>0, <1>3, <2>1, <2>3, <3>1 DEF Right, PageIs, Welcome, ServersAnswer, asides
    <2>. QED  BY <2>2, <2>4
  <1>6. Owned' /\ HidesAll' /\ Claimed'
        BY SameActions DEF IInv, HidesAll, ServersAnswer, asides
  <1>. QED  BY <1>4, <1>5, <1>6 DEF IInv

LEMMA ServersFailKeeps ==
    ASSUME IInv, ServersFail PROVE IInv'
  <1>0. Here' = Here /\ Excused' = Excused /\ Owed' = Owed /\ OnePage' = OnePage
        BY SameHere DEF ServersFail, asides
  <1>1. load' \in Loads /\ load'.at = "none" /\ load'.next = 0 /\ loading' \in BOOLEAN
        BY NoRowsAre DEF ServersFail, asides, NoLoad, Loads, Places, Cursors
  <1>2. TypeOK'
        BY <1>1 DEF IInv, ServersFail, asides, TypeOK, CatalogueOK, ListOK, MovesOK, MarksOK, OthersOK
  <1>3. (Busy \/ Right)' /\ Aimed' /\ Alone'
        BY <1>0, <1>1 DEF IInv, ServersFail, asides, Busy, Right, ShowsView, PageIs, Welcome, Aimed, Alone
  <1>4. Owned' /\ HidesAll' /\ Claimed'
        BY SameActions DEF IInv, HidesAll, ServersFail, asides
  <1>. QED  BY <1>2, <1>3, <1>4 DEF IInv

LEMMA ShowFoundKeeps ==
    ASSUME IInv, ShowFound PROVE IInv'
  <1>0. Here' = Here /\ Excused' = Excused /\ Owed' = Owed /\ OnePage' = OnePage
        BY SameHere DEF ShowFound
  <1>. DEFINE both == Merged(load.page, load.hits)
  <1>1. load.page \in RowSets /\ load.hits \in RowSets
        BY DEF IInv, TypeOK, ListOK, Loads
  <1>2. both \in RowSets /\ DOMAIN both = DOMAIN load.page \cup DOMAIN load.hits
        BY <1>1, MergedRows
  <1>3. rows' \in RowSets /\ DOMAIN rows' = DOMAIN both \ Hidden /\ back' = {} /\ ~astray'
        BY <1>2, WithoutRows DEF ShowFound, Visible
  <1>. HIDE DEF both
  <1>4. load' \in Loads /\ load'.at = "none" /\ load'.next = 0 /\ loading' \in BOOLEAN
        BY NoRowsAre DEF ShowFound, NoLoad, Loads, Places, Cursors
  <1>5. TypeOK'
        BY <1>3, <1>4 DEF IInv, ShowFound, TypeOK, CatalogueOK, ListOK, MovesOK, MarksOK, OthersOK
  <1>6. Aimed' /\ Alone'
        BY <1>4 DEF IInv, ShowFound, Aimed, Alone, OnePage
  <1>7. ASSUME ~Busy' PROVE Right'
    <2>1. ~Busy /\ Right /\ Hidden = {}
          BY <1>7, NothingHidden DEF IInv, ShowFound, Busy
    <2>2. PageIs(DOMAIN load.page) /\ DOMAIN load.hits \subseteq Here \cup Excused
          BY <2>1 DEF Right, ShowFound
    <2>3. ShowsView'
          BY <1>0, <1>2, <1>3, <2>1, <2>2 DEF ShowsView, PageIs
    <2>. QED  BY <1>0, <1>4, <2>1, <2>3 DEF Right, PageIs, ShowFound, Welcome
  <1>8. Owned' /\ HidesAll' /\ Claimed'
        BY <1>3, SameActions DEF ShowFound
  <1>. QED  BY <1>5, <1>6, <1>7, <1>8 DEF IInv

-----------------------------------------------------------------------------
(* Further pages, other views, changes *)

LEMMA LoadMoreKeeps ==
    ASSUME IInv, LoadMore PROVE IInv'
  <1>0. Here' = Here /\ Excused' = Excused /\ Owed' = Owed /\ OnePage' = OnePage
        BY SameHere DEF LoadMore, asides
  <1>1. more' \in Mores /\ more'.at = "asked" /\ ~OnePage
        BY NoRowsAre DEF IInv, TypeOK, CatalogueOK, ListOK, LoadMore, asides, NoMore, Mores, Places, Cursors, Alone
  <1>2. TypeOK'
        BY <1>1 DEF IInv, LoadMore, asides, TypeOK, CatalogueOK, ListOK, MovesOK, MarksOK, OthersOK
  <1>3. (Busy \/ Right)' /\ Aimed' /\ Alone'
        BY <1>0, <1>1 DEF IInv, LoadMore, asides, Busy, Right, ShowsView, PageIs, Aimed, Alone
  <1>4. Owned' /\ HidesAll' /\ Claimed'
        BY SameActions DEF IInv, HidesAll, LoadMore, asides
  <1>. QED  BY <1>2, <1>3, <1>4 DEF IInv

LEMMA MoreAnswersKeeps ==
    ASSUME MailViewAssumption, IInv, MoreAnswers PROVE IInv'
  <1>0. Here' = Here /\ Excused' = Excused /\ Owed' = Owed /\ OnePage' = OnePage
        BY SameHere DEF MoreAnswers, asides
  <1>. DEFINE page == Page(more.view, more.from)
  <1>1. /\ page \subseteq Listed(more.view) /\ page \subseteq Threads
        /\ NextCursor(more.view, more.from) \in Cursors
        BY PageOf, NextCursorOf
  <1>2. AsStored(page) \in RowSets /\ DOMAIN AsStored(page) = page
        BY <1>1, StoredRows DEF IInv, TypeOK
  <1>3. /\ more' \in Mores /\ more'.at = "answered" /\ more'.page = AsStored(page)
        /\ more'.view = more.view /\ ~OnePage
        BY <1>1, <1>2 DEF IInv, TypeOK, ListOK, MoreAnswers, asides, Mores, Alone
  <1>. HIDE DEF page
  <1>4. TypeOK'
        BY <1>3 DEF IInv, MoreAnswers, asides, TypeOK, CatalogueOK, ListOK, MovesOK, MarksOK, OthersOK
  <1>5. (Busy \/ Right)' /\ Aimed' /\ Alone'
    <2>1. Welcome' => DOMAIN more'.page \subseteq Here
          BY <1>1, <1>2, <1>3 DEF Welcome, MoreAnswers, Here
    <2>. QED  BY <1>0, <1>3, <2>1 DEF IInv, MoreAnswers, asides, Busy, Right, ShowsView, PageIs, Aimed, Alone
  <1>6. Owned' /\ HidesAll' /\ Claimed'
        BY SameActions DEF IInv, HidesAll, MoreAnswers, asides
  <1>. QED  BY <1>4, <1>5, <1>6 DEF IInv

LEMMA ShowMoreKeeps ==
    ASSUME IInv, ShowMore PROVE IInv'
  <1>0. Here' = Here /\ Excused' = Excused /\ Owed' = Owed /\ OnePage' = OnePage
        BY SameHere DEF ShowMore, asides
  <1>1. more.page \in RowSets /\ rows \in RowSets /\ more.next \in Cursors /\ ~OnePage
        BY DEF IInv, TypeOK, ListOK, Mores, Alone, ShowMore, asides
  <1>2. /\ Merged(more.page, rows) \in RowSets
        /\ DOMAIN Merged(more.page, rows) = DOMAIN more.page \cup DOMAIN rows
        BY <1>1, MergedRows
  <1>3. more' \in Mores /\ more'.at = "idle"
        BY NoRowsAre DEF ShowMore, asides, NoMore, Mores, Places, Cursors
  <1>4. TypeOK'
        BY <1>1, <1>2, <1>3 DEF IInv, ShowMore, asides, TypeOK, CatalogueOK, ListOK, MovesOK, MarksOK, OthersOK
  <1>5. (Busy \/ Right)' /\ Aimed' /\ Alone'
    <2>1. Aimed' /\ Alone'
          BY <1>0, <1>1, <1>3 DEF IInv, ShowMore, asides, Aimed, Alone
    <2>2. ASSUME ~Busy' PROVE Right'
      <3>1. ~Busy /\ Right
            BY <2>2 DEF IInv, ShowMore, asides, Busy
      <3>2. ShowsView => ShowsView'
            BY <1>0, <1>1, <1>2, <3>1 DEF ShowsView, Right, ShowMore, asides
      <3>. QED  BY <1>0, <1>3, <3>1, <3>2 DEF Right, PageIs, ShowMore, asides
    <2>. QED  BY <2>1, <2>2
  <1>6. Owned' /\ HidesAll' /\ Claimed'
        BY <1>1, SameActions DEF IInv, HidesAll, ShowMore, asides
  <1>. QED  BY <1>4, <1>5, <1>6 DEF IInv

LEMMA SwitchKeeps ==
    ASSUME IInv, NEW v \in Views, Switch(v) PROVE IInv'
  <1>1. /\ Right' /\ Aimed' /\ Alone'
        /\ load' \in Loads /\ more' \in Mores /\ loading' \in BOOLEAN
        /\ jumps' \in [Jumps -> JumpOf] /\ marked' \in SUBSET Threads
        BY Reloads DEF Switch
  <1>2. TypeOK'
        BY <1>1 DEF IInv, Switch, TypeOK, CatalogueOK, ListOK, MovesOK, MarksOK, OthersOK
  <1>3. Owned' /\ HidesAll' /\ Claimed'
        BY SameActions DEF IInv, HidesAll, Switch
  <1>. QED  BY <1>1, <1>2, <1>3 DEF IInv

LEMMA ChangeKeeps ==
    ASSUME IInv, Change PROVE IInv'
  <1>1. store' \in [Threads -> Records] /\ notice'
    <2>1. store \in [Threads -> Records]
          BY DEF IInv, TypeOK, CatalogueOK
    <2>2. PICK t \in Threads :
                \/ \E v \in Views \cup {Away} : store' = [store EXCEPT ![t] = [store[t] EXCEPT !.view = v]]
                \/ store' = [store EXCEPT ![t] = [store[t] EXCEPT !.read = ~store[t].read]]
          BY <2>1 DEF Change
    <2>3. \A v \in Views \cup {Away} : [store[t] EXCEPT !.view = v] \in Records
          BY <2>1 DEF Records, Places
    <2>4. [store[t] EXCEPT !.read = ~store[t].read] \in Records
          BY <2>1 DEF Records
    <2>. QED  BY <2>1, <2>2, <2>3, <2>4 DEF Change
  <1>2. TypeOK'
        BY <1>1 DEF IInv, Change, lists, asides, TypeOK, CatalogueOK, ListOK, MovesOK, MarksOK, OthersOK
  <1>3. (Busy \/ Right)' /\ Aimed' /\ Alone'
        BY <1>1 DEF IInv, Change, lists, asides, Busy, Aimed, Alone, OnePage
  <1>4. Owned' /\ HidesAll' /\ Claimed'
        BY SameActions DEF IInv, HidesAll, Change, lists, asides
  <1>. QED  BY <1>2, <1>3, <1>4 DEF IInv

LEMMA MailChangedKeeps ==
    ASSUME IInv, MailChanged PROVE IInv'
  <1>1. /\ Right' /\ Aimed' /\ Alone'
        /\ load' \in Loads /\ more' \in Mores /\ loading' \in BOOLEAN
        /\ jumps' \in [Jumps -> JumpOf] /\ marked' \in SUBSET Threads
        BY Reloads DEF MailChanged, IInv, TypeOK, CatalogueOK
  <1>2. TypeOK'
        BY <1>1 DEF IInv, MailChanged, TypeOK, CatalogueOK, ListOK, MovesOK, MarksOK, OthersOK
  <1>3. Owned' /\ HidesAll' /\ Claimed'
        BY SameActions DEF IInv, HidesAll, MailChanged
  <1>. QED  BY <1>1, <1>2, <1>3 DEF IInv

-----------------------------------------------------------------------------
(* Notifications and accounts *)

LEMMA JumpKeeps ==
    ASSUME IInv, NEW j \in Jumps, NEW v \in Views, Jump(j, v) PROVE IInv'
  <1>. DEFINE asked == [NoJump EXCEPT !.at = "asked", !.view = v, !.fresh = TRUE]
  <1>1. asked \in JumpOf /\ asked.at = "asked" /\ asked.view = v /\ asked.next = 0
        BY NoRowsAre DEF NoJump, JumpOf, Places, Cursors
  <1>. HIDE DEF asked
  <1>2. CASE v # view
    <2>1. AskFor(view') /\ jumps' = [Outdated EXCEPT ![j] = asked] /\ view' = v
          BY <1>2 DEF Jump, asked
    <2>2. /\ jumps' \in [Jumps -> JumpOf]
          /\ \A i \in Jumps : /\ jumps'[i].fresh => jumps'[i].at = "asked" /\ jumps'[i].view = view'
                              /\ jumps'[i].next \in {0, jumps[i].next}
          BY <1>1, <2>1, OutdatedJumps DEF IInv
    <2>3. /\ Right' /\ Aimed' /\ Alone'
          /\ load' \in Loads /\ more' \in Mores /\ loading' \in BOOLEAN
          /\ marked' \in SUBSET Threads
          BY <2>1, <2>2, Asks DEF Jump
    <2>4. TypeOK'
          BY <2>2, <2>3 DEF IInv, Jump, TypeOK, CatalogueOK, ListOK, MovesOK, MarksOK, OthersOK
    <2>5. Owned' /\ HidesAll' /\ Claimed'
          BY SameActions DEF IInv, HidesAll, Jump
    <2>. QED  BY <2>3, <2>4, <2>5 DEF IInv
  <1>3. CASE v = view
    <2>1. jumps' = [jumps EXCEPT ![j] = asked] /\ UNCHANGED <<load, more, loading, marked, view>>
          BY <1>3 DEF Jump, asked
    <2>2. /\ jumps' \in [Jumps -> JumpOf] /\ jumps'[j] = asked
          /\ \A i \in Jumps \ {j} : jumps'[i] = jumps[i]
          BY <1>1, <2>1 DEF IInv, TypeOK, ListOK
    <2>3. TypeOK'
          BY <2>1, <2>2 DEF IInv, Jump, TypeOK, CatalogueOK, ListOK, MovesOK, MarksOK, OthersOK
    <2>4. Here' = Here /\ Excused' = Excused /\ Owed' = Owed /\ OnePage' = OnePage
          BY <2>1, SameHere DEF Jump
    <2>5. (Busy \/ Right)' /\ Aimed' /\ Alone'
          BY <1>1, <1>3, <2>1, <2>2, <2>4 DEF IInv, Jump, Busy, Right, ShowsView, PageIs, Welcome, Aimed,
             Alone
    <2>6. Owned' /\ HidesAll' /\ Claimed'
          BY SameActions DEF IInv, HidesAll, Jump
    <2>. QED  BY <2>3, <2>5, <2>6 DEF IInv
  <1>. QED  BY <1>2, <1>3

LEMMA JumpAnswersKeeps ==
    ASSUME MailViewAssumption, IInv, NEW j \in Jumps, JumpAnswers(j) PROVE IInv'
  <1>. DEFINE v == jumps[j].view
              page == Page(v, 0)
  <1>1. /\ page \subseteq Listed(v) /\ Listed(v) \subseteq Threads
        /\ OnePage => page = Listed(v) /\ NextCursor(v, 0) = 0
        /\ NextCursor(v, 0) \in Cursors
        BY PageOf, OnePageOf, NextCursorOf
  <1>2. AsStored(page) \in RowSets /\ DOMAIN AsStored(page) = page
        BY <1>1, StoredRows DEF IInv, TypeOK
  <1>3. PICK new \in JumpOf :
              /\ jumps' = [jumps EXCEPT ![j] = new]
              /\ \/ new = NoJump
                 \/ /\ new.page = AsStored(page) /\ new.view = v /\ new.fresh = jumps[j].fresh
                    /\ new.next = NextCursor(v, 0)
    <2>1. NoJump \in JumpOf
          BY NoRowsAre DEF NoJump, JumpOf, Places, Cursors
    <2>2. CASE jumps' = [jumps EXCEPT ![j] = NoJump]
          BY <2>1, <2>2
    <2>. DEFINE new == [jumps[j] EXCEPT !.at = "answered", !.page = AsStored(page),
                                        !.next = NextCursor(v, 0)]
    <2>3. CASE jumps' = [jumps EXCEPT ![j] = new]
      <3>1. jumps[j] \in JumpOf
            BY DEF IInv, TypeOK, ListOK
      <3>. HIDE DEF page
      <3>2. /\ new \in JumpOf /\ new.page = AsStored(page) /\ new.view = v
            /\ new.fresh = jumps[j].fresh /\ new.next = NextCursor(v, 0)
            BY <1>1, <1>2, <3>1 DEF JumpOf
      <3>. HIDE DEF new, v
      <3>. QED  BY <2>3, <3>2
    <2>4. jumps \in [Jumps -> JumpOf]
          BY DEF IInv, TypeOK, ListOK
    <2>. QED  BY <2>2, <2>3, <2>4 DEF JumpAnswers
  <1>. HIDE DEF page, v
  <1>4. /\ jumps' \in [Jumps -> JumpOf] /\ jumps'[j] = new
        /\ \A i \in Jumps \ {j} : jumps'[i] = jumps[i]
        BY <1>3 DEF IInv, TypeOK, ListOK
  <1>5. TypeOK'
        BY <1>4 DEF IInv, JumpAnswers, TypeOK, CatalogueOK, ListOK, MovesOK, MarksOK, OthersOK
  <1>6. Here' = Here /\ Excused' = Excused /\ Owed' = Owed /\ OnePage' = OnePage
        BY SameHere DEF JumpAnswers
  <1>7. /\ new.fresh => new.view = view /\ PageIs(DOMAIN new.page)
        /\ OnePage => new.next = 0
    <2>1. CASE new = NoJump
          BY <2>1 DEF NoJump
    <2>2. CASE new # NoJump
          BY <1>1, <1>2, <1>3, <2>2 DEF IInv, Aimed, PageIs, Here, v
    <2>. QED  BY <2>1, <2>2
  <1>8. (Busy \/ Right)' /\ Aimed' /\ Alone'
        BY <1>4, <1>6, <1>7 DEF IInv, JumpAnswers, Busy, Right, ShowsView, PageIs, Welcome, Aimed, Alone
  <1>9. Owned' /\ HidesAll' /\ Claimed'
        BY SameActions DEF IInv, HidesAll, JumpAnswers
  <1>. QED  BY <1>5, <1>8, <1>9 DEF IInv

(* An inbox that comes too late is not the list that loadMessages shows; one *)
(* that is in time is.                                                      *)
LEMMA ShowJumpKeeps ==
    ASSUME IInv, NEW j \in Jumps, ShowJump(j) PROVE IInv'
  <1>1. NoJump \in JumpOf /\ ~NoJump.fresh /\ NoJump.at = "idle" /\ NoJump.next = 0
        BY NoRowsAre DEF NoJump, JumpOf, Places, Cursors
  <1>2. /\ jumps' \in [Jumps -> JumpOf] /\ jumps'[j] = NoJump
        /\ \A i \in Jumps \ {j} : jumps'[i] = jumps[i]
        BY <1>1 DEF IInv, TypeOK, ListOK, ShowJump
  <1>3. /\ rows' \in RowSets /\ cursor' \in Cursors
        /\ rows' = jumps[j].page /\ cursor' = jumps[j].next /\ back' = {}
        BY DEF IInv, TypeOK, ListOK, JumpOf, ShowJump
  <1>4. astray' \in BOOLEAN /\ (~astray' => jumps[j].fresh /\ DOMAIN rows' \cap Hidden = {})
        BY <1>3 DEF ShowJump, Late
  <1>5. TypeOK'
        BY <1>2, <1>3, <1>4 DEF IInv, ShowJump, TypeOK, CatalogueOK, ListOK, MovesOK, MarksOK, OthersOK
  <1>6. Here' = Here /\ Excused' = Excused /\ Owed' = Owed /\ OnePage' = OnePage
        BY SameHere DEF ShowJump
  <1>7. Aimed' /\ Alone'
        BY <1>1, <1>2, <1>3, <1>6 DEF IInv, ShowJump, Aimed, Alone
  <1>8. ASSUME ~Busy' PROVE Right'
    <2>1. Right
          BY <1>8 DEF IInv, ShowJump, Busy
    <2>2. ~astray' => ShowsView'
          BY <1>3, <1>4, <1>6, <2>1 DEF Right, ShowJump, ShowsView, PageIs
    <2>. QED  BY <1>1, <1>2, <1>6, <2>1, <2>2 DEF Right, ShowJump, PageIs, Welcome
  <1>9. Owned' /\ HidesAll' /\ Claimed'
        BY <1>4, SameActions DEF ShowJump
  <1>. QED  BY <1>5, <1>7, <1>8, <1>9 DEF IInv

LEMMA FindingKeeps ==
    ASSUME IInv, NEW a \in Accounts, Finding(a) PROVE IInv'
  <1>1. rows' \in RowSets /\ DOMAIN rows' = DOMAIN rows \ Of(a)
        BY WithoutRows DEF IInv, TypeOK, ListOK, Finding
  <1>2. accounts' \in [Accounts -> Phases] /\ accounts'[a] = "rebuilding"
        BY DEF Finding, Becomes, IInv, TypeOK, OthersOK, Phases
  <1>3. TypeOK'
        BY <1>1, <1>2 DEF IInv, Finding, asides, TypeOK, CatalogueOK, ListOK, MovesOK, MarksOK, OthersOK
  <1>4. Busy' /\ Aimed' /\ Alone'
        BY <1>2 DEF IInv, Finding, asides, Busy, Aimed, Alone, OnePage
  <1>5. Owned' /\ HidesAll' /\ Claimed'
        BY <1>1, SameActions DEF IInv, HidesAll, Finding, asides
  <1>. QED  BY <1>3, <1>4, <1>5 DEF IInv

LEMMA RebuiltKeeps ==
    ASSUME IInv, NEW a \in Accounts, Rebuilt(a) PROVE IInv'
  <1>1. /\ Right' /\ Aimed' /\ Alone'
        /\ load' \in Loads /\ more' \in Mores /\ loading' \in BOOLEAN
        /\ jumps' \in [Jumps -> JumpOf] /\ marked' \in SUBSET Threads
        BY Reloads DEF Rebuilt, IInv, TypeOK, CatalogueOK
  <1>2. accounts' \in [Accounts -> Phases]
        BY DEF Rebuilt, Becomes, IInv, TypeOK, OthersOK, Phases
  <1>3. TypeOK'
        BY <1>1, <1>2 DEF IInv, Rebuilt, TypeOK, CatalogueOK, ListOK, MovesOK, MarksOK, OthersOK
  <1>4. Owned' /\ HidesAll' /\ Claimed'
        BY SameActions DEF IInv, HidesAll, Rebuilt
  <1>. QED  BY <1>1, <1>3, <1>4 DEF IInv

LEMMA RemoveAccountKeeps ==
    ASSUME IInv, NEW a \in Accounts, RemoveAccount(a) PROVE IInv'
  <1>1. store' \in [Threads -> Records]
    <2>1. \A t \in Threads : store[t] \in Records /\ [store[t] EXCEPT !.view = Away] \in Records
          BY DEF IInv, TypeOK, CatalogueOK, Records, Places
    <2>. QED  BY <2>1 DEF RemoveAccount
  <1>2. accounts' \in [Accounts -> Phases] /\ accounts'[a] = "leaving"
        BY DEF RemoveAccount, Becomes, IInv, TypeOK, OthersOK, Phases
  <1>3. TypeOK'
        BY <1>1, <1>2 DEF IInv, RemoveAccount, lists, asides, TypeOK, CatalogueOK, ListOK, MovesOK,
           MarksOK, OthersOK
  <1>4. Busy' /\ Aimed' /\ Alone'
        BY <1>2 DEF IInv, RemoveAccount, lists, asides, Busy, Aimed, Alone, OnePage
  <1>5. Owned' /\ HidesAll' /\ Claimed'
        BY SameActions DEF IInv, HidesAll, RemoveAccount, lists, asides
  <1>. QED  BY <1>3, <1>4, <1>5 DEF IInv

LEMMA AccountRemovedKeeps ==
    ASSUME IInv, NEW a \in Accounts, AccountRemoved(a) PROVE IInv'
  <1>1. /\ Right' /\ Aimed' /\ Alone'
        /\ load' \in Loads /\ more' \in Mores /\ loading' \in BOOLEAN
        /\ jumps' \in [Jumps -> JumpOf] /\ marked' \in SUBSET Threads
        BY Reloads DEF AccountRemoved, IInv, TypeOK, CatalogueOK
  <1>2. accounts' \in [Accounts -> Phases]
        BY DEF AccountRemoved, Becomes, IInv, TypeOK, OthersOK, Phases
  <1>3. rows' \in RowSets /\ DOMAIN rows' = DOMAIN rows \ Of(a)
        BY WithoutRows DEF IInv, TypeOK, ListOK, AccountRemoved
  <1>4. TypeOK'
        BY <1>1, <1>2, <1>3 DEF IInv, AccountRemoved, TypeOK, CatalogueOK, ListOK, MovesOK, MarksOK,
           OthersOK
  <1>5. Owned' /\ HidesAll' /\ Claimed'
        BY <1>3, SameActions DEF IInv, HidesAll, AccountRemoved
  <1>. QED  BY <1>1, <1>4, <1>5 DEF IInv

-----------------------------------------------------------------------------
(* Moves *)

LEMMA MoveKeeps ==
    ASSUME IInv, NEW m \in Moves, NEW S \in SUBSET Threads, Move(m, S) PROVE IInv'
  <1>. DEFINE new == [NoMove EXCEPT !.at = "sent", !.all = S, !.left = S, !.orig = rows,
                                    !.twice = S \cap InFlight]
  <1>1. /\ rows \in RowSets /\ moves \in [Moves -> MoveOf] /\ moving \in SUBSET Threads
        /\ \A o \in Moves : moves[o].at = "idle" => moves[o] = NoMove
        /\ moves[m].at = "idle"
        BY DEF IInv, TypeOK, ListOK, MovesOK, Move
  <1>2. /\ new \in MoveOf /\ new.at = "sent" /\ new.all = S /\ new.twice = S \cap InFlight
        BY <1>1, NoRowsAre DEF NoMove, MoveOf
  <1>. HIDE DEF new
  <1>3. moves' = [o \in Moves |-> IF o = m THEN new
                                  ELSE [moves[o] EXCEPT !.twice = @ \cup (S \cap moves[o].all)]]
        BY DEF Move, new
  <1>4. /\ moves' \in [Moves -> MoveOf]
        /\ moves'[m] = new
        /\ \A o \in Moves \ {m} : /\ moves'[o].at = moves[o].at /\ moves'[o].all = moves[o].all
                                  /\ moves'[o].twice = moves[o].twice \cup (S \cap moves[o].all)
                                  /\ moves[o].at = "idle" => moves'[o] = NoMove
    <2>1. \A o \in Moves \ {m} : moves[o] \in MoveOf
          BY <1>1
    <2>2. ASSUME NEW o \in Moves \ {m}
          PROVE  /\ moves'[o] \in MoveOf
                 /\ moves'[o].at = moves[o].at /\ moves'[o].all = moves[o].all
                 /\ moves'[o].twice = moves[o].twice \cup (S \cap moves[o].all)
          BY <1>3, <2>1 DEF MoveOf
    <2>3. ASSUME NEW o \in Moves \ {m}, moves[o].at = "idle"
          PROVE  moves'[o] = NoMove
      <3>1. moves'[o] = [NoMove EXCEPT !.twice = NoMove.twice \cup (S \cap NoMove.all)]
            BY <1>1, <1>3, <2>3
      <3>2. NoMove.twice \cup (S \cap NoMove.all) = {}
            BY DEF NoMove
      <3>. QED  BY <3>1, <3>2 DEF NoMove
    <2>. QED  BY <1>2, <1>3, <2>2, <2>3
  <1>5. /\ load' \in Loads /\ more' \in Mores /\ load'.at = "none" /\ load'.next = 0
        /\ ~more'.fresh /\ more'.at = more.at
        /\ jumps' \in [Jumps -> JumpOf]
        /\ \A j \in Jumps : ~jumps'[j].fresh /\ jumps'[j].next = jumps[j].next
        BY InvalidateTypes, OutdatedJumps DEF IInv, Move
  <1>6. rows' \in RowSets /\ DOMAIN rows' = DOMAIN rows \ S /\ moving' = moving \cup S
        BY <1>1, WithoutRows DEF Move
  <1>7. TypeOK'
        BY ZenonT(60), <1>2, <1>4, <1>5, <1>6 DEF IInv, Move, TypeOK, CatalogueOK, ListOK, MovesOK, MarksOK, OthersOK
  <1>8. Busy' /\ Aimed' /\ Alone'
        BY <1>2, <1>4, <1>5 DEF IInv, Move, Busy, Aimed, Alone, OnePage
  <1>9. Owned'
    <2>1. \A o \in Moves : moves[o].all \subseteq moves'[o].all
          BY <1>1, <1>4 DEF NoMove
    <2>2. S \subseteq moves'[m].all
          BY <1>2, <1>4
    <2>. QED  BY <1>6, <2>1, <2>2 DEF IInv, Owned, InFlight
  <1>10. HidesAll'
         BY <1>6 DEF IInv, HidesAll, Hidden, OnePage, Move
  <1>11. Claimed'
    <2>1. \A o \in Moves : moves'[o].all \subseteq moving' \cup moves'[o].twice
          BY <1>2, <1>4, <1>6 DEF IInv, Claimed
    <2>2. ASSUME NEW o \in Moves, NEW p \in Moves, o # p
          PROVE  moves'[o].all \cap moves'[p].all \subseteq moves'[o].twice
      <3>1. CASE o = m
            BY <1>2, <1>4, <2>2, <3>1 DEF InFlight
      <3>2. CASE p = m
            BY <1>2, <1>4, <2>2, <3>2
      <3>3. CASE o # m /\ p # m
            BY <1>4, <2>2, <3>3 DEF IInv, Claimed
      <3>. QED  BY <3>1, <3>2, <3>3
    <2>. QED  BY <2>1, <2>2 DEF Claimed
  <1>. QED  BY <1>7, <1>8, <1>9, <1>10, <1>11 DEF IInv

(* A step of a move that is in flight and stays so.                         *)
LEMMA StaysInFlight ==
    ASSUME IInv, NEW m \in Moves, NEW l, moves' = [moves EXCEPT ![m] = l],
           moves[m].at # "idle", l \in MoveOf, l.at # "idle", l.all = moves[m].all,
           l.twice = moves[m].twice, UNCHANGED <<moving, sweep>>
    PROVE  /\ MovesOK' /\ Busy' /\ Owned' /\ Claimed' /\ Hidden' = Hidden
           /\ moves'[m].at = l.at /\ moves'[m].all = moves[m].all
  <1>1. /\ moves' \in [Moves -> MoveOf] /\ moves'[m] = l
        /\ \A o \in Moves \ {m} : moves'[o] = moves[o]
        /\ \A o \in Moves : moves'[o].all = moves[o].all /\ moves'[o].twice = moves[o].twice
        BY DEF IInv, TypeOK, MovesOK
  <1>2. MovesOK' /\ Busy'
        BY <1>1 DEF IInv, TypeOK, MovesOK, Busy
  <1>3. Owned' /\ Claimed' /\ Hidden' = Hidden
        BY <1>1 DEF IInv, Owned, Claimed, InFlight, Hidden
  <1>. QED  BY <1>1, <1>2, <1>3

LEMMA MoveAnswersKeeps ==
    ASSUME IInv, NEW m \in Moves, NEW t \in Threads, MoveAnswers(m, t) PROVE IInv'
  <1>1. PICK bad \in SUBSET Threads :
              moves' = [moves EXCEPT ![m] = [moves[m] EXCEPT !.left = @ \ {t}, !.bad = bad]]
    <2>1. moves[m] \in MoveOf
          BY DEF IInv, TypeOK, MovesOK
    <2>2. /\ moves[m].bad \in SUBSET Threads
          /\ [moves[m] EXCEPT !.left = @ \ {t}]
                = [moves[m] EXCEPT !.left = @ \ {t}, !.bad = moves[m].bad]
          BY <2>1 DEF MoveOf
    <2>3. CASE moves' = [moves EXCEPT ![m].left = @ \ {t}]
      <3>1. moves' = [moves EXCEPT ![m] = [moves[m] EXCEPT !.left = @ \ {t}]]
            BY <2>3
      <3>. QED  BY <2>2, <3>1
    <2>4. CASE moves' = [moves EXCEPT ![m].left = @ \ {t}, ![m].bad = @ \cup {t}]
      <3>1. moves' = [moves EXCEPT ![m] = [moves[m] EXCEPT !.left = @ \ {t},
                                                         !.bad = moves[m].bad \cup {t}]]
            BY <2>4, <2>1 DEF IInv, TypeOK, MovesOK, MoveOf
      <3>2. moves[m].bad \cup {t} \in SUBSET Threads
            BY <2>2
      <3>. QED  BY <3>1, <3>2
    <2>. QED  BY <2>3, <2>4 DEF MoveAnswers
  <1>. DEFINE l == [moves[m] EXCEPT !.left = @ \ {t}, !.bad = bad]
  <1>2. l \in MoveOf /\ l.at = "sent" /\ l.all = moves[m].all /\ l.twice = moves[m].twice
        BY DEF IInv, TypeOK, MovesOK, MoveOf, MoveAnswers
  <1>3. moves' = [moves EXCEPT ![m] = l]
        BY <1>1
  <1>. HIDE DEF l
  <1>4. MovesOK' /\ Busy' /\ Owned' /\ Claimed' /\ Hidden' = Hidden
        BY <1>2, <1>3, StaysInFlight DEF MoveAnswers
  <1>5. store' \in [Threads -> Records]
    <2>1. store' = store \/ store' = [store EXCEPT ![t].view = Away]
          BY DEF MoveAnswers
    <2>. QED  BY <2>1 DEF IInv, TypeOK, CatalogueOK, Records, Places
  <1>6. TypeOK'
        BY <1>4, <1>5 DEF IInv, MoveAnswers, lists, asides, TypeOK, CatalogueOK, ListOK, MovesOK, MarksOK, OthersOK
  <1>7. Aimed' /\ Alone' /\ HidesAll'
        BY <1>4 DEF IInv, MoveAnswers, lists, asides, Aimed, Alone, HidesAll, OnePage
  <1>. QED  BY <1>4, <1>6, <1>7 DEF IInv

LEMMA RestoreKeeps ==
    ASSUME IInv, NEW m \in Moves, Restore(m) PROVE IInv'
  <1>. DEFINE l == [moves[m] EXCEPT !.at = "restoring"]
              was == Only(moves[m].orig, moves[m].bad)
  <1>1. moves[m] \in MoveOf /\ moves[m].at = "sent" /\ rows \in RowSets
        BY DEF IInv, TypeOK, MovesOK, ListOK, Restore, asides
  <1>2. l \in MoveOf /\ l.at = "restoring" /\ l.all = moves[m].all /\ l.twice = moves[m].twice
        BY <1>1 DEF MoveOf
  <1>3. moves' = [moves EXCEPT ![m] = l]
        BY DEF Restore, asides
  <1>. HIDE DEF l
  <1>4. MovesOK' /\ Busy' /\ Owned' /\ Claimed' /\ Hidden' = Hidden
        BY <1>1, <1>2, <1>3, StaysInFlight DEF Restore, asides
  <1>5. was \in RowSets /\ DOMAIN was \subseteq moves[m].bad /\ moves[m].bad \subseteq Threads
    <2>1. moves[m].orig \in RowSets /\ moves[m].bad \in SUBSET Threads
          BY <1>1 DEF MoveOf
    <2>2. was \in RowSets /\ DOMAIN was = DOMAIN moves[m].orig \cap moves[m].bad
          BY <2>1, OnlyRows
    <2>. QED  BY <2>1, <2>2
  <1>6. Merged(was, rows) \in RowSets /\ DOMAIN Merged(was, rows) = DOMAIN was \cup DOMAIN rows
        BY <1>1, <1>5, MergedRows
  <1>. HIDE DEF was
  <1>7. rows' = Merged(was, rows) /\ back' = back \cup moves[m].bad
        BY DEF Restore, asides, was
  <1>8. TypeOK'
        BY <1>4, <1>5, <1>6, <1>7 DEF IInv, Restore, asides, TypeOK, CatalogueOK, ListOK, MovesOK, MarksOK, OthersOK
  <1>9. Aimed' /\ Alone'
        BY DEF IInv, Restore, asides, Aimed, Alone, OnePage
  <1>10. HidesAll'
         BY <1>4, <1>5, <1>6, <1>7 DEF IInv, Restore, asides, HidesAll, OnePage
  <1>. QED  BY <1>4, <1>8, <1>9, <1>10 DEF IInv

(* The last move to end loads the list; while there are others, the list is *)
(* still about to be loaded.                                                *)
LEMMA EndMoveKeeps ==
    ASSUME IInv, NEW m \in Moves, moves[m].at # "idle", EndMove(m),
           UNCHANGED <<store, view, rows, cursor, marks, latest, erase, sweep, notice, accounts,
                       back, astray>>
    PROVE  IInv'
  <1>1. NoMove \in MoveOf /\ NoMove.at = "idle" /\ NoMove.all = {}
        BY NoRowsAre DEF NoMove, MoveOf
  <1>2. /\ moves' \in [Moves -> MoveOf] /\ moves'[m] = NoMove
        /\ \A o \in Moves \ {m} : moves'[o] = moves[o]
        /\ moving' = moving \ moves[m].all
        BY <1>1 DEF IInv, TypeOK, MovesOK, EndMove
  <1>3. /\ (Busy \/ Right)' /\ Aimed' /\ Alone'
        /\ load' \in Loads /\ more' \in Mores /\ loading' \in BOOLEAN
        /\ jumps' \in [Jumps -> JumpOf] /\ marked' \in SUBSET Threads
    <2>1. CASE LastMove(m)
      <3>1. LoadMessages(view') /\ view' \in Views
            BY <2>1 DEF EndMove, IInv, TypeOK, CatalogueOK
      <3>. QED  BY <3>1, Reloads
    <2>2. CASE ~LastMove(m)
      <3>1. PICK o \in Moves \ {m} : moves[o].at # "idle"
            BY <2>2 DEF LastMove
      <3>2. Busy'
            BY <1>2, <3>1 DEF Busy
      <3>. QED  BY <2>2, <3>2 DEF IInv, TypeOK, ListOK, EndMove, Aimed, Alone, OnePage
    <2>. QED  BY <2>1, <2>2
  <1>4. TypeOK'
        BY <1>2, <1>3 DEF IInv, TypeOK, CatalogueOK, ListOK, MovesOK, MarksOK, OthersOK
  <1>5. Owned'
    <2>1. ASSUME NEW t \in moving' PROVE t \in InFlight'
      <3>1. PICK o \in Moves : t \in moves[o].all
            BY <1>2 DEF IInv, Owned, InFlight
      <3>2. o # m
            BY <1>2, <3>1
      <3>. QED  BY <1>2, <3>1, <3>2 DEF InFlight
    <2>. QED  BY <2>1 DEF Owned
  <1>6. Claimed'
    <2>1. ASSUME NEW o \in Moves PROVE moves'[o].all \subseteq moving' \cup moves'[o].twice
      <3>1. CASE o = m
            BY <1>1, <1>2, <3>1
      <3>2. CASE o # m
            BY <1>2, <3>2 DEF IInv, Claimed
      <3>. QED  BY <3>1, <3>2
    <2>2. ASSUME NEW o \in Moves, NEW p \in Moves, o # p
          PROVE  moves'[o].all \cap moves'[p].all \subseteq moves'[o].twice
      <3>1. CASE o = m \/ p = m
            BY <1>1, <1>2, <2>2, <3>1
      <3>2. CASE o # m /\ p # m
            BY <1>2, <2>2, <3>2 DEF IInv, Claimed
      <3>. QED  BY <3>1, <3>2
    <2>. QED  BY <2>1, <2>2 DEF Claimed
  <1>7. HidesAll'
        BY <1>2 DEF IInv, HidesAll, Hidden, OnePage
  <1>. QED  BY <1>3, <1>4, <1>5, <1>6, <1>7 DEF IInv

LEMMA MovedKeeps ==
    ASSUME IInv, NEW m \in Moves, Moved(m) \/ Restored(m) PROVE IInv'
  BY EndMoveKeeps DEF Moved, Restored

-----------------------------------------------------------------------------
(* Marks *)

LEMMA MarkKeeps ==
    ASSUME IInv, NEW r \in Marks, NEW t \in Threads, Mark(r, t) PROVE IInv'
  <1>. DEFINE new == [NoMark EXCEPT !.at = "sent", !.thread = t, !.was = Record(t), !.orig = rows]
  <1>1. /\ rows \in RowSets /\ marks \in [Marks -> MarkOf] /\ marks[r].at = "idle"
        /\ latest \in [Threads -> Marks \cup {Nobody}]
        BY DEF IInv, TypeOK, ListOK, MarksOK, Mark
  <1>2. Record(t) \in Records
        BY <1>1, RowsAre DEF Record, IInv, TypeOK, CatalogueOK
  <1>3. new \in MarkOf /\ new.at = "sent" /\ new.thread = t /\ new.orig = rows /\ ~new.ok
        BY <1>1, <1>2 DEF NoMark, MarkOf, Cursors
  <1>4. marks' = [marks EXCEPT ![r] = new] /\ latest' = [latest EXCEPT ![t] = r]
        BY DEF Mark
  <1>. HIDE DEF new
  <1>5. MarksOK'
        BY <1>1, <1>3, <1>4 DEF IInv, TypeOK, MarksOK
  <1>6. /\ rows' \in RowSets /\ DOMAIN rows' \subseteq DOMAIN rows
        /\ DOMAIN rows \ {t} \subseteq DOMAIN rows'
        /\ t \in DOMAIN rows => t \in DOMAIN rows' \/ view \in Unread
    <2>1. CASE rows' = Without(rows, {t}) /\ view \in Unread
          BY <1>1, <2>1, WithoutRows
    <2>. DEFINE set == [s \in DOMAIN rows |-> IF s = t THEN [rows[s] EXCEPT !.read = ~@] ELSE rows[s]]
    <2>2. CASE rows' = set
      <3>1. DOMAIN rows \subseteq Threads /\ \A s \in DOMAIN rows : rows[s] \in Records
            BY <1>1, RowsAre
      <3>2. \A q \in Records : [q EXCEPT !.read = ~q.read] \in Records
            BY DEF Records
      <3>3. set \in [DOMAIN rows -> Records] /\ DOMAIN set = DOMAIN rows
            BY <3>1, <3>2
      <3>. HIDE DEF set
      <3>. QED  BY <2>2, <3>1, <3>3, RowsAre
    <2>. QED  BY <2>1, <2>2 DEF Mark
  <1>7. marked' \in SUBSET Threads /\ marked \subseteq marked'
        BY DEF IInv, TypeOK, ListOK, Mark
  <1>8. TypeOK'
        BY <1>5, <1>6, <1>7 DEF IInv, Mark, TypeOK, CatalogueOK, ListOK, MovesOK, OthersOK
  <1>9. Aimed' /\ Alone'
        BY DEF IInv, Mark, Aimed, Alone, OnePage
  <1>10. ASSUME ~Busy' PROVE Right'
    <2>1. Right
          BY <1>10 DEF IInv, Mark, Busy
    <2>2. Here' = Here /\ Excused \subseteq Excused'
          BY <1>7 DEF Here, Listed, Excused, Mark
    <2>3. ASSUME NEW s \in Owed, s # t PROVE s \in Owed'
      <3>1. PICK q \in Marks : Pending(q, s)
            BY DEF Owed
      <3>2. q # r /\ latest'[s] = latest[s] /\ marks'[q] = marks[q] /\ s \in Threads
            BY <1>1, <1>4, <2>3, <3>1 DEF Pending, Owed
      <3>3. Pending(q, s)'
            BY <3>1, <3>2 DEF Pending, StillThere, Mark
      <3>. QED  BY <2>3, <3>2, <3>3 DEF Owed, Mark
    <2>4. t \in DOMAIN rows /\ view \in Unread => t \in Owed'
      <3>1. t \in DOMAIN rows => Pending(r, t)'
            BY <1>1, <1>3, <1>4 DEF Pending
      <3>. QED  BY <3>1 DEF Owed, Mark
    <2>5. t \notin DOMAIN rows /\ view \in Unread => t \in Excused'
          BY DEF Excused, Mark
    <2>6. DOMAIN rows \cup Owed \subseteq DOMAIN rows' \cup Owed' \cup Excused'
          BY <1>6, <2>3, <2>4, <2>5 DEF Owed
    <2>. QED  BY <1>6, <1>7, <2>1, <2>2, <2>6, RightStays DEF Mark
  <1>11. Owned' /\ HidesAll' /\ Claimed'
         BY <1>6, SameActions DEF IInv, HidesAll, Mark
  <1>. QED  BY <1>8, <1>9, <1>10, <1>11 DEF IInv

(* A step of a change of the flag, which leaves the list alone.             *)
LEMMA FlagSteps ==
    ASSUME IInv, TypeOK', marked \subseteq marked',
           ~Busy => /\ Here' \subseteq Here \cup Excused' /\ Here \subseteq Here' \cup Excused'
                    /\ Owed \subseteq Owed' \cup Excused',
           UNCHANGED <<view, rows, cursor, loading, load, more, back, jumps, astray, moves, moving,
                       erase, sweep, notice, accounts>>
    PROVE  IInv'
  <1>1. ASSUME ~Busy' PROVE Right'
    <2>1. ~Busy
          BY <1>1 DEF Busy
    <2>. QED  BY <2>1, RightStays DEF IInv
  <1>2. Aimed' /\ Alone'
        BY DEF IInv, Aimed, Alone, OnePage
  <1>3. Owned' /\ HidesAll' /\ Claimed'
        BY SameActions DEF IInv, HidesAll
  <1>. QED  BY <1>1, <1>2, <1>3 DEF IInv

LEMMA MarkFindsKeeps ==
    ASSUME IInv, NEW r \in Marks, MarkFinds(r) PROVE IInv'
  <1>. DEFINE t == marks[r].thread
              at == IF StillThere(marks[r].was, t) THEN "found" ELSE "answered"
  <1>1. /\ marks \in [Marks -> MarkOf] /\ marks' = [marks EXCEPT ![r].at = at]
        /\ marks[r].at = "sent" /\ ~marks[r].ok
        BY DEF MarkFinds, IInv, TypeOK, MarksOK
  <1>2. at \in {"found", "answered"} /\ (at = "found" => StillThere(marks[r].was, t))
        OBVIOUS
  <1>. HIDE DEF at
  <1>3. /\ marks' \in [Marks -> MarkOf] /\ \A q \in Marks \ {r} : marks'[q] = marks[q]
        /\ marks'[r] = [marks[r] EXCEPT !.at = at]
        BY <1>1, <1>2 DEF MarkOf
  <1>4. MarksOK'
        BY <1>1, <1>3 DEF IInv, TypeOK, MarksOK, MarkOf, MarkFinds
  <1>5. TypeOK'
        BY <1>4 DEF IInv, MarkFinds, lists, asides, TypeOK, CatalogueOK, ListOK, MovesOK, OthersOK
  <1>6. \A q \in Marks : \A s : Pending(q, s) => Pending(q, s)'
        BY <1>1, <1>2, <1>3 DEF Pending, StillThere, MarkFinds, MarkOf
  <1>7. Here' = Here /\ Owed \subseteq Owed'
        BY <1>6 DEF Here, Listed, Owed, MarkFinds
  <1>. QED  BY <1>5, <1>7, FlagSteps DEF MarkFinds, lists, asides

LEMMA MarkAnswersKeeps ==
    ASSUME IInv, NEW r \in Marks, MarkAnswers(r) PROVE IInv'
  <1>. DEFINE t == marks[r].thread
              was == marks[r].was
  <1>1. /\ marks \in [Marks -> MarkOf] /\ t \in Threads /\ was \in Records
        /\ marks[r].at = "found" /\ ~marks[r].ok
        BY DEF IInv, TypeOK, MarksOK, MarkOf, MarkAnswers
  <1>2. store \in [Threads -> Records] /\ marked \in SUBSET Threads
        BY DEF IInv, TypeOK, CatalogueOK, ListOK
  <1>3. \/ store' = [store EXCEPT ![t].read = ~was.read] /\ marked' = marked \cup {t}
        \/ UNCHANGED <<store, marked>>
        BY DEF MarkAnswers
  <1>4. PICK ok \in BOOLEAN :
              /\ marks' = [marks EXCEPT ![r] = [marks[r] EXCEPT !.at = "answered", !.ok = ok]]
              /\ ok /\ StillThere(was, t) => t \in marked'
    <2>1. marks[r] = [marks[r] EXCEPT !.ok = FALSE]
          BY <1>1 DEF MarkOf
    <2>2. CASE marks' = [marks EXCEPT ![r].at = "answered", ![r].ok = TRUE]
      <3>1. marks' = [marks EXCEPT ![r] = [marks[r] EXCEPT !.at = "answered", !.ok = TRUE]]
            BY <1>1, <2>2 DEF MarkOf
      <3>2. CASE StillThere(was, t) => t \in marked'
            BY <3>1, <3>2
      <3>3. CASE ~(StillThere(was, t) => t \in marked')
        <4>1. marks' = [marks EXCEPT ![r].at = "answered"]
              BY <3>3 DEF MarkAnswers
        <4>2. marks' = [marks EXCEPT ![r] = [marks[r] EXCEPT !.at = "answered", !.ok = FALSE]]
              BY <1>1, <2>1, <4>1 DEF MarkOf
        <4>. QED  BY <4>2
      <3>. QED  BY <3>2, <3>3
    <2>3. CASE marks' = [marks EXCEPT ![r].at = "answered"]
      <3>1. marks' = [marks EXCEPT ![r] = [marks[r] EXCEPT !.at = "answered", !.ok = FALSE]]
            BY <1>1, <2>1, <2>3 DEF MarkOf
      <3>. QED  BY <3>1
    <2>. QED  BY <2>2, <2>3 DEF MarkAnswers
  <1>5. /\ marks' \in [Marks -> MarkOf] /\ \A q \in Marks \ {r} : marks'[q] = marks[q]
        /\ marks'[r].at = "answered" /\ marks'[r].ok = ok /\ marks'[r].thread = t
        /\ marks'[r].orig = marks[r].orig
        BY <1>1, <1>4 DEF MarkOf
  <1>6. MarksOK'
        BY <1>1, <1>5 DEF IInv, TypeOK, MarksOK, MarkAnswers
  <1>. HIDE DEF t, was
  <1>7. /\ store' \in [Threads -> Records] /\ marked' \in SUBSET Threads /\ marked \subseteq marked'
        /\ \A s \in Threads : store'[s].view = store[s].view
        /\ \A s \in Threads : s \in marked' \/ store'[s] = store[s]
    <2>1. CASE store' = [store EXCEPT ![t].read = ~was.read] /\ marked' = marked \cup {t}
          BY <1>1, <1>2, <2>1 DEF Records
    <2>. QED  BY <1>2, <1>3, <2>1
  <1>8. TypeOK'
        BY <1>6, <1>7 DEF IInv, MarkAnswers, TypeOK, CatalogueOK, ListOK, MovesOK, OthersOK
  <1>9. Here' \subseteq Here \cup Excused' /\ Here \subseteq Here' \cup Excused'
    <2>1. CASE view \in Unread
          BY <1>7, <2>1 DEF Here, Listed, Excused, MarkAnswers
    <2>2. CASE view \notin Unread
          BY <1>7, <2>2 DEF Here, Listed, Excused, MarkAnswers
    <2>. QED  BY <2>1, <2>2
  <1>10. Owed \subseteq Owed' \cup Excused'
    <2>1. SUFFICES ASSUME NEW s \in Owed, s \notin marked' PROVE s \in Owed'
          BY DEF Owed, Excused, MarkAnswers
    <2>2. PICK q \in Marks : Pending(q, s)
          BY DEF Owed
    <2>3. CASE q = r
      <3>1. s = t /\ StillThere(was, t)
            BY <1>1, <2>2, <2>3 DEF Pending, t, was
      <3>2. ~ok
            BY <1>4, <2>1, <3>1 DEF t, was
      <3>. QED  BY <1>5, <2>2, <2>3, <3>1, <3>2 DEF Pending, Owed, MarkAnswers
    <2>4. CASE q # r
      <3>1. Pending(q, s)'
            BY <1>5, <1>7, <2>2, <2>4 DEF Pending, StillThere, Owed, MarkAnswers
      <3>. QED  BY <3>1 DEF Owed, MarkAnswers
    <2>. QED  BY <2>3, <2>4
  <1>. QED  BY <1>7, <1>8, <1>9, <1>10, FlagSteps DEF MarkAnswers

LEMMA MarkedKeeps ==
    ASSUME IInv, NEW r \in Marks, Marked(r) PROVE IInv'
  <1>. DEFINE t == marks[r].thread
  <1>1. NoMark \in MarkOf /\ NoMark.at = "idle" /\ marks' = [marks EXCEPT ![r] = NoMark]
        BY NoRowsAre DEF NoMark, Gone, Records, Places, MarkOf, Cursors, Marked, asides
  <1>2. MarksOK'
        BY <1>1 DEF IInv, TypeOK, MarksOK, Marked
  <1>3. /\ rows' \in RowSets /\ back' \in SUBSET Threads
        /\ DOMAIN rows \subseteq DOMAIN rows' /\ back \subseteq back'
        /\ DOMAIN rows' \cap Hidden \subseteq (DOMAIN rows \cap Hidden) \cup back'
        /\ DOMAIN rows' \subseteq DOMAIN rows \cup back'
    <2>1. CASE UNCHANGED <<rows, back>>
          BY <2>1 DEF IInv, TypeOK, ListOK
    <2>2. CASE rows' = Undone(r, t) /\ back' = back \cup {t}
      <3>1. /\ Undone(r, t) \in RowSets
            /\ DOMAIN rows \subseteq DOMAIN Undone(r, t)
            /\ DOMAIN Undone(r, t) \subseteq DOMAIN rows \cup {t}
            /\ t \in Threads
            BY UndoneRows DEF IInv, Marked, asides
      <3>. QED  BY <2>2, <3>1 DEF IInv, TypeOK, ListOK
    <2>. QED  BY <2>1, <2>2 DEF Marked, asides
  <1>4. TypeOK'
        BY <1>2, <1>3 DEF IInv, Marked, asides, TypeOK, CatalogueOK, ListOK, MovesOK, OthersOK
  <1>5. (Busy \/ Right)' /\ Aimed' /\ Alone'
    <2>1. Aimed' /\ Alone'
          BY DEF IInv, Marked, asides, Aimed, Alone, OnePage
    <2>2. ASSUME ~Busy' PROVE Right'
      <3>1. ~Busy /\ Right /\ moving = {}
            BY <2>2, NothingHidden DEF IInv, Marked, Busy, Hidden
      <3>2. Here' = Here /\ Excused' = Excused
            BY DEF Here, Listed, Excused, Marked, asides
      <3>3. ASSUME NEW s \in Owed PROVE s \in DOMAIN rows' \cup Owed'
        <4>1. PICK q \in Marks : Pending(q, s) /\ s \in Threads /\ view \in Unread
              BY DEF Owed
        <4>2. CASE q = r
          <5>1. s = t /\ rows' = Undone(r, t) /\ t \in DOMAIN marks[r].orig \ moving
                BY <3>1, <4>1, <4>2 DEF Pending, Marked
          <5>. QED  BY <5>1, UndoneRows DEF IInv, Marked
        <4>3. CASE q # r
          <5>1. marks'[q] = marks[q] /\ latest'[s] = latest[s]
                BY <4>1, <4>3 DEF Pending, Marked, IInv, TypeOK, MarksOK
          <5>2. Pending(q, s)'
                BY <4>1, <5>1 DEF Pending, StillThere, Marked
          <5>. QED  BY <4>1, <5>2 DEF Owed, Marked
        <4>. QED  BY <4>2, <4>3
      <3>. QED  BY <1>3, <3>1, <3>2, <3>3, RightStays DEF Marked, asides
    <2>. QED  BY <2>1, <2>2
  <1>6. Owned' /\ HidesAll' /\ Claimed'
        BY <1>3, SameActions DEF IInv, HidesAll, Marked, asides
  <1>. QED  BY <1>4, <1>5, <1>6 DEF IInv

-----------------------------------------------------------------------------
(* Deleting for good *)

LEMMA DeleteKeeps ==
    ASSUME IInv, NEW t \in Threads, Delete(t) PROVE IInv'
  <1>1. erase' \in Erases /\ erase'.at = "sent"
    <2>1. rows[t].view \in Places
          BY RowsAre DEF IInv, TypeOK, ListOK, Delete, Records
    <2>. QED  BY <2>1 DEF Delete, Erases, Cursors
  <1>2. TypeOK'
        BY <1>1 DEF IInv, Delete, lists, asides, TypeOK, CatalogueOK, ListOK, MovesOK, MarksOK, OthersOK
  <1>3. (Busy \/ Right)' /\ Aimed' /\ Alone'
    <2>1. Here' = Here /\ Excused' = Excused /\ Owed' = Owed /\ OnePage' = OnePage
          BY SameHere DEF Delete, lists, asides
    <2>. QED  BY <1>1, <2>1, RightStays DEF IInv, Delete, lists, asides, Busy, Aimed, Alone
  <1>4. Owned' /\ HidesAll' /\ Claimed'
        BY SameActions DEF IInv, HidesAll, Delete, lists, asides
  <1>. QED  BY <1>2, <1>3, <1>4 DEF IInv

LEMMA DeleteAnswersKeeps ==
    ASSUME IInv, DeleteAnswers PROVE IInv'
  <1>1. erase' \in Erases /\ erase'.at = "answered" /\ erase.at = "sent"
        /\ (~erase'.ok => UNCHANGED store)
        BY DEF IInv, TypeOK, OthersOK, Erases, DeleteAnswers
  <1>2. store' \in [Threads -> Records]
    <2>1. store' = store \/ store' = [store EXCEPT ![erase.thread].view = Away]
          BY DEF DeleteAnswers
    <2>. QED  BY <2>1 DEF IInv, TypeOK, CatalogueOK, Records, Places
  <1>3. TypeOK'
        BY <1>1, <1>2 DEF IInv, DeleteAnswers, lists, asides, TypeOK, CatalogueOK, ListOK, MovesOK, MarksOK, OthersOK
  <1>4. Aimed' /\ Alone'
        BY DEF IInv, DeleteAnswers, lists, asides, Aimed, Alone, OnePage
  <1>5. ASSUME ~Busy' PROVE Right'
    <2>1. UNCHANGED store /\ ~Busy
          BY <1>1, <1>5 DEF Busy, DeleteAnswers
    <2>2. Here' = Here /\ Excused' = Excused /\ Owed' = Owed
          BY <2>1, SameHere DEF DeleteAnswers, lists, asides
    <2>. QED  BY <2>1, <2>2, RightStays DEF IInv, DeleteAnswers, lists, asides
  <1>6. Owned' /\ HidesAll' /\ Claimed'
        BY SameActions DEF IInv, HidesAll, DeleteAnswers, lists, asides
  <1>. QED  BY <1>3, <1>4, <1>5, <1>6 DEF IInv

LEMMA DeletedKeeps ==
    ASSUME IInv, Deleted PROVE IInv'
  <1>1. NoErase \in Erases /\ NoErase.at = "idle"
        BY DEF NoErase, Erases, Places, Cursors
  <1>2. CASE erase.ok
    <2>. DEFINE gone == {t \in DOMAIN rows : t = erase.thread /\ rows[t].view = erase.from}
    <2>1. rows' \in RowSets /\ DOMAIN rows' = DOMAIN rows \ gone
          BY <1>2, WithoutRows DEF IInv, TypeOK, ListOK, Deleted
    <2>2. /\ Right' /\ Aimed' /\ Alone'
          /\ load' \in Loads /\ more' \in Mores /\ loading' \in BOOLEAN
          /\ jumps' \in [Jumps -> JumpOf] /\ marked' \in SUBSET Threads
          BY <1>2, Reloads DEF Deleted, IInv, TypeOK, CatalogueOK
    <2>. HIDE DEF gone
    <2>3. TypeOK'
          BY <1>1, <2>1, <2>2 DEF IInv, Deleted, TypeOK, CatalogueOK, ListOK, MovesOK, MarksOK, OthersOK
    <2>4. Owned' /\ HidesAll' /\ Claimed'
          BY <2>1, SameActions DEF IInv, HidesAll, Deleted
    <2>. QED  BY <2>2, <2>3, <2>4 DEF IInv
  <1>3. CASE ~erase.ok
    <2>1. TypeOK'
          BY <1>1, <1>3 DEF IInv, Deleted, TypeOK, CatalogueOK, ListOK, MovesOK, MarksOK, OthersOK
    <2>2. Aimed' /\ Alone'
          BY <1>3 DEF IInv, Deleted, Aimed, Alone, OnePage
    <2>3. ASSUME ~Busy' PROVE Right'
      <3>1. ~Busy
            BY <1>3, <2>3 DEF Busy, Deleted
      <3>2. Here' = Here /\ Excused' = Excused /\ Owed' = Owed
            BY <1>3, SameHere DEF Deleted
      <3>. QED  BY <1>3, <3>1, <3>2, RightStays DEF IInv, Deleted
    <2>4. Owned' /\ HidesAll' /\ Claimed'
          BY <1>3, SameActions DEF IInv, HidesAll, Deleted
    <2>. QED  BY <2>1, <2>2, <2>3, <2>4 DEF IInv
  <1>. QED  BY <1>2, <1>3

-----------------------------------------------------------------------------
(* Cleaning up a sender *)

LEMMA SweepKeeps ==
    ASSUME IInv, NEW s, Sweep(s) PROVE IInv'
  <1>. DEFINE S == {t \in Threads : Sender[t] = s}
              new == [NoSweep EXCEPT !.at = "sent", !.of = S, !.view = view, !.orig = rows]
  <1>1. rows \in RowSets /\ view \in Places /\ S \in SUBSET Threads
        BY DEF IInv, TypeOK, CatalogueOK, ListOK, Places
  <1>. HIDE DEF S
  <1>2. new \in Sweeps /\ new.at = "sent" /\ new.of = S
        BY <1>1 DEF NoSweep, Sweeps
  <1>3. sweep' = new /\ rows' = Without(rows, S) /\ sweep.of = {}
        BY DEF Sweep, S, IInv, TypeOK, OthersOK
  <1>. HIDE DEF new
  <1>4. rows' \in RowSets /\ DOMAIN rows' = DOMAIN rows \ S
        BY <1>1, <1>3, WithoutRows
  <1>5. /\ load' \in Loads /\ more' \in Mores /\ load'.at = "none" /\ load'.next = 0
        /\ ~more'.fresh /\ more'.at = more.at
        /\ jumps' \in [Jumps -> JumpOf]
        /\ \A j \in Jumps : ~jumps'[j].fresh /\ jumps'[j].next = jumps[j].next
        BY InvalidateTypes, OutdatedJumps DEF IInv, Sweep
  <1>6. TypeOK'
        BY <1>2, <1>3, <1>4, <1>5 DEF IInv, Sweep, TypeOK, CatalogueOK, ListOK, MovesOK, MarksOK, OthersOK
  <1>7. Busy' /\ Aimed' /\ Alone'
        BY <1>2, <1>3, <1>5 DEF IInv, Sweep, Busy, Aimed, Alone, OnePage
  <1>8. Owned' /\ Claimed'
        BY DEF IInv, Sweep, Owned, Claimed, InFlight
  <1>9. HidesAll'
        BY <1>2, <1>3, <1>4 DEF IInv, Sweep, HidesAll, Hidden, OnePage
  <1>. QED  BY <1>6, <1>7, <1>8, <1>9 DEF IInv

LEMMA SweepAnswersKeeps ==
    ASSUME IInv, SweepAnswers PROVE IInv'
  <1>1. PICK S \in SUBSET Threads :
              store' = [t \in Threads |-> IF t \in S THEN [store[t] EXCEPT !.view = Away] ELSE store[t]]
        BY DEF SweepAnswers, IInv, TypeOK, OthersOK, Sweeps
  <1>2. store' \in [Threads -> Records]
    <2>1. \A t \in Threads : store[t] \in Records /\ [store[t] EXCEPT !.view = Away] \in Records
          BY DEF IInv, TypeOK, CatalogueOK, Records, Places
    <2>. QED  BY <1>1, <2>1
  <1>3. sweep' \in Sweeps /\ sweep'.at = "answered" /\ sweep'.of = sweep.of
        BY DEF SweepAnswers, IInv, TypeOK, OthersOK, Sweeps
  <1>4. TypeOK'
        BY <1>2, <1>3 DEF IInv, SweepAnswers, lists, asides, TypeOK, CatalogueOK, ListOK, MovesOK, MarksOK, OthersOK
  <1>5. Busy' /\ Aimed' /\ Alone'
        BY <1>3 DEF IInv, SweepAnswers, lists, asides, Busy, Aimed, Alone, OnePage
  <1>6. Owned' /\ HidesAll' /\ Claimed'
        BY <1>3 DEF IInv, SweepAnswers, lists, asides, Owned, HidesAll, Claimed, InFlight, Hidden, OnePage
  <1>. QED  BY <1>4, <1>5, <1>6 DEF IInv

LEMMA SweptKeeps ==
    ASSUME IInv, Swept PROVE IInv'
  <1>. DEFINE was == Only(sweep.orig, sweep.of)
  <1>1. sweep \in Sweeps /\ rows \in RowSets /\ back \in SUBSET Threads
        BY DEF IInv, TypeOK, ListOK, OthersOK
  <1>2. sweep.orig \in RowSets /\ sweep.of \in SUBSET Threads
        BY <1>1 DEF Sweeps
  <1>3. was \in RowSets /\ DOMAIN was \subseteq sweep.of
        BY <1>2, OnlyRows
  <1>. HIDE DEF was
  <1>4. Merged(rows, was) \in RowSets /\ DOMAIN Merged(rows, was) = DOMAIN rows \cup DOMAIN was
        BY <1>1, <1>3, MergedRows
  <1>5. /\ rows' \in RowSets /\ back' \in SUBSET Threads
        /\ back \subseteq back' /\ DOMAIN rows' \subseteq DOMAIN rows \cup back'
    <2>1. CASE UNCHANGED <<rows, back>>
          BY <1>1, <2>1
    <2>2. CASE rows' = Merged(rows, was) /\ back' = back \cup sweep.of
          BY <1>1, <1>2, <1>3, <1>4, <2>2
    <2>. QED  BY <2>1, <2>2 DEF Swept, was
  <1>6. /\ Right' /\ Aimed' /\ Alone'
        /\ load' \in Loads /\ more' \in Mores /\ loading' \in BOOLEAN
        /\ jumps' \in [Jumps -> JumpOf] /\ marked' \in SUBSET Threads
        BY Reloads DEF Swept, IInv, TypeOK, CatalogueOK
  <1>7. sweep' \in Sweeps /\ sweep'.of = {}
        BY NoRowsAre DEF Swept, NoSweep, Sweeps, Places
  <1>8. TypeOK'
        BY <1>5, <1>6, <1>7 DEF IInv, Swept, TypeOK, CatalogueOK, ListOK, MovesOK, MarksOK, OthersOK
  <1>9. Owned' /\ Claimed'
        BY DEF IInv, Swept, Owned, Claimed, InFlight
  <1>10. HidesAll'
         BY <1>5, <1>7 DEF IInv, Swept, HidesAll, Hidden, OnePage
  <1>. QED  BY <1>6, <1>8, <1>9, <1>10 DEF IInv

-----------------------------------------------------------------------------
(* The theorem *)

LEMMA InitHolds ==
    ASSUME MailViewAssumption, Init PROVE IInv
  <1>1. store \in [Threads -> Records] /\ view \in Views /\ view \in Places
        BY DEF Init, MailViewAssumption, Records, Places
  <1>2. load \in Loads /\ load.at = "asked" /\ load.view = view /\ load.next = 0
        BY <1>1, NoRowsAre DEF Init, NoLoad, Loads, Places, Cursors
  <1>3. /\ more \in Mores /\ more.at = "idle"
        /\ NoJump \in JumpOf /\ ~NoJump.fresh /\ NoJump.next = 0
        BY NoRowsAre DEF Init, NoMore, Mores, NoJump, JumpOf, Places, Cursors
  <1>4. NoMove \in MoveOf /\ NoMove.all = {} /\ NoMark \in MarkOf /\ NoMark.at = "idle"
        BY NoRowsAre DEF NoMove, MoveOf, NoMark, MarkOf, Gone, Records, Places, Cursors
  <1>5. NoErase \in Erases /\ NoSweep \in Sweeps /\ NoSweep.of = {}
        BY NoRowsAre DEF NoErase, NoSweep, Erases, Sweeps, Places, Cursors
  <1>6. TypeOK
        BY <1>1, <1>2, <1>3, <1>4, <1>5, NoRowsAre DEF Init, Cursors, Phases, TypeOK, CatalogueOK, ListOK, MovesOK, MarksOK, OthersOK
  <1>7. Right /\ Aimed /\ Alone
        BY <1>2, <1>3 DEF Init, Right, Aimed, Alone
  <1>8. Owned /\ HidesAll /\ Claimed
        BY <1>4, NoRowsAre DEF Init, Owned, HidesAll, Claimed
  <1>. QED  BY <1>6, <1>7, <1>8 DEF IInv

LEMMA NextKeeps ==
    ASSUME MailViewAssumption, IInv, [Next]_vars PROVE IInv'
  <1>1. CASE UNCHANGED vars
    <2>1. TypeOK'
          BY <1>1 DEF vars, lists, asides, IInv, TypeOK, CatalogueOK, ListOK, MovesOK, MarksOK, OthersOK
    <2>2. Here' = Here /\ Owed' = Owed
          BY <1>1, SameHere DEF vars, lists, asides
    <2>. QED  BY <1>1, <2>1, <2>2, FlagSteps DEF vars, lists, asides
  <1>2. CASE Answers
        BY <1>2, SearchAnswersKeeps, SearchFailsKeeps, ShowPageKeeps, ServersAnswerKeeps,
           ServersFailKeeps, ShowFoundKeeps DEF Answers
  <1>3. CASE LoadMore \/ MoreAnswers \/ ShowMore
        BY <1>3, LoadMoreKeeps, MoreAnswersKeeps, ShowMoreKeeps
  <1>4. CASE (\E v \in Views : Switch(v)) \/ Change \/ MailChanged
        BY <1>4, SwitchKeeps, ChangeKeeps, MailChangedKeeps
  <1>5. ASSUME NEW m \in Moves, (\E S \in SUBSET Threads : Move(m, S)) \/ MovesOn(m)
        PROVE  IInv'
        BY <1>5, MoveKeeps, MoveAnswersKeeps, RestoreKeeps, MovedKeeps DEF MovesOn
  <1>6. ASSUME NEW r \in Marks, (\E t \in Threads : Mark(r, t)) \/ MarksOn(r)
        PROVE  IInv'
        BY <1>6, MarkKeeps, MarkFindsKeeps, MarkAnswersKeeps, MarkedKeeps DEF MarksOn
  <1>7. CASE (\E t \in Threads : Delete(t)) \/ DeletesOn
        BY <1>7, DeleteKeeps, DeleteAnswersKeeps, DeletedKeeps DEF DeletesOn
  <1>8. CASE (\E t \in Threads : Sweep(Sender[t])) \/ SweepsOn
        BY <1>8, SweepKeeps, SweepAnswersKeeps, SweptKeeps DEF SweepsOn
  <1>9. ASSUME NEW j \in Jumps, (\E v \in Views : Jump(j, v)) \/ JumpAnswers(j) \/ ShowJump(j)
        PROVE  IInv'
        BY <1>9, JumpKeeps, JumpAnswersKeeps, ShowJumpKeeps
  <1>10. ASSUME NEW a \in Accounts,
                Finding(a) \/ Rebuilt(a) \/ RemoveAccount(a) \/ AccountRemoved(a)
         PROVE  IInv'
         BY <1>10, FindingKeeps, RebuiltKeeps, RemoveAccountKeeps, AccountRemovedKeeps
  <1>. QED  BY <1>1, <1>2, <1>3, <1>4, <1>5, <1>6, <1>7, <1>8, <1>9, <1>10 DEF Next

(* Whatever the user does to the rows before the backend has answered, and  *)
(* in whatever order loads, further pages, notifications' inboxes, moves,   *)
(* flags, deletions and clean-ups are answered, and accounts rebuilt or     *)
(* removed: at rest the list is the one of its view, but for what a failure *)
(* put back and, in a view of what is unread, for flags set since it was    *)
(* asked for; and what is being acted on is not on screen.  All unless the  *)
(* list shows an inbox that came too late (loadMessages, loadMoreMessages,  *)
(* openNotification, applyAction, setThreadReadState,                       *)
(* permanentlyDeleteMessage, trashMessagesFromSender,                       *)
(* removeAccountFromMain).                                                  *)
THEOREM ListStaysRight ==
    ASSUME MailViewAssumption
    PROVE  Spec => [](ViewIsRight /\ ActedOnIsHidden)
  <1>1. Init => IInv
        BY InitHolds
  <1>2. IInv /\ [Next]_vars => IInv'
        BY NextKeeps
  <1>3. IInv => ViewIsRight
    <2>1. ASSUME IInv, AtRest PROVE ~Busy
          BY <2>1 DEF AtRest, Busy
    <2>2. ASSUME IInv, AtRest PROVE Owed = {}
          BY <2>2 DEF Owed, Pending, AtRest
    <2>. QED  BY <2>1, <2>2 DEF IInv, Right, ShowsView, Here, ViewIsRight, AtRest
  <1>4. IInv => ActedOnIsHidden
        BY DEF IInv, HidesAll, Claimed, Hidden, ActedOnIsHidden
  <1>. QED  BY <1>1, <1>2, <1>3, <1>4, PTL DEF Spec

-----------------------------------------------------------------------------
(* Conversations: the constants and variables of Threads *)

CONSTANTS Writers, Messages, Names, MaxLinks
VARIABLES header, alike, thread, plan

Conv == INSTANCE Threads

-----------------------------------------------------------------------------
(* Conversations: what unions make of rows *)

(* A set of rows that no pair crosses.                                      *)
Uncrossed(C, E) == \A e \in E : e[1] \in C <=> e[2] \in C

(* The groups are the parts that the pairs E connect.                       *)
Connects(S, E, g) ==
    /\ g \in [S -> S]
    /\ \A e \in E : g[e[1]] = g[e[2]]
    /\ \A i, j \in S : g[i] = g[j] =>
          \A C \in SUBSET S : Uncrossed(C, E) => (i \in C <=> j \in C)

LEMMA UnionConnects ==
    ASSUME NEW S, NEW E \in SUBSET (S \X S), NEW p \in S \X S, NEW g, Connects(S, E, g)
    PROVE  Connects(S, E \cup {p}, Conv!Union(p, g))
  <1>. DEFINE h == Conv!Union(p, g)
  <1>1. g \in [S -> S] /\ p[1] \in S /\ p[2] \in S
        BY DEF Connects
  <1>2. h = [k \in S |-> IF g[k] = g[p[2]] THEN g[p[1]] ELSE g[k]]
        BY <1>1 DEF Conv!Union
  <1>. HIDE DEF h
  <1>3. h \in [S -> S]
        BY <1>1, <1>2
  <1>4. \A e \in E \cup {p} : h[e[1]] = h[e[2]]
    <2>1. h[p[1]] = h[p[2]]
          BY <1>1, <1>2
    <2>2. \A e \in E : e[1] \in S /\ e[2] \in S
          OBVIOUS
    <2>3. \A e \in E : h[e[1]] = h[e[2]]
          BY <1>1, <1>2, <2>2 DEF Connects
    <2>. QED  BY <2>1, <2>3
  <1>5. ASSUME NEW i \in S, NEW j \in S, h[i] = h[j],
               NEW C \in SUBSET S, Uncrossed(C, E \cup {p})
        PROVE  i \in C <=> j \in C
    <2>1. Uncrossed(C, E) /\ (p[1] \in C <=> p[2] \in C)
          BY <1>5 DEF Uncrossed
    <2>2. \A a, b \in S : g[a] = g[b] => (a \in C <=> b \in C)
          BY <2>1 DEF Connects
    <2>3. \/ g[i] = g[j]
          \/ g[i] = g[p[2]] /\ g[j] = g[p[1]]
          \/ g[i] = g[p[1]] /\ g[j] = g[p[2]]
          BY <1>2, <1>5
    <2>. QED  BY <1>1, <2>1, <2>2, <2>3
  <1>. QED  BY <1>3, <1>4, <1>5 DEF Connects, h

(* FoldSet takes the pairs in some order, First by First.                   *)
First(s) == CHOOSE x \in s : TRUE
Folded(S, T, g) ==
    \A s \in T : g[s] = IF s = {} THEN [i \in S |-> i]
                        ELSE Conv!Union(First(s), g[s \ {First(s)}])
FoldOf(S, E, g) ==
    g = [s \in SUBSET E |-> IF s = {} THEN [i \in S |-> i]
                            ELSE Conv!Union(First(s), g[s \ {First(s)}])]

LEMMA GroupsUnfold ==
    ASSUME NEW S
    PROVE  Conv!Groups(S) = (CHOOSE g : FoldOf(S, Conv!Joins(S), g))[Conv!Joins(S)]
  BY Zenon DEF Conv!Groups, Conv!FoldSet, Conv!MapThenFoldSet, FoldOf, First

LEMMA FirstIn == ASSUME NEW s, s # {} PROVE First(s) \in s
  BY DEF First

LEMMA FoldExists ==
    ASSUME NEW S, NEW E, IsFiniteSet(E)
    PROVE  \E g : FoldOf(S, E, g)
  <1>. DEFINE Upto(n) == {s \in SUBSET E : Cardinality(s) <= n}
              Good(n, g) == g = [s \in Upto(n) |-> g[s]] /\ Folded(S, Upto(n), g)
              Bad == {n \in Nat : ~\E g : Good(n, g)}
  <1>1. \A s \in SUBSET E : IsFiniteSet(s) /\ Cardinality(s) \in Nat
        BY FS_Subset, FS_CardinalityType
  <1>3. Bad = {}
    <2>. SUFFICES ASSUME Bad # {} PROVE FALSE
         OBVIOUS
    <2>1. PICK n \in Bad : \A m \in Bad : n <= m
          BY LeastNat, Bad \in SUBSET Nat
    <2>2. CASE n = 0
      <3>1. Upto(0) = {{}}
            BY <1>1, FS_EmptySet
      <3>. DEFINE g == [s \in Upto(0) |-> [i \in S |-> i]]
      <3>2. Good(0, g)
            BY <3>1 DEF Folded
      <3>. QED  BY <2>1, <2>2, <3>2
    <2>3. CASE n # 0
      <3>1. n - 1 \in Nat /\ n - 1 \notin Bad
        <4>1. n \in Nat /\ n - 1 \in Nat /\ ~(n <= n - 1)
              BY <2>1, <2>3
        <4>. HIDE DEF Bad
        <4>. QED  BY <2>1, <4>1
      <3>2. PICK h : Good(n - 1, h)
            BY <3>1
      <3>. DEFINE g == [s \in Upto(n) |-> IF s = {} THEN [i \in S |-> i]
                                          ELSE Conv!Union(First(s), h[s \ {First(s)}])]
      <3>3. ASSUME NEW s \in Upto(n), s # {}
            PROVE  First(s) \in s /\ s \ {First(s)} \in Upto(n - 1)
        <4>1. First(s) \in s
              BY <3>3, FirstIn
        <4>2. Cardinality(s \ {First(s)}) = Cardinality(s) - 1
              BY <1>1, <4>1, FS_RemoveElement
        <4>. QED  BY <1>1, <3>1, <4>1, <4>2
      <3>4. ASSUME NEW s \in Upto(n - 1)
            PROVE  s \in Upto(n) /\ g[s] = h[s]
        <4>1. s \in Upto(n)
              BY <1>1, <3>1
        <4>. QED  BY <3>2, <4>1 DEF Folded
      <3>5. Folded(S, Upto(n), g)
        <4>. SUFFICES ASSUME NEW s \in Upto(n), s # {}
                      PROVE  h[s \ {First(s)}] = g[s \ {First(s)}]
             BY DEF Folded
        <4>. QED  BY <3>3, <3>4
      <3>7. g = [s \in Upto(n) |-> g[s]]
            OBVIOUS
      <3>8. Good(n, g)
            BY <3>5, <3>7
      <3>. QED  BY <2>1, <3>8
    <2>. QED  BY <2>2, <2>3
  <1>4. Cardinality(E) \in Nat /\ Upto(Cardinality(E)) = SUBSET E
        BY <1>1, FS_Subset
  <1>5. PICK g : Good(Cardinality(E), g)
        BY <1>3, <1>4
  <1>. DEFINE f == [s \in SUBSET E |-> IF s = {} THEN [i \in S |-> i]
                                      ELSE Conv!Union(First(s), g[s \ {First(s)}])]
  <1>6. g = [s \in SUBSET E |-> g[s]] /\ Folded(S, SUBSET E, g)
        BY <1>4, <1>5
  <1>7. \A s \in SUBSET E : g[s] = f[s]
        BY <1>6 DEF Folded
  <1>8. g = f
        BY <1>6, <1>7
  <1>. QED  BY <1>8, Zenon DEF FoldOf

LEMMA FoldConnects ==
    ASSUME NEW S, NEW E \in SUBSET (S \X S), IsFiniteSet(E), NEW g, FoldOf(S, E, g)
    PROVE  Connects(S, E, g[E])
  <1>. DEFINE Bad == {s \in SUBSET E : ~Connects(S, s, g[s])}
              Sizes == {Cardinality(s) : s \in Bad}
  <1>1. \A s \in SUBSET E : IsFiniteSet(s) /\ Cardinality(s) \in Nat
        BY FS_Subset, FS_CardinalityType
  <1>2. \A s \in SUBSET E : g[s] = IF s = {} THEN [i \in S |-> i]
                                    ELSE Conv!Union(First(s), g[s \ {First(s)}])
        BY Zenon DEF FoldOf
  <1>3. Bad = {}
    <2>. SUFFICES ASSUME Bad # {} PROVE FALSE
         OBVIOUS
    <2>1. Sizes \in SUBSET Nat /\ Sizes # {}
          BY <1>1
    <2>2. PICK n \in Sizes : \A m \in Sizes : n <= m
          BY <2>1, LeastNat
    <2>3. PICK s \in Bad : n = Cardinality(s)
          BY <2>2
    <2>4. s # {}
      <3>1. Connects(S, {}, [i \in S |-> i])
            BY DEF Connects
      <3>2. g[{}] = [i \in S |-> i]
            BY <1>2
      <3>. QED  BY <2>3, <3>1, <3>2
    <2>. DEFINE r == s \ {First(s)}
    <2>5. First(s) \in s /\ r \in SUBSET E /\ First(s) \in S \X S
          BY <2>3, <2>4, FirstIn
    <2>6. Connects(S, r, g[r])
      <3>1. Cardinality(r) = Cardinality(s) - 1 /\ Cardinality(s) \in Nat
        <4>1. IsFiniteSet(s) /\ Cardinality(s) \in Nat
              BY <1>1, <2>3
        <4>. QED  BY <2>5, <4>1, FS_RemoveElement
      <3>2. r \notin Bad
        <4>1. SUFFICES ASSUME r \in Bad PROVE FALSE
              OBVIOUS
        <4>2. Cardinality(r) \in Sizes
              BY <4>1
        <4>. HIDE DEF r, Sizes
        <4>3. Cardinality(s) <= Cardinality(r)
              BY <2>2, <2>3, <4>2
        <4>. QED  BY <3>1, <4>3
      <3>. QED  BY <2>5, <3>2
    <2>7. r \cup {First(s)} = s /\ r \in SUBSET (S \X S)
          BY <2>5
    <2>8. g[s] = Conv!Union(First(s), g[r])
          BY <1>2, <2>3, <2>4
    <2>9. Connects(S, s, g[s])
      <3>. HIDE DEF r
      <3>. QED  BY <2>5, <2>6, <2>7, <2>8, UnionConnects
    <2>. QED  BY <2>3, <2>9
  <1>. QED  BY <1>3

-----------------------------------------------------------------------------
(* The pairs that are joined connect all that belongs together *)

LEMMA ThreadRowsAre ==
    ASSUME Conv!ThreadsAssumption
    PROVE  /\ Messages \in Nat /\ \A i \in Conv!Rows : i \in Nat /\ i <= Messages
           /\ IsFiniteSet(Conv!Rows)
           /\ Names \cap Conv!Rows = {} /\ Conv!NoThread \notin Names
  <1>1. Messages \in Nat /\ Names \subseteq Nat \ (Conv!Rows \cup {Conv!NoThread})
        BY DEF Conv!ThreadsAssumption
  <1>2. IsFiniteSet(1..Messages)
        BY <1>1, FS_Interval
  <1>3. \A i \in 1..Messages : i \in Nat /\ i <= Messages
        BY <1>1
  <1>4. Messages \in Nat /\ Names \cap Conv!Rows = {} /\ Conv!NoThread \notin Names
        BY <1>1
  <1>5. IsFiniteSet(Conv!Rows) /\ \A i \in Conv!Rows : i \in Nat /\ i <= Messages
        BY <1>2, <1>3 DEF Conv!Rows
  <1>. QED  BY <1>4, <1>5

LEMMA LatestIs ==
    ASSUME Conv!ThreadsAssumption, NEW S \in SUBSET Conv!Rows
    PROVE  /\ S = {} => Conv!Latest(S) = {}
           /\ S # {} => \E i \in S : Conv!Latest(S) = {i} /\ \A j \in S : j <= i
           /\ Conv!Latest(S) \subseteq S
  <1>1. CASE S = {}
        BY <1>1 DEF Conv!Latest
  <1>2. CASE S # {}
    <2>1. S \in SUBSET Nat /\ Messages \in Nat /\ \A n \in S : n <= Messages
          BY ThreadRowsAre
    <2>2. \E i \in S : \A j \in S : j <= i
          BY <1>2, <2>1, GreatestNat
    <2>. DEFINE i == CHOOSE k \in S : \A j \in S : j <= k
    <2>3. i \in S /\ \A j \in S : j <= i
          BY <2>2
    <2>4. Conv!Latest(S) = {i}
          BY <1>2 DEF Conv!Latest
    <2>. HIDE DEF i
    <2>. QED  BY <1>2, <2>3, <2>4
  <1>. QED  BY <1>1, <1>2

LEMMA JoinsAre ==
    ASSUME Conv!ThreadsAssumption, NEW S \in SUBSET Conv!Rows
    PROVE  Conv!Joins(S) \in SUBSET (S \X S) /\ IsFiniteSet(S) /\ IsFiniteSet(Conv!Joins(S))
  <1>1. ASSUME NEW i \in S
        PROVE  Conv!ByName(S, i) \cup Conv!ByLink(S, i) \cup Conv!BySubject(S, i) \subseteq S
    <2>1. Conv!ByName(S, i) \subseteq S
      <3>. DEFINE T == {j \in Conv!Named(S, header[i].name) : j < i}
      <3>1. T \subseteq S
            BY DEF Conv!Named
      <3>2. Conv!Latest(T) \subseteq T
            BY <3>1, LatestIs
      <3>. QED  BY <3>1, <3>2 DEF Conv!ByName
    <2>2. \A n : Conv!Latest(Conv!Named(S, n)) \subseteq S
      <3>. TAKE n
      <3>1. Conv!Named(S, n) \subseteq S
            BY DEF Conv!Named
      <3>2. Conv!Latest(Conv!Named(S, n)) \subseteq Conv!Named(S, n)
            BY <3>1, LatestIs
      <3>. QED  BY <3>1, <3>2
    <2>3. \A n : Conv!Latest({j \in Conv!Linked(S, n) : j < i}) \subseteq S
      <3>. TAKE n
      <3>. DEFINE T == {j \in Conv!Linked(S, n) : j < i}
      <3>1. T \subseteq S
            BY DEF Conv!Linked
      <3>2. Conv!Latest(T) \subseteq T
            BY <3>1, LatestIs
      <3>. QED  BY <3>1, <3>2
    <2>4. Conv!ByLink(S, i) \subseteq S
          BY <2>2, <2>3 DEF Conv!ByLink
    <2>5. Conv!BySubject(S, i) \subseteq S
      <3>. DEFINE T == {j \in S : <<i, j>> \in alike}
      <3>1. Conv!Latest(T) \subseteq T
            BY LatestIs, T \subseteq S
      <3>. QED  BY <3>1 DEF Conv!BySubject
    <2>. QED  BY <2>1, <2>4, <2>5
  <1>2. Conv!Joins(S) \subseteq S \X S
        BY <1>1 DEF Conv!Joins
  <1>3. IsFiniteSet(S)
        BY ThreadRowsAre, FS_Subset
  <1>4. IsFiniteSet(S \X S)
        BY <1>3, FS_Product
  <1>. QED  BY <1>2, <1>3, <1>4, FS_Subset

(* A row is on the side of every row it joins.                              *)
LEMMA JoinsAgree ==
    ASSUME NEW S, NEW C, Uncrossed(C, Conv!Joins(S)), NEW i \in S, NEW j,
           j \in Conv!ByName(S, i) \cup Conv!ByLink(S, i) \cup Conv!BySubject(S, i)
    PROVE  i \in C <=> j \in C
  <1>1. <<i, j>> \in Conv!Joins(S)
        BY DEF Conv!Joins
  <1>2. <<i, j>>[1] = i /\ <<i, j>>[2] = j
        OBVIOUS
  <1>. QED  BY <1>1, <1>2 DEF Uncrossed

(* If every row of T is on the side of the last one before it, all are on   *)
(* one side.                                                                *)
LEMMA ChainAgrees ==
    ASSUME Conv!ThreadsAssumption, NEW T \in SUBSET Conv!Rows, NEW C,
           \A i \in T : \A k \in Conv!Latest({j \in T : j < i}) : i \in C <=> k \in C
    PROVE  \A i, j \in T : i \in C <=> j \in C
  <1>. DEFINE Bad == {i \in T : \E j \in T : j < i /\ ~(i \in C <=> j \in C)}
  <1>1. \A i \in T : i \in Nat
        BY ThreadRowsAre
  <1>2. Bad = {}
    <2>. SUFFICES ASSUME Bad # {} PROVE FALSE
         OBVIOUS
    <2>1. Bad \in SUBSET Nat
          BY <1>1
    <2>2. PICK i \in Bad : \A m \in Bad : i <= m
          BY <2>1, LeastNat
    <2>3. PICK j \in T : j < i /\ ~(i \in C <=> j \in C)
          BY <2>2
    <2>. DEFINE E == {k \in T : k < i}
    <2>4. PICK k \in E : Conv!Latest(E) = {k} /\ \A m \in E : m <= k
      <3>1. E \in SUBSET Conv!Rows /\ E # {}
            BY <2>3
      <3>. QED  BY <3>1, LatestIs
    <2>5. i \in T /\ (i \in C <=> k \in C)
          BY <2>2, <2>4
    <2>6. j \in E /\ j <= k /\ k < i /\ k \in T
          BY <2>3, <2>4
    <2>7. k \notin Bad
          BY <1>1, <2>2, <2>5, <2>6
    <2>8. j = k \/ j < k
          BY <1>1, <2>3, <2>6
    <2>. QED  BY <2>3, <2>5, <2>6, <2>7, <2>8
  <1>3. \A i, j \in T : i < j \/ j < i \/ i = j
        BY <1>1
  <1>. QED  BY <1>2, <1>3

(* All that bear a name or refer to it are on one side.                     *)
LEMMA NameAgrees ==
    ASSUME Conv!ThreadsAssumption, NEW S \in SUBSET Conv!Rows, NEW C,
           Uncrossed(C, Conv!Joins(S)), NEW n, n # Conv!NoThread
    PROVE  \A i, j \in Conv!Named(S, n) \cup Conv!Linked(S, n) : i \in C <=> j \in C
  <1>1. \A i, j \in Conv!Named(S, n) : i \in C <=> j \in C
    <2>. DEFINE T == Conv!Named(S, n)
    <2>1. T \in SUBSET Conv!Rows /\ T \subseteq S
          BY DEF Conv!Named
    <2>2. ASSUME NEW i \in T, NEW k \in Conv!Latest({j \in T : j < i})
          PROVE  i \in C <=> k \in C
      <3>1. header[i].name = n /\ i \in S
            BY <2>2 DEF Conv!Named
      <3>2. k \in Conv!ByName(S, i)
            BY <2>2, <3>1 DEF Conv!ByName
      <3>. QED  BY <3>1, <3>2, JoinsAgree
    <2>. HIDE DEF T
    <2>3. \A i, j \in T : i \in C <=> j \in C
          BY <2>1, <2>2, ChainAgrees
    <2>. QED  BY <2>3 DEF T
  <1>2. \A i, j \in Conv!Linked(S, n) : i \in C <=> j \in C
    <2>. DEFINE T == Conv!Linked(S, n)
    <2>1. T \in SUBSET Conv!Rows /\ T \subseteq S
          BY DEF Conv!Linked
    <2>2. ASSUME NEW i \in T, NEW k \in Conv!Latest({j \in T : j < i})
          PROVE  i \in C <=> k \in C
      <3>1. n \in Conv!Range(header[i].links) /\ i \in S
            BY <2>2 DEF Conv!Linked
      <3>. DEFINE L(m) == Conv!Latest({j \in Conv!Linked(S, m) : j < i})
      <3>2. k \in L(n)
            BY <2>2
      <3>3. Conv!ByLink(S, i) = UNION {Conv!Latest(Conv!Named(S, m)) \cup L(m) :
                                          m \in Conv!Range(header[i].links)}
            BY DEF Conv!ByLink
      <3>4. k \in Conv!ByLink(S, i)
        <4>. HIDE DEF L
        <4>. QED  BY <3>1, <3>2, <3>3
      <3>. QED  BY <3>1, <3>4, JoinsAgree
    <2>. HIDE DEF T
    <2>3. \A i, j \in T : i \in C <=> j \in C
          BY <2>1, <2>2, ChainAgrees
    <2>. QED  BY <2>3 DEF T
  <1>3. ASSUME NEW i \in Conv!Linked(S, n), NEW j \in Conv!Named(S, n)
        PROVE  i \in C <=> j \in C
    <2>. DEFINE T == Conv!Named(S, n)
    <2>1. T \in SUBSET Conv!Rows /\ T # {}
          BY <1>3 DEF Conv!Named
    <2>2. PICK k \in T : Conv!Latest(T) = {k}
          BY <2>1, LatestIs
    <2>3. n \in Conv!Range(header[i].links) /\ i \in S
          BY <1>3 DEF Conv!Linked
    <2>4. k \in Conv!ByLink(S, i)
          BY <2>2, <2>3 DEF Conv!ByLink
    <2>5. i \in C <=> k \in C
          BY <2>3, <2>4, JoinsAgree
    <2>. QED  BY <1>1, <2>2, <2>5
  <1>. QED  BY <1>1, <1>2, <1>3

LEMMA LinksAreNames ==
    ASSUME Conv!ThreadsAssumption, header \in [Conv!Rows -> Conv!Headers],
           NEW k \in Conv!Rows, NEW m \in Conv!Range(header[k].links)
    PROVE  m \in Names
  <1>1. \E l \in Nat : header[k].links \in [1..l -> Names]
    <2>1. header[k] \in Conv!Headers
          OBVIOUS
    <2>2. header[k].links \in Conv!Links \/ header[k].links = <<>>
          BY <2>1 DEF Conv!Headers
    <2>3. <<>> \in [1..0 -> Names] /\ 0 \in Nat
          OBVIOUS
    <2>4. MaxLinks \in Nat
          BY DEF Conv!ThreadsAssumption
    <2>5. \A l \in 0..MaxLinks : l \in Nat
          BY <2>4
    <2>6. CASE header[k].links \in Conv!Links
          BY <2>5, <2>6 DEF Conv!Links
    <2>. QED  BY <2>2, <2>3, <2>6
  <1>. QED  BY <1>1 DEF Conv!Range

LEMMA RelatedAgree ==
    ASSUME Conv!ThreadsAssumption, DOMAIN thread \subseteq Conv!Rows,
           header \in [Conv!Rows -> Conv!Headers],
           NEW C, Uncrossed(C, Conv!Joins(DOMAIN thread)),
           NEW i \in DOMAIN thread, NEW j \in DOMAIN thread, Conv!Related(i, j)
    PROVE  i \in C <=> j \in C
  <1>. DEFINE S == DOMAIN thread
              of(k) == Conv!Range(header[k].links) \cup ({header[k].name} \ {Conv!NoThread})
  <1>1. CASE of(i) \cap of(j) # {}
    <2>1. PICK n : n \in of(i) /\ n \in of(j)
          BY <1>1
    <2>2. n # Conv!NoThread
          BY <2>1, LinksAreNames, ThreadRowsAre
    <2>3. i \in Conv!Named(S, n) \cup Conv!Linked(S, n) /\ j \in Conv!Named(S, n) \cup Conv!Linked(S, n)
          BY <2>1 DEF Conv!Named, Conv!Linked
    <2>. HIDE DEF S
    <2>4. S \in SUBSET Conv!Rows /\ Uncrossed(C, Conv!Joins(S))
          BY DEF S
    <2>. QED  BY <2>2, <2>3, <2>4, NameAgrees
  <1>2. CASE <<i, j>> \in alike /\ \A k \in S : <<i, k>> \in alike => k <= j
    <2>. DEFINE T == {k \in S : <<i, k>> \in alike}
    <2>1. T \in SUBSET Conv!Rows /\ j \in T /\ \A k \in T : k <= j
          BY <1>2
    <2>2. PICK k \in T : Conv!Latest(T) = {k} /\ \A m \in T : m <= k
          BY <2>1, LatestIs
    <2>3. k = j
      <3>1. k \in Nat /\ j \in Nat /\ k <= j /\ j <= k
            BY <2>1, <2>2, ThreadRowsAre
      <3>. QED  BY <3>1
    <2>4. j \in Conv!BySubject(S, i)
          BY <2>2, <2>3 DEF Conv!BySubject
    <2>. QED  BY <2>4, JoinsAgree
  <1>3. CASE i = j
        BY <1>3
  <1>. QED  BY <1>1, <1>2, <1>3 DEF Conv!Related

(* A set that is closed under what belongs together is not crossed.         *)
Closed(C) == \A i \in C, j \in DOMAIN thread \ C : ~Conv!Related(i, j) /\ ~Conv!Related(j, i)

LEMMA JoinsRelated ==
    ASSUME Conv!ThreadsAssumption, DOMAIN thread \subseteq Conv!Rows,
           header \in [Conv!Rows -> Conv!Headers],
           NEW e \in Conv!Joins(DOMAIN thread)
    PROVE  Conv!Related(e[1], e[2])
  <1>. DEFINE S == DOMAIN thread
              of(k) == Conv!Range(header[k].links) \cup ({header[k].name} \ {Conv!NoThread})
  <1>0. S \in SUBSET Conv!Rows
        OBVIOUS
  <1>1. PICK i \in S : \E j \in Conv!ByName(S, i) \cup Conv!ByLink(S, i) \cup Conv!BySubject(S, i) :
                          e = <<i, j>>
        BY DEF Conv!Joins
  <1>2. PICK j \in Conv!ByName(S, i) \cup Conv!ByLink(S, i) \cup Conv!BySubject(S, i) : e = <<i, j>>
        BY <1>1
  <1>3. CASE j \in Conv!ByName(S, i)
    <2>. DEFINE T == {k \in Conv!Named(S, header[i].name) : k < i}
    <2>1. header[i].name # Conv!NoThread /\ j \in Conv!Latest(T)
          BY <1>3 DEF Conv!ByName
    <2>2. T \in SUBSET Conv!Rows
          BY <1>0 DEF Conv!Named
    <2>3. j \in T
          BY <2>1, <2>2, LatestIs
    <2>4. header[j].name = header[i].name
          BY <2>3 DEF Conv!Named
    <2>5. header[i].name \in of(i) \cap of(j)
          BY <2>1, <2>4
    <2>. QED  BY <1>2, <2>5 DEF Conv!Related
  <1>4. CASE j \in Conv!ByLink(S, i)
    <2>1. PICK n \in Conv!Range(header[i].links) :
                  j \in Conv!Latest(Conv!Named(S, n)) \cup Conv!Latest({k \in Conv!Linked(S, n) : k < i})
          BY <1>4 DEF Conv!ByLink
    <2>2. n # Conv!NoThread
          BY <1>0, LinksAreNames, ThreadRowsAre
    <2>3. Conv!Latest(Conv!Named(S, n)) \subseteq Conv!Named(S, n)
      <3>1. Conv!Named(S, n) \in SUBSET Conv!Rows
            BY <1>0 DEF Conv!Named
      <3>. QED  BY <3>1, LatestIs
    <2>4. Conv!Latest({k \in Conv!Linked(S, n) : k < i}) \subseteq Conv!Linked(S, n)
      <3>. DEFINE T == {k \in Conv!Linked(S, n) : k < i}
      <3>1. T \in SUBSET Conv!Rows
            BY <1>0 DEF Conv!Linked
      <3>2. Conv!Latest(T) \subseteq T
            BY <3>1, LatestIs
      <3>. QED  BY <3>2
    <2>5. j \in Conv!Named(S, n) \cup Conv!Linked(S, n)
          BY <2>1, <2>3, <2>4
    <2>6. n \in of(j)
          BY <2>2, <2>5 DEF Conv!Named, Conv!Linked
    <2>7. n \in of(i)
          OBVIOUS
    <2>. QED  BY <1>2, <2>6, <2>7 DEF Conv!Related
  <1>5. CASE j \in Conv!BySubject(S, i)
    <2>. DEFINE T == {k \in S : <<i, k>> \in alike}
    <2>1. j \in Conv!Latest(T)
          BY <1>5 DEF Conv!BySubject
    <2>2. j \in T /\ \A k \in T : k <= j
      <3>1. T \in SUBSET Conv!Rows
            BY <1>0
      <3>. HIDE DEF T
      <3>2. Conv!Latest(T) = {} \/ \E k \in T : Conv!Latest(T) = {k} /\ \A m \in T : m <= k
            BY <3>1, LatestIs
      <3>. QED  BY <2>1, <3>2
    <2>. QED  BY <1>2, <2>2 DEF Conv!Related
  <1>. QED  BY <1>2, <1>3, <1>4, <1>5

LEMMA SameGroup ==
    ASSUME Conv!ThreadsAssumption, DOMAIN thread \subseteq Conv!Rows,
           header \in [Conv!Rows -> Conv!Headers]
    PROVE  LET g == Conv!Groups(DOMAIN thread)
           IN /\ g \in [DOMAIN thread -> DOMAIN thread]
              /\ \A i, j \in DOMAIN thread :
                    g[i] = g[j] <=> <<i, j>> \in Conv!Together(DOMAIN thread)
  <1>. DEFINE S == DOMAIN thread
              g == Conv!Groups(S)
  <1>1. S \in SUBSET Conv!Rows
        OBVIOUS
  <1>2. Connects(S, Conv!Joins(S), g)
    <2>1. Conv!Joins(S) \in SUBSET (S \X S) /\ IsFiniteSet(Conv!Joins(S))
          BY <1>1, JoinsAre
    <2>. DEFINE f == CHOOSE f : FoldOf(S, Conv!Joins(S), f)
    <2>2. FoldOf(S, Conv!Joins(S), f)
          BY <2>1, FoldExists, Zenon
    <2>3. g = f[Conv!Joins(S)]
          BY GroupsUnfold, Zenon
    <2>. HIDE DEF f, g, S
    <2>. QED  BY <2>1, <2>2, <2>3, FoldConnects
  <1>3. ASSUME NEW C \in SUBSET S, Closed(C) PROVE Uncrossed(C, Conv!Joins(S))
    <2>. SUFFICES ASSUME NEW e \in Conv!Joins(S) PROVE e[1] \in C <=> e[2] \in C
         BY DEF Uncrossed
    <2>1. Conv!Related(e[1], e[2])
          BY JoinsRelated
    <2>2. e[1] \in S /\ e[2] \in S
          BY <1>1, JoinsAre
    <2>. QED  BY <1>3, <2>1, <2>2 DEF Closed
  <1>4. ASSUME NEW C \in SUBSET S, Uncrossed(C, Conv!Joins(S)) PROVE Closed(C)
        BY <1>4, RelatedAgree DEF Closed
  <1>5. Conv!Together(S) = {p \in S \X S : \A C \in SUBSET S : Closed(C) => (p[1] \in C => p[2] \in C)}
        BY Zenon DEF Conv!Together, Closed
  <1>. HIDE DEF g, S
  <1>6. g \in [S -> S]
        BY <1>2 DEF Connects
  <1>7. ASSUME NEW i \in S, NEW j \in S, g[i] = g[j]
        PROVE  <<i, j>> \in Conv!Together(S)
    <2>1. \A C \in SUBSET S : Uncrossed(C, Conv!Joins(S)) => (i \in C <=> j \in C)
          BY <1>2, <1>7 DEF Connects
    <2>2. \A C \in SUBSET S : Closed(C) => (i \in C => j \in C)
          BY <1>3, <2>1
    <2>. QED  BY <1>5, <2>2
  <1>8. ASSUME NEW i \in S, NEW j \in S, <<i, j>> \in Conv!Together(S)
        PROVE  g[i] = g[j]
    <2>. DEFINE C == {k \in S : g[k] = g[i]}
    <2>1. Uncrossed(C, Conv!Joins(S))
      <3>1. \A e \in Conv!Joins(S) : e[1] \in S /\ e[2] \in S /\ g[e[1]] = g[e[2]]
        <4>1. Conv!Joins(S) \in SUBSET (S \X S)
              BY <1>1, JoinsAre
        <4>2. \A e \in Conv!Joins(S) : g[e[1]] = g[e[2]]
              BY <1>2 DEF Connects
        <4>. QED  BY <4>1, <4>2
      <3>. QED  BY <3>1 DEF Uncrossed
    <2>2. Closed(C)
          BY <1>4, <2>1
    <2>3. i \in C => j \in C
          BY <1>5, <1>8, <2>2
    <2>. QED  BY <2>3
  <1>. QED  BY <1>6, <1>7, <1>8 DEF g, S

LEMMA RelatedTogether ==
    ASSUME NEW i \in DOMAIN thread, NEW j \in DOMAIN thread, Conv!Related(i, j)
    PROVE  <<i, j>> \in Conv!Together(DOMAIN thread)
  <1>1. \A C \in SUBSET DOMAIN thread :
           (\A a \in C, b \in DOMAIN thread \ C : ~Conv!Related(a, b) /\ ~Conv!Related(b, a))
              => (i \in C => j \in C)
        OBVIOUS
  <1>. QED  BY <1>1 DEF Conv!Together

(* What the oldest message of a thread calls it.                            *)
NameOf(j) == IF header[j].links # <<>> THEN Head(header[j].links)
             ELSE IF header[j].name # Conv!NoThread THEN header[j].name ELSE j

LEMMA NameIsOwn ==
    ASSUME Conv!ThreadsAssumption, header \in [Conv!Rows -> Conv!Headers],
           NEW i \in Conv!Rows, NEW j \in Conv!Rows, NameOf(i) = NameOf(j)
    PROVE  Conv!Related(i, j)
  <1>. DEFINE of(k) == Conv!Range(header[k].links) \cup ({header[k].name} \ {Conv!NoThread})
  <1>1. ASSUME NEW k \in Conv!Rows
        PROVE  \/ NameOf(k) \in of(k) /\ NameOf(k) \in Names
               \/ NameOf(k) = k
    <2>1. header[k] \in Conv!Headers /\ MaxLinks \in Nat
          BY DEF Conv!ThreadsAssumption
    <2>2. header[k].name \in Names \cup {Conv!NoThread}
          BY <2>1 DEF Conv!Headers
    <2>3. header[k].links \in Seq(Names)
      <3>1. \A l \in 0..MaxLinks : l \in Nat
            BY <2>1
      <3>2. CASE header[k].links \in Conv!Links
            BY <3>1, <3>2 DEF Conv!Links
      <3>3. CASE header[k].links = <<>>
            BY <3>3
      <3>. QED  BY <2>1, <3>2, <3>3 DEF Conv!Headers
    <2>4. CASE header[k].links # <<>>
      <3>1. 1 \in DOMAIN header[k].links /\ Head(header[k].links) = header[k].links[1]
            BY <2>3, <2>4
      <3>2. Head(header[k].links) \in Conv!Range(header[k].links)
            BY <3>1 DEF Conv!Range
      <3>3. Head(header[k].links) \in Names
            BY <2>3, <2>4
      <3>. QED  BY <2>4, <3>2, <3>3 DEF NameOf
    <2>5. CASE header[k].links = <<>> /\ header[k].name # Conv!NoThread
          BY <2>2, <2>5 DEF NameOf
    <2>6. CASE header[k].links = <<>> /\ header[k].name = Conv!NoThread
          BY <2>6 DEF NameOf
    <2>. QED  BY <2>4, <2>5, <2>6
  <1>2. \A k \in Conv!Rows : k \notin Names
        BY ThreadRowsAre
  <1>3. of(i) \cap of(j) # {} \/ i = j
        BY <1>1, <1>2
  <1>. QED  BY <1>3 DEF Conv!Related

LEMMA ThreadsOfRight ==
    ASSUME Conv!ThreadsAssumption, DOMAIN thread \subseteq Conv!Rows,
           header \in [Conv!Rows -> Conv!Headers]
    PROVE  LET made == Conv!ThreadsOf(DOMAIN thread)
           IN \A i, j \in DOMAIN thread :
                 (made[i] = made[j]) <=> <<i, j>> \in Conv!Together(DOMAIN thread)
  <1>. DEFINE S == DOMAIN thread
              g == Conv!Groups(S)
              Least(i, j) == j \in S /\ g[j] = g[i] /\ \A k \in S : g[k] = g[i] => j <= k
              oldest(i) == CHOOSE j \in S : g[j] = g[i] /\ \A k \in S : g[k] = g[i] => j <= k
              made == Conv!ThreadsOf(S)
  <1>1. \A i, j \in S : g[i] = g[j] <=> <<i, j>> \in Conv!Together(S)
        BY SameGroup
  <1>2. \A i \in S : made[i] = NameOf(oldest(i))
        BY Zenon DEF Conv!ThreadsOf, NameOf
  <1>3. \A i \in S : i \in Nat /\ i \in Conv!Rows
        BY ThreadRowsAre
  <1>4. \A i, j \in S : NameOf(i) = NameOf(j) => <<i, j>> \in Conv!Together(S)
        BY <1>3, NameIsOwn, RelatedTogether
  <1>. HIDE DEF g, S, made
  <1>5. ASSUME NEW i \in S PROVE Least(i, oldest(i))
    <2>. DEFINE T == {j \in S : g[j] = g[i]}
    <2>1. T \in SUBSET Nat /\ T # {}
          BY <1>3
    <2>2. \E n \in T : \A m \in T : n <= m
          BY <2>1, LeastNat
    <2>3. \E j \in S : g[j] = g[i] /\ \A k \in S : g[k] = g[i] => j <= k
          BY <2>2
    <2>. QED  BY <2>3
  <1>. HIDE DEF oldest
  <1>6. ASSUME NEW i \in S, NEW j \in S, g[i] = g[j] PROVE made[i] = made[j]
    <2>1. Least(i, oldest(i)) /\ Least(j, oldest(j))
          BY <1>5
    <2>2. oldest(i) \in Nat /\ oldest(j) \in Nat /\ oldest(i) <= oldest(j) /\ oldest(j) <= oldest(i)
          BY <1>3, <1>6, <2>1
    <2>3. oldest(i) = oldest(j)
          BY <2>2
    <2>. QED  BY <1>2, <2>3
  <1>7. ASSUME NEW i \in S, NEW j \in S, made[i] = made[j] PROVE g[i] = g[j]
    <2>1. Least(i, oldest(i)) /\ Least(j, oldest(j))
          BY <1>5
    <2>2. NameOf(oldest(i)) = NameOf(oldest(j))
          BY <1>2, <1>7
    <2>3. g[oldest(i)] = g[oldest(j)]
          BY <1>1, <1>4, <2>1, <2>2
    <2>. QED  BY <2>1, <2>3
  <1>8. \A i, j \in S : (made[i] = made[j]) <=> <<i, j>> \in Conv!Together(S)
        BY <1>1, <1>6, <1>7
  <1>. QED  BY <1>8 DEF made, S

-----------------------------------------------------------------------------
(* Conversations: the threads that are written are those of the rows *)

OneWriter == \E w : Writers = {w}

ThreadsInv ==
    /\ header \in [Conv!Rows -> Conv!Headers]
    /\ DOMAIN thread \subseteq Conv!Rows
    /\ thread = [i \in DOMAIN thread |-> thread[i]]
    /\ plan = [w \in Writers |-> plan[w]]
    /\ \A w \in Writers :
          /\ plan[w] = [at |-> plan[w].at, read |-> plan[w].read, made |-> plan[w].made]
          /\ plan[w].at = "idle" => thread = Conv!ThreadsOf(DOMAIN thread)
          /\ plan[w].at = "write" => /\ plan[w].read = thread
                                     /\ plan[w].made = Conv!ThreadsOf(DOMAIN thread)

LEMMA ThreadsOfIs ==
    ASSUME NEW S
    PROVE  /\ DOMAIN Conv!ThreadsOf(S) = S
           /\ Conv!ThreadsOf(S) = [i \in S |-> Conv!ThreadsOf(S)[i]]
  BY DEF Conv!ThreadsOf

(* The threads of rows depend on the headers alone.                         *)
LEMMA ThreadsOfStays ==
    ASSUME UNCHANGED <<header, alike>>, DOMAIN thread' = DOMAIN thread
    PROVE  Conv!ThreadsOf(DOMAIN thread)' = Conv!ThreadsOf(DOMAIN thread)
  BY DEF Conv!ThreadsOf, Conv!Groups, Conv!Joins, Conv!ByName, Conv!ByLink, Conv!BySubject,
         Conv!Named, Conv!Linked, Conv!Latest, Conv!FoldSet, Conv!MapThenFoldSet, Conv!Union

LEMMA ThreadsInvInit == ASSUME Conv!ThreadsAssumption, Conv!Init PROVE ThreadsInv
  <1>1. header \in [Conv!Rows -> Conv!Headers] /\ thread = [i \in {} |-> Conv!NoThread]
        /\ plan = [w \in Writers |-> Conv!Idle]
        BY DEF Conv!Init, Conv!None
  <1>2. DOMAIN thread = {} /\ thread = [i \in DOMAIN thread |-> thread[i]]
        BY <1>1
  <1>3. thread = Conv!ThreadsOf(DOMAIN thread)
    <2>1. DOMAIN Conv!ThreadsOf({}) = {} /\ Conv!ThreadsOf({}) = [i \in {} |-> Conv!ThreadsOf({})[i]]
          BY ThreadsOfIs
    <2>2. [i \in {} |-> Conv!ThreadsOf({})[i]] = [i \in {} |-> Conv!NoThread]
          OBVIOUS
    <2>. QED  BY <1>1, <1>2, <2>1, <2>2
  <1>4. \A w \in Writers : plan[w] = [at |-> "idle", read |-> <<>>, made |-> <<>>]
        BY <1>1 DEF Conv!Idle
  <1>. QED  BY <1>1, <1>2, <1>3, <1>4 DEF ThreadsInv

LEMMA ThreadsInvNext ==
    ASSUME Conv!ThreadsAssumption, OneWriter, ThreadsInv, [Conv!Next]_(Conv!vars)
    PROVE  ThreadsInv'
  <1>1. CASE UNCHANGED Conv!vars
    <2>1. UNCHANGED <<header, alike, thread, plan>>
          BY <1>1 DEF Conv!vars
    <2>2. Conv!ThreadsOf(DOMAIN thread)' = Conv!ThreadsOf(DOMAIN thread)
          BY <2>1, ThreadsOfStays
    <2>. QED  BY <2>1, <2>2 DEF ThreadsInv, Conv!Rows, Conv!Headers, Conv!Links
  <1>. SUFFICES ASSUME NEW w \in Writers, Conv!Persist(w) \/ Conv!Load(w) \/ Conv!Write(w)
                PROVE  ThreadsInv'
       BY <1>1 DEF Conv!Next
  <1>2. Writers = {w}
        BY DEF OneWriter
  <1>3. UNCHANGED <<header, alike>>
        BY DEF Conv!Persist, Conv!Load, Conv!Write
  <1>4. (header \in [Conv!Rows -> Conv!Headers])'
        BY <1>3 DEF ThreadsInv, Conv!Rows, Conv!Headers, Conv!Links
  <1>5. /\ plan = [v \in Writers |-> plan[v]]
        /\ plan[w] = [at |-> plan[w].at, read |-> plan[w].read, made |-> plan[w].made]
        /\ thread = [i \in DOMAIN thread |-> thread[i]] /\ DOMAIN thread \subseteq Conv!Rows
        BY DEF ThreadsInv
  <1>6. CASE Conv!Persist(w)
    <2>1. PICK new \in SUBSET (Conv!Rows \ DOMAIN thread) :
              thread' = [i \in DOMAIN thread \cup new |->
                            IF i \in new THEN Conv!NoThread ELSE thread[i]]
          BY <1>6 DEF Conv!Persist
    <2>2. plan' = [plan EXCEPT ![w].at = "rebuild"]
          BY <1>6 DEF Conv!Persist
    <2>3. plan' = [v \in Writers |-> plan'[v]]
          /\ plan'[w] = [at |-> "rebuild", read |-> plan[w].read, made |-> plan[w].made]
          BY <1>5, <2>2
    <2>4. thread' = [i \in DOMAIN thread' |-> thread'[i]] /\ DOMAIN thread' \subseteq Conv!Rows
          BY <1>5, <2>1
    <2>. QED  BY <1>2, <1>4, <2>3, <2>4 DEF ThreadsInv, Conv!Rows
  <1>7. CASE Conv!Load(w)
    <2>1. thread' = thread
          /\ plan' = [plan EXCEPT ![w] = [at |-> "write", read |-> thread,
                                          made |-> Conv!ThreadsOf(DOMAIN thread)]]
          BY <1>7 DEF Conv!Load
    <2>2. plan' = [v \in Writers |-> plan'[v]]
          /\ plan'[w] = [at |-> "write", read |-> thread, made |-> Conv!ThreadsOf(DOMAIN thread)]
          BY <1>5, <2>1
    <2>3. Conv!ThreadsOf(DOMAIN thread)' = Conv!ThreadsOf(DOMAIN thread)
          BY <1>3, <2>1, ThreadsOfStays
    <2>. QED  BY <1>2, <1>4, <1>5, <2>1, <2>2, <2>3 DEF ThreadsInv, Conv!Rows
  <1>8. CASE Conv!Write(w)
    <2>1. /\ plan[w].at = "write" /\ plan' = [plan EXCEPT ![w] = Conv!Idle]
          /\ thread' = [i \in DOMAIN thread |->
                           IF i \in DOMAIN plan[w].made /\ plan[w].made[i] # plan[w].read[i]
                           THEN plan[w].made[i] ELSE thread[i]]
          BY <1>8 DEF Conv!Write, Conv!At
    <2>2. plan' = [v \in Writers |-> plan'[v]]
          /\ plan'[w] = [at |-> "idle", read |-> <<>>, made |-> <<>>]
          BY <1>5, <2>1 DEF Conv!Idle
    <2>3. plan[w].read = thread /\ plan[w].made = Conv!ThreadsOf(DOMAIN thread)
          BY <2>1 DEF ThreadsInv
    <2>4. DOMAIN thread' = DOMAIN thread /\ thread' = [i \in DOMAIN thread' |-> thread'[i]]
          BY <2>1
    <2>5. thread' = Conv!ThreadsOf(DOMAIN thread)
      <3>. DEFINE made == Conv!ThreadsOf(DOMAIN thread)
      <3>1. DOMAIN made = DOMAIN thread /\ made = [i \in DOMAIN thread |-> made[i]]
            BY ThreadsOfIs, Zenon
      <3>2. plan[w].read = thread /\ plan[w].made = made
            BY <2>3
      <3>. HIDE DEF made
      <3>3. thread' = [i \in DOMAIN thread |-> IF i \in DOMAIN made /\ made[i] # thread[i]
                                               THEN made[i] ELSE thread[i]]
            BY <2>1, <3>2
      <3>4. \A i \in DOMAIN thread : thread'[i] = made[i]
            BY <3>1, <3>3
      <3>5. DOMAIN thread' = DOMAIN thread
            BY <3>3
      <3>6. thread' = [i \in DOMAIN thread |-> thread'[i]]
            BY <3>3
      <3>7. [i \in DOMAIN thread |-> thread'[i]] = [i \in DOMAIN thread |-> made[i]]
            BY <3>4
      <3>8. thread' = made
            BY <3>1, <3>6, <3>7
      <3>. QED  BY <3>8 DEF made
    <2>6. Conv!ThreadsOf(DOMAIN thread)' = Conv!ThreadsOf(DOMAIN thread)
          BY <1>3, <2>4, ThreadsOfStays
    <2>. QED  BY <1>2, <1>4, <1>5, <2>2, <2>4, <2>5, <2>6 DEF ThreadsInv, Conv!Rows
  <1>. QED  BY <1>6, <1>7, <1>8

(* Once a worker has written its threads, two messages have the same one   *)
(* exactly when a chain of shared identifiers or subjects connects them,   *)
(* whatever the headers are and in whatever order the messages came, with  *)
(* one worker that stores messages (rebuild_threads_for_account).          *)
THEOREM ThreadsAlwaysRight ==
    ASSUME Conv!ThreadsAssumption, OneWriter
    PROVE  Conv!Spec => []Conv!ThreadsRight
  <1>1. Conv!Init => ThreadsInv
        BY ThreadsInvInit
  <1>2. ThreadsInv /\ [Conv!Next]_(Conv!vars) => ThreadsInv'
        BY ThreadsInvNext
  <1>3. ASSUME ThreadsInv PROVE Conv!ThreadsRight
    <2>1. PICK w \in Writers : TRUE
          BY DEF OneWriter
    <2>. SUFFICES ASSUME plan[w].at = "idle"
                  PROVE  \A i, j \in DOMAIN thread :
                            (thread[i] = thread[j]) <=> <<i, j>> \in Conv!Together(DOMAIN thread)
         BY Zenon DEF Conv!ThreadsRight, Conv!At
    <2>2. thread = Conv!ThreadsOf(DOMAIN thread)
          BY <1>3 DEF ThreadsInv
    <2>3. DOMAIN thread \subseteq Conv!Rows /\ header \in [Conv!Rows -> Conv!Headers]
          BY <1>3 DEF ThreadsInv
    <2>4. \A i, j \in DOMAIN thread :
             Conv!ThreadsOf(DOMAIN thread)[i] = Conv!ThreadsOf(DOMAIN thread)[j]
                <=> <<i, j>> \in Conv!Together(DOMAIN thread)
          BY <2>3, ThreadsOfRight, Zenon
    <2>. QED  BY <2>2, <2>4, Zenon
  <1>. QED  BY <1>1, <1>2, <1>3, PTL DEF Conv!Spec
=============================================================================
