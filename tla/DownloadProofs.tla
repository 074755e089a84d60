---------------------------- MODULE DownloadProofs ----------------------------
(***************************************************************************)
(* What TLAPS proves of what is downloaded and kept on disk: the bodies of *)
(* messages (BodyCache), for any number of windows and hydration slots;    *)
(* the language packs (TranslationPack), for any number of installers; and *)
(* the commands of one fetch (UidFetch), for any items and limits of the   *)
(* provider.                                                               *)
(***************************************************************************)
EXTENDS BodyCache, FiniteSetTheorems, SequenceTheorems, WellFoundedInduction, TLAPS

CONSTANTS Installers, Files, MaxBreaks, MaxUses
VARIABLES temp, pack, flag, job, engine, crashed, breaks, uses

Pack == INSTANCE TranslationPack WITH MaxFaults <- MaxBreaks, faults <- breaks

CONSTANTS MaxItems, MaxBatch
VARIABLES kind, asked, limit, cursed, pending, got, failed, outcome

Uid == INSTANCE UidFetch WITH over <- outcome

-----------------------------------------------------------------------------
(* Least elements, and sums over finite sets *)

(* A set of numbers has a least one: the induction that the proofs below    *)
(* use.                                                                     *)
LEMMA LeastNat ==
    ASSUME NEW T \in SUBSET Nat, T # {}
    PROVE  \E n \in T : \A m \in T : n <= m
  <1>1. \E x \in T : \A y \in T : <<y, x>> \notin OpToRel(<, Nat)
        BY NatLessThanWellFounded, WFMin
  <1>2. \A x, y \in T : <<y, x>> \notin OpToRel(<, Nat) => x <= y
        BY DEF OpToRel
  <1>. QED BY <1>1, <1>2

(* A set of finite sets has one that contains no other.                     *)
LEMMA SmallestSet ==
    ASSUME NEW S, IsFiniteSet(S), NEW T \in SUBSET SUBSET S, T # {}
    PROVE  \E s \in T : \A r \in T : r \subseteq s => r = s
  <1>1. \A s \in T : IsFiniteSet(s) /\ Cardinality(s) \in Nat
        BY FS_Subset, FS_CardinalityType
  <1>. DEFINE Sizes == {Cardinality(s) : s \in T}
  <1>2. Sizes \in SUBSET Nat /\ Sizes # {} /\ \A s \in T : Cardinality(s) \in Sizes
        BY <1>1
  <1>3. PICK s \in T : \A m \in Sizes : Cardinality(s) <= m
    <2>. HIDE DEF Sizes
    <2>1. PICK n \in Sizes : \A m \in Sizes : n <= m
          BY <1>2, LeastNat
    <2>. QED  BY <2>1 DEF Sizes
  <1>4. ASSUME NEW r \in T, r \subseteq s
        PROVE  r = s
    <2>1. Cardinality(r) <= Cardinality(s) /\ (Cardinality(r) = Cardinality(s) => r = s)
          BY <1>1, <1>4, FS_Subset
    <2>2. Cardinality(s) <= Cardinality(r)
          BY <1>2, <1>3
    <2>. QED  BY <1>1, <2>1, <2>2
  <1>. QED  BY <1>4

(* SumFunctionOnSet takes the elements in some order, First by First.       *)
First(s) == CHOOSE x \in s : TRUE
Adds(f, T, g) == \A s \in T : g[s] = IF s = {} THEN 0 ELSE f[First(s)] + g[s \ {First(s)}]
SumOf(f, S, g) == g = [s \in SUBSET S |-> IF s = {} THEN 0 ELSE f[First(s)] + g[s \ {First(s)}]]

LEMMA FirstIn == ASSUME NEW s, s # {} PROVE First(s) \in s
  BY DEF First

LEMMA Unfold ==
    ASSUME NEW f, NEW S
    PROVE  SumFunctionOnSet(f, S) = (CHOOSE g : SumOf(f, S, g))[S]
  BY Zenon DEF SumFunctionOnSet, FoldFunctionOnSet, MapThenFoldSet, SumOf, First

LEMMA SumExists ==
    ASSUME NEW S, IsFiniteSet(S), NEW f, \A x \in S : f[x] \in Nat
    PROVE  \E g \in [SUBSET S -> Nat] : SumOf(f, S, g)
  <1>. DEFINE Upto(n) == {s \in SUBSET S : Cardinality(s) <= n}
              Bad == {n \in Nat : ~\E g \in [Upto(n) -> Nat] : Adds(f, Upto(n), g)}
  <1>1. \A s \in SUBSET S : IsFiniteSet(s) /\ Cardinality(s) \in Nat
        BY FS_Subset, FS_CardinalityType
  <1>2. Bad = {}
    <2>. SUFFICES ASSUME Bad # {} PROVE FALSE
         OBVIOUS
    <2>1. PICK n \in Bad : \A m \in Bad : n <= m
          BY LeastNat, Bad \in SUBSET Nat
    <2>2. CASE n = 0
      <3>1. Upto(0) = {{}}
            BY <1>1, FS_EmptySet
      <3>2. [s \in Upto(0) |-> 0] \in [Upto(0) -> Nat] /\ Adds(f, Upto(0), [s \in Upto(0) |-> 0])
            BY <3>1 DEF Adds
      <3>. QED  BY <2>1, <2>2, <3>2
    <2>3. CASE n # 0
      <3>1. n - 1 \in Nat /\ n - 1 \notin Bad
        <4>1. n \in Nat
              OBVIOUS
        <4>. HIDE DEF Bad
        <4>. QED  BY <2>1, <2>3, <4>1
      <3>2. PICK h \in [Upto(n - 1) -> Nat] : Adds(f, Upto(n - 1), h)
            BY <3>1
      <3>. DEFINE g == [s \in Upto(n) |-> IF s = {} THEN 0 ELSE f[First(s)] + h[s \ {First(s)}]]
      <3>3. ASSUME NEW s \in Upto(n), s # {}
            PROVE  First(s) \in S /\ s \ {First(s)} \in Upto(n - 1)
        <4>1. First(s) \in s
              BY <3>3, FirstIn
        <4>2. Cardinality(s \ {First(s)}) = Cardinality(s) - 1
              BY <1>1, <4>1, FS_RemoveElement
        <4>. QED  BY <1>1, <3>1, <4>1, <4>2
      <3>4. g \in [Upto(n) -> Nat]
            BY <3>3
      <3>5. ASSUME NEW s \in Upto(n - 1)
            PROVE  s \in Upto(n) /\ g[s] = h[s]
        <4>1. s \in Upto(n)
              BY <1>1, <3>1
        <4>. QED  BY <3>2, <4>1 DEF Adds
      <3>6. Adds(f, Upto(n), g)
        <4>. SUFFICES ASSUME NEW s \in Upto(n), s # {}
                      PROVE  h[s \ {First(s)}] = g[s \ {First(s)}]
             BY DEF Adds
        <4>. QED  BY <3>3, <3>5
      <3>. QED  BY <2>1, <3>4, <3>6
    <2>. QED  BY <2>2, <2>3
  <1>3. Cardinality(S) \in Nat /\ Upto(Cardinality(S)) = SUBSET S
        BY <1>1, FS_Subset
  <1>4. PICK g \in [SUBSET S -> Nat] : Adds(f, SUBSET S, g)
        BY <1>2, <1>3
  <1>5. SumOf(f, S, g)
        BY <1>4 DEF Adds, SumOf
  <1>. QED  BY <1>5

LEMMA SumUnique ==
    ASSUME NEW S, IsFiniteSet(S), NEW f, NEW e, \A x \in S : f[x] = e[x],
           NEW R, S \subseteq R, NEW g, SumOf(f, S, g), NEW h, SumOf(e, R, h)
    PROVE  \A s \in SUBSET S : g[s] = h[s]
  <1>. DEFINE T == {s \in SUBSET S : g[s] # h[s]}
  <1>. SUFFICES ASSUME T # {} PROVE FALSE
       OBVIOUS
  <1>1. PICK s \in T : \A r \in T : r \subseteq s => r = s
    <2>1. T \in SUBSET SUBSET S
          OBVIOUS
    <2>. HIDE DEF T
    <2>. QED  BY <2>1, SmallestSet
  <1>2. s # {}
        BY DEF SumOf
  <1>3. First(s) \in s
        BY <1>2, FirstIn
  <1>4. s \ {First(s)} \notin T
        BY <1>1, <1>3
  <1>5. g[s \ {First(s)}] = h[s \ {First(s)}]
        BY <1>4
  <1>6. g[s] = f[First(s)] + g[s \ {First(s)}]
        BY <1>2 DEF SumOf
  <1>7. h[s] = e[First(s)] + h[s \ {First(s)}]
        BY <1>2 DEF SumOf
  <1>8. f[First(s)] = e[First(s)]
        BY <1>3
  <1>. QED  BY <1>5, <1>6, <1>7, <1>8

(* Sums that agree on what they add are the same.                           *)
LEMMA SumSame ==
    ASSUME NEW S, IsFiniteSet(S), NEW f, NEW e, \A x \in S : f[x] \in Nat /\ e[x] = f[x]
    PROVE  SumFunctionOnSet(e, S) = SumFunctionOnSet(f, S)
  <1>. DEFINE sum(d) == CHOOSE g : SumOf(d, S, g)
  <1>1. SumOf(f, S, sum(f)) /\ SumOf(e, S, sum(e))
        BY SumExists
  <1>2. SumFunctionOnSet(f, S) = sum(f)[S] /\ SumFunctionOnSet(e, S) = sum(e)[S]
        BY Unfold
  <1>. HIDE DEF sum
  <1>3. \A s \in SUBSET S : sum(e)[s] = sum(f)[s]
        BY <1>1, SumUnique
  <1>. QED  BY <1>2, <1>3

(* A sum is that of one of its elements and of the rest.                    *)
LEMMA SumLess ==
    ASSUME NEW S, IsFiniteSet(S), NEW f, \A x \in S : f[x] \in Nat
    PROVE  /\ SumFunctionOnSet(f, S) \in Nat
           /\ \A x \in S : SumFunctionOnSet(f, S) = f[x] + SumFunctionOnSet(f, S \ {x})
           /\ S = {} => SumFunctionOnSet(f, S) = 0
  <1>1. PICK g \in [SUBSET S -> Nat] : SumOf(f, S, g)
        BY SumExists
  <1>2. ASSUME NEW R \in SUBSET S
        PROVE  SumFunctionOnSet(f, R) = g[R]
    <2>1. IsFiniteSet(R) /\ \A x \in R : f[x] \in Nat
          BY FS_Subset
    <2>. DEFINE h == CHOOSE e : SumOf(f, R, e)
    <2>2. SumOf(f, R, h)
          BY <2>1, SumExists
    <2>3. SumFunctionOnSet(f, R) = h[R]
          BY Unfold
    <2>. HIDE DEF h
    <2>4. \A s \in SUBSET R : h[s] = g[s]
      <3>1. R \subseteq S /\ SumOf(f, S, g)
            BY <1>1
      <3>. QED  BY <2>1, <2>2, <3>1, SumUnique
    <2>. QED  BY <2>3, <2>4
  <1>. DEFINE T == {s \in SUBSET S : \E x \in s : g[s] # f[x] + g[s \ {x}]}
  <1>3. T = {}
    <2>. SUFFICES ASSUME T # {} PROVE FALSE
         OBVIOUS
    <2>1. PICK s \in T : \A r \in T : r \subseteq s => r = s
      <3>1. T \in SUBSET SUBSET S
            OBVIOUS
      <3>. HIDE DEF T
      <3>. QED  BY <3>1, SmallestSet
    <2>2. PICK x \in s : g[s] # f[x] + g[s \ {x}]
          BY <2>1
    <2>. DEFINE y == First(s)
    <2>3. y \in s /\ g[s] = f[y] + g[s \ {y}]
          BY <1>1, <2>2, FirstIn DEF SumOf
    <2>4. x # y
          BY <2>2, <2>3
    <2>. HIDE DEF y
    <2>5. s \ {x} \notin T /\ s \ {y} \notin T
          BY <2>1, <2>2, <2>3
    <2>6. s \ {x} \in SUBSET S /\ y \in s \ {x} /\ s \ {y} \in SUBSET S /\ x \in s \ {y}
          BY <2>3, <2>4
    <2>7. g[s \ {x}] = f[y] + g[(s \ {x}) \ {y}]
          BY <2>5, <2>6
    <2>8. g[s \ {y}] = f[x] + g[(s \ {y}) \ {x}]
          BY <2>5, <2>6
    <2>9. PICK z \in SUBSET S : z = (s \ {x}) \ {y} /\ z = (s \ {y}) \ {x}
          BY <2>6
    <2>10. f[x] \in Nat /\ f[y] \in Nat /\ g[z] \in Nat
          BY <1>1, <2>3, <2>9
    <2>11. g[s] = f[y] + (f[x] + g[z]) /\ g[s \ {x}] = f[y] + g[z]
          BY <2>3, <2>7, <2>8, <2>9
    <2>12. f[y] + (f[x] + g[z]) = f[x] + (f[y] + g[z])
          BY <2>10
    <2>. QED  BY <2>2, <2>11, <2>12
  <1>4. S = {} => g[S] = 0
        BY <1>1 DEF SumOf
  <1>5. SumFunctionOnSet(f, S) = g[S] /\ \A x \in S : SumFunctionOnSet(f, S \ {x}) = g[S \ {x}]
        BY <1>2
  <1>6. \A x \in S : g[S] = f[x] + g[S \ {x}]
        BY <1>3
  <1>. HIDE DEF T
  <1>. QED  BY <1>1, <1>4, <1>5, <1>6

(* A sum over less is less.                                                 *)
LEMMA SumSubset ==
    ASSUME NEW S, IsFiniteSet(S), NEW f, \A x \in S : f[x] \in Nat, NEW R \in SUBSET S
    PROVE  SumFunctionOnSet(f, R) <= SumFunctionOnSet(f, S)
  <1>. DEFINE T == {s \in SUBSET S : R \subseteq s /\ ~(SumFunctionOnSet(f, R) <= SumFunctionOnSet(f, s))}
  <1>. SUFFICES ASSUME T # {} PROVE FALSE
       OBVIOUS
  <1>1. PICK s \in T : \A r \in T : r \subseteq s => r = s
    <2>1. T \in SUBSET SUBSET S
          OBVIOUS
    <2>. HIDE DEF T
    <2>. QED  BY <2>1, SmallestSet
  <1>2. IsFiniteSet(s) /\ IsFiniteSet(R)
        BY FS_Subset
  <1>3. SumFunctionOnSet(f, R) \in Nat
        BY <1>2, SumLess
  <1>4. PICK x \in s \ R : TRUE
        BY <1>3
  <1>5. s \ {x} \notin T /\ R \subseteq s \ {x}
        BY <1>1, <1>4
  <1>6. IsFiniteSet(s \ {x})
        BY <1>2, FS_Subset
  <1>7. SumFunctionOnSet(f, s) = f[x] + SumFunctionOnSet(f, s \ {x})
        BY <1>2, <1>4, SumLess
  <1>8. SumFunctionOnSet(f, s \ {x}) \in Nat /\ f[x] \in Nat
        BY <1>4, <1>6, SumLess
  <1>. QED  BY <1>3, <1>5, <1>7, <1>8

-----------------------------------------------------------------------------
(* The invariant of the bodies *)

Resting == {"idle", "claim", "poll"}
Places  == Resting \cup {"recheck", "locate", "fetch", "attach", "star", "cache", "check",
                         "restar", "release"}
Numbers == 0..MaxBody
Locals  == [at : Places, id : Ids \cup {NoId}, body : Numbers, star : BOOLEAN, val : Nat,
            waits : Nat, lost : BOOLEAN]
Ops     == [at : {"idle", "flag", "fetch", "save", "move"}, id : Ids \cup {NoId},
            on : BOOLEAN, body : Numbers, star : BOOLEAN, val : Nat, to : Ids \cup {NoId}]
Servers == [validity : Nat, at : [Ids -> Numbers], star : [Ids -> BOOLEAN],
            used : SUBSET Ids, next : 1..(MaxBody + 1)]

Rows == row \in [Ids -> Numbers] /\ flagged \in [Ids -> BOOLEAN] /\ starred \in [Ids -> Numbers]
Claims == claim \in [Ids -> Fetchers \cup {NoOne, Orphan}]
Tasks == /\ task \in [Fetchers -> Locals]
         /\ \A t \in Fetchers : task[t].at # "idle" => task[t].id \in Ids
User == /\ user \in Ops
        /\ user.at # "idle" => user.id \in Ids
        /\ user.at = "save" => user.body # 0

IInv == /\ server \in Servers /\ catalog \in Nat
        /\ Rows /\ Claims /\ Tasks /\ User
        /\ OneFetch /\ StarredOnlyWhileFlagged

LEMMA NumbersIn == ASSUME BodyAssumption PROVE 0 \in Numbers /\ Numbers \subseteq Nat
  BY DEF BodyAssumption, Numbers

-----------------------------------------------------------------------------
(* What the locals of a fetch become *)

LEMMA IdleTyped ==
    ASSUME BodyAssumption
    PROVE  /\ Idle \in Locals /\ Idle.at = "idle" /\ Idle.id = NoId
           /\ NoOp \in Ops /\ NoOp.at = "idle"
  BY NumbersIn DEF Idle, Locals, Places, Resting, NoOp, Ops

LEMMA EndTyped ==
    ASSUME BodyAssumption, NEW l \in Locals
    PROVE  /\ Ending(l) \in Locals /\ Ending(l).at = "release"
           /\ Ending(l).id = l.id /\ Ending(l).lost = l.lost
  BY IdleTyped DEF Ending, Locals, Places, Resting, Idle

LEMMA GoTyped ==
    ASSUME NEW l \in Locals, NEW at \in Places
    PROVE  LET n == [l EXCEPT !.at = at]
           IN  n \in Locals /\ n.at = at /\ n.id = l.id /\ n.lost = l.lost
  BY DEF Locals

LEMMA LoseTyped ==
    ASSUME NEW l \in Locals
    PROVE  LET n == [l EXCEPT !.lost = TRUE]
           IN  n \in Locals /\ n.at = l.at /\ n.id = l.id /\ n.lost
  BY DEF Locals

(* A step of one fetch that leaves the claims and the rows alone.           *)
Bounded == /\ starred' \in [Ids -> Numbers]
           /\ \A i \in Ids : starred'[i] # 0 => row[i] # 0 /\ flagged[i]

LEMMA FetchKeeps ==
    ASSUME IInv, NEW t \in Fetchers, NEW l \in Locals, Now(t, l), Bounded,
           UNCHANGED <<server, catalogue, claims, user>>,
           l.at # "idle" => l.id \in Ids,
           l.at \notin Resting => Working(t) /\ l.id = task[t].id /\ l.lost = task[t].lost
    PROVE  IInv'
  <1>1. /\ task' \in [Fetchers -> Locals] /\ task'[t] = l
        /\ \A x \in Fetchers \ {t} : task'[x] = task[x]
        BY DEF Now, IInv, Tasks
  <1>2. UNCHANGED <<server, catalog, row, flagged, claim, user>>
        BY DEF catalogue, claims
  <1>3. Tasks'
        BY <1>1 DEF IInv, Tasks
  <1>4. OneFetch'
    <2>. SUFFICES ASSUME NEW x \in Fetchers, task'[x].at \notin Resting, ~task'[x].lost
                  PROVE  claim[task'[x].id] = x
          BY <1>2 DEF OneFetch, Working, Resting
    <2>1. CASE x = t
          BY <1>1, <2>1 DEF IInv, OneFetch
    <2>2. CASE x # t
          BY <1>1, <2>2 DEF IInv, OneFetch, Working, Resting
    <2>. QED  BY <2>1, <2>2
  <1>5. Rows' /\ StarredOnlyWhileFlagged'
        BY <1>2 DEF IInv, Rows, Bounded, StarredOnlyWhileFlagged
  <1>6. Claims' /\ User'
        BY <1>2 DEF IInv, Claims, User
  <1>. QED  BY <1>2, <1>3, <1>4, <1>5, <1>6 DEF IInv

LEMMA EndKeeps ==
    ASSUME BodyAssumption, IInv, NEW t \in Fetchers, Working(t), End(t), Bounded,
           UNCHANGED <<server, catalogue, claims, user>>
    PROVE  IInv'
  <1>1. task[t] \in Locals /\ task[t].id \in Ids
        BY DEF IInv, Tasks, Working
  <1>2. Now(t, Ending(task[t]))
        BY DEF End
  <1>. QED  BY <1>1, <1>2, EndTyped, FetchKeeps

LEMMA GoKeeps ==
    ASSUME IInv, NEW t \in Fetchers, task[t].at # "idle", NEW at \in Places, Go(t, at), Bounded,
           at \notin Resting => Working(t),
           UNCHANGED <<server, catalogue, claims, user>>
    PROVE  IInv'
  <1>. DEFINE l == [task[t] EXCEPT !.at = at]
  <1>1. task[t] \in Locals /\ task[t].id \in Ids
        BY DEF IInv, Tasks
  <1>2. l \in Locals /\ l.at = at /\ l.id = task[t].id /\ l.lost = task[t].lost
        BY <1>1, GoTyped
  <1>3. Now(t, l)
        BY DEF Go
  <1>. HIDE DEF l
  <1>. QED  BY <1>1, <1>2, <1>3, FetchKeeps

LEMMA GoOrEndKeeps ==
    ASSUME BodyAssumption, IInv, NEW t \in Fetchers, Working(t), NEW at \in Places,
           NEW end, GoOrEnd(t, end, at), Bounded,
           UNCHANGED <<server, catalogue, claims, user>>
    PROVE  IInv'
  <1>1. CASE end
        BY <1>1, EndKeeps DEF GoOrEnd
  <1>2. CASE ~end
        BY <1>2, GoKeeps DEF GoOrEnd, Working
  <1>. QED  BY <1>1, <1>2

LEMMA SameStarred ==
    ASSUME IInv, starred' = starred
    PROVE  Bounded
  BY DEF IInv, Rows, StarredOnlyWhileFlagged, Bounded

LEMMA KeptStarred ==
    ASSUME IInv, NEW i \in Ids, NEW b \in Numbers,
           starred' = IF Keeps(i) THEN [starred EXCEPT ![i] = b] ELSE starred
    PROVE  Bounded
  BY DEF IInv, Rows, StarredOnlyWhileFlagged, Bounded, Keeps

-----------------------------------------------------------------------------
(* The steps of a fetch *)

LEMMA OpenKeeps ==
    ASSUME BodyAssumption, IInv, NEW t \in Fetchers, NEW i \in Ids, Open(t, i)
    PROVE  IInv'
  <1>1. Bounded /\ UNCHANGED <<server, catalogue, claims, user>>
        BY SameStarred DEF Open, counters
  <1>2. CASE Now(t, [Idle EXCEPT !.at = "claim", !.id = i])
    <2>. DEFINE l == [Idle EXCEPT !.at = "claim", !.id = i]
    <2>1. l \in Locals /\ l.at = "claim" /\ l.id = i
          BY NumbersIn DEF Idle, Locals, Places, Resting
    <2>2. Now(t, l)
          BY <1>2
    <2>. HIDE DEF l
    <2>. QED  BY <1>1, <2>1, <2>2, FetchKeeps DEF Resting
  <1>3. CASE UNCHANGED task
    <2>1. UNCHANGED <<server, catalog, row, flagged, claim, user, starred, task>>
          BY <1>3 DEF Open, catalogue, claims
    <2>. QED  BY <2>1 DEF IInv, Rows, Claims, Tasks, User, OneFetch, Working, StarredOnlyWhileFlagged
  <1>. QED  BY <1>2, <1>3 DEF Open

(* A claim is taken, from whoever held it.                                  *)
LEMMA ClaimKeeps ==
    ASSUME BodyAssumption, IInv, NEW t \in Fetchers, NEW i \in Ids, NEW l \in Locals, l.id = i,
           Claim(t, i, l), UNCHANGED <<server, catalogue, starred, user>>
    PROVE  IInv'
  <1>1. /\ claim' \in [Ids -> Fetchers \cup {NoOne, Orphan}] /\ claim'[i] = t
        /\ \A j \in Ids \ {i} : claim'[j] = claim[j]
        BY DEF Claim, IInv, Claims
  <1>2. /\ task' = [x \in Fetchers |-> task'[x]] /\ task'[t] = l
        /\ \A x \in Fetchers \ {t} :
              task'[x] = IF claim[i] = x THEN [task[x] EXCEPT !.lost = TRUE] ELSE task[x]
        BY DEF Claim, Losing
  <1>3. ASSUME NEW x \in Fetchers \ {t}
        PROVE  /\ task'[x] \in Locals /\ task'[x].at = task[x].at /\ task'[x].id = task[x].id
               /\ ~task'[x].lost => ~task[x].lost /\ claim[i] # x
    <2>1. task[x] \in Locals
          BY DEF IInv, Tasks
    <2>2. CASE claim[i] = x
          BY <1>2, <2>1, <2>2, LoseTyped
    <2>3. CASE claim[i] # x
          BY <1>2, <2>1, <2>3
    <2>. QED  BY <2>2, <2>3
  <1>4. UNCHANGED <<server, catalog, row, flagged, starred, user>>
        BY DEF catalogue
  <1>5. Tasks'
    <2>1. \A x \in Fetchers : task'[x] \in Locals
          BY <1>2, <1>3
    <2>2. \A x \in Fetchers : task'[x].at # "idle" => task'[x].id \in Ids
          BY <1>2, <1>3 DEF IInv, Tasks
    <2>. QED  BY <1>2, <2>1, <2>2 DEF Tasks
  <1>6. OneFetch'
    <2>. SUFFICES ASSUME NEW x \in Fetchers, Working(x)', ~task'[x].lost
                  PROVE  claim'[task'[x].id] = x
          BY DEF OneFetch
    <2>1. CASE x = t
          BY <1>1, <1>2, <2>1
    <2>2. CASE x # t
      <3>1. Working(x) /\ ~task[x].lost /\ claim[i] # x /\ task'[x].id = task[x].id
            BY <1>3, <2>2 DEF Working
      <3>2. task[x].id \in Ids /\ claim[task[x].id] = x
            BY <3>1 DEF IInv, OneFetch, Tasks, Working
      <3>. QED  BY <1>1, <3>1, <3>2
    <2>. QED  BY <2>1, <2>2
  <1>7. Rows' /\ StarredOnlyWhileFlagged' /\ User'
        BY <1>4 DEF IInv, Rows, StarredOnlyWhileFlagged, User
  <1>. QED  BY <1>1, <1>4, <1>5, <1>6, <1>7 DEF IInv, Claims

LEMMA OpenClaimKeeps ==
    ASSUME BodyAssumption, IInv, NEW t \in Fetchers, OpenClaim(t)
    PROVE  IInv'
  <1>1. /\ task[t] \in Locals /\ task[t].at = "claim" /\ task[t].id \in Ids
        /\ UNCHANGED <<server, catalogue, starred, user>> /\ Bounded
        BY SameStarred DEF OpenClaim, At, IInv, Tasks, bodies
  <1>2. CASE Claim(t, task[t].id, [task[t] EXCEPT !.at = "recheck"])
    <2>. DEFINE l == [task[t] EXCEPT !.at = "recheck"]
    <2>1. l \in Locals /\ l.id = task[t].id
          BY <1>1, GoTyped DEF Places
    <2>2. Claim(t, task[t].id, l)
          BY <1>2
    <2>. HIDE DEF l
    <2>. QED  BY <1>1, <2>1, <2>2, ClaimKeeps
  <1>3. CASE Now(t, Idle) /\ UNCHANGED claims
        BY <1>1, <1>3, IdleTyped, FetchKeeps DEF Resting
  <1>4. CASE Go(t, "poll") /\ UNCHANGED claims
        BY <1>1, <1>4, GoKeeps DEF Places, Resting
  <1>. QED  BY <1>2, <1>3, <1>4 DEF OpenClaim

LEMMA WarmKeeps ==
    ASSUME BodyAssumption, IInv, NEW t \in Fetchers, NEW i \in Ids, Warm(t, i)
    PROVE  IInv'
  <1>. DEFINE l == [Idle EXCEPT !.at = "locate", !.id = i]
  <1>1. l \in Locals /\ l.id = i
        BY NumbersIn DEF Idle, Locals, Places, Resting
  <1>2. Claim(t, i, l) /\ UNCHANGED <<server, catalogue, starred, user>>
        BY DEF Warm, bodies
  <1>. HIDE DEF l
  <1>. QED  BY <1>1, <1>2, ClaimKeeps

LEMMA PollKeeps ==
    ASSUME BodyAssumption, IInv, NEW t \in Fetchers, Poll(t)
    PROVE  IInv'
  <1>1. /\ task[t] \in Locals /\ task[t].at = "poll" /\ task[t].id \in Ids
        /\ UNCHANGED <<server, catalogue, claims, user>> /\ Bounded
        BY SameStarred DEF Poll, At, IInv, Tasks
  <1>2. CASE Now(t, Idle)
        BY <1>1, <1>2, IdleTyped, FetchKeeps DEF Resting
  <1>3. CASE Now(t, [task[t] EXCEPT !.at = "claim", !.waits = Waited(task[t])])
    <2>. DEFINE l == [task[t] EXCEPT !.at = "claim", !.waits = Waited(task[t])]
    <2>1. Waited(task[t]) \in Nat
          BY <1>1 DEF Waited, Locals
    <2>2. l \in Locals /\ l.at = "claim" /\ l.id = task[t].id
          BY <1>1, <2>1 DEF Locals, Places, Resting
    <2>3. Now(t, l)
          BY <1>3
    <2>. HIDE DEF l
    <2>. QED  BY <1>1, <2>2, <2>3, FetchKeeps DEF Resting
  <1>. QED  BY <1>2, <1>3 DEF Poll

LEMMA RecheckKeeps ==
    ASSUME BodyAssumption, IInv, NEW t \in Fetchers, Recheck(t)
    PROVE  IInv'
  BY SameStarred, GoOrEndKeeps DEF Recheck, At, Working, Places

LEMMA LocateKeeps ==
    ASSUME BodyAssumption, IInv, NEW t \in Fetchers, Locate(t)
    PROVE  IInv'
  <1>1. /\ task[t] \in Locals /\ Working(t) /\ task[t].id \in Ids
        /\ UNCHANGED <<server, catalogue, claims, user>> /\ Bounded
        BY SameStarred DEF Locate, Working, IInv, Tasks, bodies
  <1>2. CASE End(t)
        BY <1>1, <1>2, EndKeeps
  <1>3. CASE Now(t, [task[t] EXCEPT !.at = "fetch", !.val = catalog])
    <2>. DEFINE l == [task[t] EXCEPT !.at = "fetch", !.val = catalog]
    <2>1. l \in Locals /\ l.at = "fetch" /\ l.id = task[t].id /\ l.lost = task[t].lost
          BY <1>1 DEF Locals, Places, Resting, IInv
    <2>2. Now(t, l)
          BY <1>3
    <2>. HIDE DEF l
    <2>. QED  BY <1>1, <2>1, <2>2, FetchKeeps DEF Resting
  <1>. QED  BY <1>2, <1>3 DEF Locate

LEMMA FetchBodyKeeps ==
    ASSUME BodyAssumption, IInv, NEW t \in Fetchers, Fetch(t)
    PROVE  IInv'
  <1>1. /\ task[t] \in Locals /\ Working(t) /\ task[t].id \in Ids
        /\ UNCHANGED <<server, catalogue, claims, user>> /\ Bounded
        BY SameStarred DEF Fetch, Working, IInv, Tasks, bodies
  <1>2. CASE End(t)
        BY <1>1, <1>2, EndKeeps
  <1>3. CASE Now(t, [task[t] EXCEPT !.at = "attach", !.val = 0,
                        !.body = server.at[task[t].id], !.star = server.star[task[t].id]])
    <2>. DEFINE l == [task[t] EXCEPT !.at = "attach", !.val = 0,
                        !.body = server.at[task[t].id], !.star = server.star[task[t].id]]
    <2>1. server.at[task[t].id] \in Numbers /\ server.star[task[t].id] \in BOOLEAN
          BY <1>1 DEF IInv, Servers
    <2>2. l \in Locals /\ l.at = "attach" /\ l.id = task[t].id /\ l.lost = task[t].lost
          BY <1>1, <2>1 DEF Locals, Places, Resting
    <2>3. Now(t, l)
          BY <1>3
    <2>. HIDE DEF l
    <2>. QED  BY <1>1, <2>2, <2>3, FetchKeeps DEF Resting
  <1>. QED  BY <1>2, <1>3 DEF Fetch

LEMMA AttachKeeps ==
    ASSUME BodyAssumption, IInv, NEW t \in Fetchers, Attach(t)
    PROVE  IInv'
  <1>1. /\ Working(t) /\ UNCHANGED <<server, catalogue, claims, user>> /\ Bounded
        BY SameStarred DEF Attach, Working, bodies
  <1>. DEFINE at == IF row[task[t].id] # 0 /\ task[t].star THEN "star" ELSE "cache"
  <1>2. at \in Places
        BY DEF Places
  <1>3. PICK end : GoOrEnd(t, end, at)
        BY DEF Attach
  <1>. HIDE DEF at
  <1>. QED  BY <1>1, <1>2, <1>3, GoOrEndKeeps

LEMMA StoringKeeps ==
    ASSUME BodyAssumption, IInv, NEW t \in Fetchers, Star(t) \/ Cache(t) \/ Check(t) \/ Restar(t)
    PROVE  IInv'
  <1>1. /\ Working(t) /\ UNCHANGED <<server, catalogue, claims, user>>
        BY DEF Star, Cache, Check, Restar, At, Working
  <1>2. task[t].id \in Ids /\ task[t].body \in Numbers
        BY <1>1 DEF Working, IInv, Tasks, Locals
  <1>3. Bounded
        BY <1>2, SameStarred, KeptStarred DEF Star, Cache, Check, Restar
  <1>4. CASE End(t)
        BY <1>1, <1>3, <1>4, EndKeeps
  <1>5. CASE \E at \in {"cache", "check", "restar"} : \E end : GoOrEnd(t, end, at)
    <2>1. {"cache", "check", "restar"} \subseteq Places
          BY DEF Places
    <2>. QED  BY <1>1, <1>3, <1>5, <2>1, GoOrEndKeeps
  <1>. QED  BY <1>4, <1>5 DEF Star, Cache, Check, Restar

LEMMA CancelKeeps ==
    ASSUME BodyAssumption, IInv, NEW t \in Fetchers, Cancel(t)
    PROVE  IInv'
  BY SameStarred, EndKeeps DEF Cancel, bodies

LEMMA ReleaseKeeps ==
    ASSUME BodyAssumption, IInv, NEW t \in Fetchers, Release(t)
    PROVE  IInv'
  <1>1. UNCHANGED <<server, catalog, row, flagged, starred, user>>
        BY DEF Release, catalogue, bodies
  <1>2. /\ task' \in [Fetchers -> Locals] /\ task'[t].at = "idle"
        /\ \A x \in Fetchers \ {t} : task'[x] = task[x]
        BY IdleTyped DEF Release, Now, IInv, Tasks
  <1>3. task[t].id \in Ids
        BY DEF Release, At, IInv, Tasks
  <1>4. /\ Claims'
        /\ \A j \in Ids : claim'[j] # claim[j] => claim[j] = t
        BY <1>3 DEF Release, Releases, IInv, Claims
  <1>5. Tasks'
        BY <1>2 DEF IInv, Tasks
  <1>6. OneFetch'
    <2>. SUFFICES ASSUME NEW x \in Fetchers, Working(x)', ~task'[x].lost
                  PROVE  claim'[task'[x].id] = x
          BY DEF OneFetch
    <2>1. x # t /\ task'[x] = task[x]
          BY <1>2 DEF Working
    <2>2. claim[task[x].id] = x /\ task[x].id \in Ids
          BY <2>1 DEF Working, IInv, OneFetch, Tasks
    <2>. QED  BY <1>4, <2>1, <2>2
  <1>7. Rows' /\ StarredOnlyWhileFlagged' /\ User'
        BY <1>1 DEF IInv, Rows, StarredOnlyWhileFlagged, User
  <1>. QED  BY <1>1, <1>4, <1>5, <1>6, <1>7 DEF IInv

-----------------------------------------------------------------------------
(* Faults *)

LEMMA CrashKeeps ==
    ASSUME BodyAssumption, IInv, Crash
    PROVE  IInv'
  <1>1. UNCHANGED <<server, catalog, row, flagged, starred>>
        BY DEF Crash, catalogue, bodies
  <1>2. /\ task' \in [Fetchers -> Locals]
        /\ \A x \in Fetchers : task'[x].at = "idle"
        BY IdleTyped DEF Crash
  <1>3. Claims'
        BY DEF Crash, IInv, Claims
  <1>4. Tasks' /\ OneFetch'
        BY <1>2 DEF Tasks, OneFetch, Working
  <1>5. User'
        BY IdleTyped DEF Crash, User
  <1>6. Rows' /\ StarredOnlyWhileFlagged'
        BY <1>1 DEF IInv, Rows, StarredOnlyWhileFlagged
  <1>. QED  BY <1>1, <1>3, <1>4, <1>5, <1>6 DEF IInv

LEMMA SameKeeps ==
    ASSUME IInv, server' \in Servers,
           UNCHANGED <<catalog, row, flagged, starred, claim, task, user>>
    PROVE  IInv'
  BY DEF IInv, Rows, Claims, Tasks, User, OneFetch, Working, StarredOnlyWhileFlagged

LEMMA LeaseKeeps ==
    ASSUME IInv, NEW i \in Ids, Lapse(i) \/ Renew(i)
    PROVE  IInv'
  <1>1. UNCHANGED <<server, catalog, row, flagged, starred, claim, task, user>>
        BY DEF Lapse, Renew, catalogue, bodies
  <1>. QED  BY <1>1, SameKeeps DEF IInv

-----------------------------------------------------------------------------
(* The server *)

LEMMA MailboxKeeps ==
    ASSUME BodyAssumption, IInv, server' \in Servers, UNCHANGED <<catalogue, bodies, claims, task, user>>
    PROVE  IInv'
  BY SameKeeps DEF catalogue, bodies, claims

LEMMA DeliverKeeps ==
    ASSUME BodyAssumption, IInv, NEW i \in Ids, Deliver(i)
    PROVE  IInv'
  <1>1. PICK star \in BOOLEAN :
            server' = [server EXCEPT !.at[i] = server.next, !.star[i] = star,
                                     !.used = @ \cup {i}, !.next = @ + 1]
        BY DEF Deliver
  <1>2. server \in Servers
        BY DEF IInv
  <1>3. server.next \in Numbers /\ server.next + 1 \in 1..(MaxBody + 1)
        BY SMTT(30), <1>2 DEF Servers, Deliver, Numbers, BodyAssumption
  <1>4. server' \in Servers
        BY <1>1, <1>2, <1>3 DEF Servers
  <1>. QED  BY <1>4, MailboxKeeps DEF Deliver, counters

LEMMA ElsewhereKeeps ==
    ASSUME BodyAssumption, IInv, NEW i \in Ids, ExpungeElsewhere(i) \/ StarElsewhere(i)
    PROVE  IInv'
  <1>1. server \in Servers /\ server.star[i] \in BOOLEAN
        BY DEF IInv, Servers
  <1>2. CASE ExpungeElsewhere(i)
    <2>1. server' \in Servers
          BY <1>1, <1>2, NumbersIn DEF ExpungeElsewhere, Servers
    <2>. QED  BY <1>2, <2>1, MailboxKeeps DEF ExpungeElsewhere
  <1>3. CASE StarElsewhere(i)
    <2>1. PICK b \in BOOLEAN : server' = [server EXCEPT !.star[i] = b]
          BY <1>1, <1>3 DEF StarElsewhere
    <2>2. server' \in Servers
          BY <1>1, <2>1 DEF Servers
    <2>. QED  BY <1>3, <2>2, MailboxKeeps DEF StarElsewhere
  <1>. QED  BY <1>2, <1>3

LEMMA RecreateKeeps ==
    ASSUME BodyAssumption, IInv, Recreate
    PROVE  IInv'
  <1>. DEFINE last(is) == server.next + Cardinality(is) - 1
  <1>1. PICK is \in SUBSET Ids : last(is) <= MaxBody /\ \E at \in Bijection(is, server.next..last(is)) :
            server' = [validity |-> server.validity + 1,
                       at   |-> [i \in Ids |-> IF i \in is THEN at[i] ELSE 0],
                       star |-> [i \in Ids |-> FALSE], used |-> is,
                       next |-> last(is) + 1]
        BY DEF Recreate
  <1>2. PICK at \in Bijection(is, server.next..last(is)) :
            server' = [validity |-> server.validity + 1,
                       at   |-> [i \in Ids |-> IF i \in is THEN at[i] ELSE 0],
                       star |-> [i \in Ids |-> FALSE], used |-> is,
                       next |-> last(is) + 1]
        BY <1>1
  <1>3. server.next \in Nat \ {0} /\ server.validity + 1 \in Nat
        BY DEF IInv, Servers
  <1>4. Cardinality(is) \in Nat
        BY FS_Subset, FS_CardinalityType DEF BodyAssumption
  <1>5. last(is) \in Nat /\ last(is) + 1 \in 1..(MaxBody + 1)
    <2>1. server.next + Cardinality(is) - 1 <= MaxBody
          BY <1>1
    <2>2. MaxBody \in Nat
          BY DEF BodyAssumption
    <2>. QED  BY <1>3, <1>4, <2>1, <2>2
  <1>. HIDE DEF last
  <1>6. at \in [is -> server.next..last(is)]
        BY <1>2 DEF Bijection, Injection
  <1>7. \A i \in is : at[i] \in Numbers
        BY <1>1, <1>3, <1>5, <1>6 DEF Numbers, BodyAssumption
  <1>8. [i \in Ids |-> IF i \in is THEN at[i] ELSE 0] \in [Ids -> Numbers]
        BY <1>7, NumbersIn
  <1>9. [i \in Ids |-> FALSE] \in [Ids -> BOOLEAN]
        OBVIOUS
  <1>10. server' \in Servers
        BY <1>2, <1>3, <1>5, <1>8, <1>9 DEF Servers
  <1>. QED  BY <1>10, MailboxKeeps DEF Recreate, counters

-----------------------------------------------------------------------------
(* Synchronization *)

(* Rows that change while the claims and the tasks stay.                    *)
LEMMA RowsKeep ==
    ASSUME IInv, server' \in Servers, Rows', StarredOnlyWhileFlagged', User',
           UNCHANGED <<catalog, claim, task>>
    PROVE  IInv'
  BY DEF IInv, Claims, Tasks, OneFetch, Working

LEMMA PersistKeeps ==
    ASSUME BodyAssumption, IInv, NEW i \in Ids, Persist(i)
    PROVE  IInv'
  <1>1. /\ server.at[i] \in Numbers \ {0} /\ server.star[i] \in BOOLEAN
        BY DEF Persist, IInv, Servers
  <1>2. /\ row' = [row EXCEPT ![i] = server.at[i]]
        /\ flagged' = [flagged EXCEPT ![i] = server.star[i]]
        /\ starred' = IF server.star[i] THEN starred ELSE [starred EXCEPT ![i] = 0]
        /\ UNCHANGED <<server, catalog, claim, task, user>>
        BY DEF Persist, StarredAfter, claims
  <1>3. Rows'
        BY <1>1, <1>2, NumbersIn DEF IInv, Rows
  <1>4. StarredOnlyWhileFlagged'
        BY <1>1, <1>2 DEF IInv, Rows, StarredOnlyWhileFlagged
  <1>5. User'
        BY <1>2 DEF IInv, User
  <1>. QED  BY <1>2, <1>3, <1>4, <1>5, RowsKeep DEF IInv

LEMMA SyncFlagsKeeps ==
    ASSUME BodyAssumption, IInv, NEW i \in Ids, SyncFlags(i)
    PROVE  IInv'
  <1>1. server.star[i] \in BOOLEAN /\ row[i] # 0
        BY DEF SyncFlags, IInv, Servers
  <1>2. /\ flagged' = [flagged EXCEPT ![i] = server.star[i]]
        /\ starred' = IF server.star[i] THEN starred ELSE [starred EXCEPT ![i] = 0]
        /\ UNCHANGED <<server, catalog, row, claim, task, user>>
        BY DEF SyncFlags, StarredAfter, claims
  <1>3. Rows'
        BY <1>1, <1>2, NumbersIn DEF IInv, Rows
  <1>4. StarredOnlyWhileFlagged'
        BY <1>1, <1>2 DEF IInv, Rows, StarredOnlyWhileFlagged
  <1>5. User'
        BY <1>2 DEF IInv, User
  <1>. QED  BY <1>2, <1>3, <1>4, <1>5, RowsKeep DEF IInv

(* Claims that are revoked are lost to who had them.                        *)
LEMMA RevokedKeeps ==
    ASSUME BodyAssumption, IInv, NEW is, Revoked(is)
    PROVE  Claims' /\ Tasks' /\ OneFetch'
  <1>1. claim' = [i \in Ids |-> IF i \in is THEN NoOne ELSE claim[i]]
        BY DEF Revoked
  <1>2. ASSUME NEW x \in Fetchers
        PROVE  /\ task'[x] \in Locals /\ task'[x].at = task[x].at /\ task'[x].id = task[x].id
               /\ ~task'[x].lost => ~task[x].lost /\ \A i \in is : claim[i] # x
    <2>1. task[x] \in Locals
          BY DEF IInv, Tasks
    <2>2. CASE \E i \in is : claim[i] = x
          BY <2>1, <2>2, LoseTyped DEF Revoked
    <2>3. CASE ~\E i \in is : claim[i] = x
          BY <2>1, <2>3 DEF Revoked
    <2>. QED  BY <2>2, <2>3
  <1>3. Claims'
        BY <1>1 DEF IInv, Claims
  <1>4. Tasks'
    <2>1. task' = [x \in Fetchers |-> task'[x]]
          BY DEF Revoked
    <2>. QED  BY <1>2, <2>1 DEF IInv, Tasks
  <1>5. OneFetch'
    <2>. SUFFICES ASSUME NEW x \in Fetchers, Working(x)', ~task'[x].lost
                  PROVE  claim'[task'[x].id] = x
          BY DEF OneFetch
    <2>1. Working(x) /\ ~task[x].lost /\ task'[x].id = task[x].id
          BY <1>2 DEF Working
    <2>2. task[x].id \in Ids /\ claim[task[x].id] = x
          BY <2>1 DEF IInv, OneFetch, Tasks, Working
    <2>3. task[x].id \notin is
          BY <1>2, <2>2
    <2>. QED  BY <1>1, <2>1, <2>2, <2>3
  <1>. QED  BY <1>3, <1>4, <1>5

LEMMA VanishKeeps ==
    ASSUME BodyAssumption, IInv, NEW i \in Ids, Vanish(i)
    PROVE  IInv'
  <1>1. /\ row' = [j \in Ids |-> IF j \in {i} THEN 0 ELSE row[j]]
        /\ flagged' = [j \in Ids |-> j \notin {i} /\ flagged[j]]
        /\ starred' = [j \in Ids |-> IF j \in {i} THEN 0 ELSE starred[j]]
        /\ Revoked({i}) /\ UNCHANGED <<server, catalog, user>>
        BY DEF Vanish, Cascade
  <1>2. Rows'
        BY <1>1, NumbersIn DEF IInv, Rows
  <1>3. StarredOnlyWhileFlagged'
        BY <1>1 DEF IInv, Rows, StarredOnlyWhileFlagged
  <1>4. User'
        BY <1>1 DEF IInv, User
  <1>5. Claims' /\ Tasks' /\ OneFetch'
        BY <1>1, RevokedKeeps
  <1>. QED  BY <1>1, <1>2, <1>3, <1>4, <1>5 DEF IInv

LEMMA PublishKeeps ==
    ASSUME BodyAssumption, IInv, Publish
    PROVE  IInv'
  <1>1. /\ catalog' = server.validity /\ row' = server.at /\ flagged' = server.star
        /\ starred' = [i \in Ids |-> 0] /\ Revoked(Ids) /\ UNCHANGED <<server, user>>
        BY DEF Publish
  <1>2. Rows' /\ catalog' \in Nat
        BY <1>1, NumbersIn DEF IInv, Rows, Servers
  <1>3. StarredOnlyWhileFlagged'
        BY <1>1 DEF StarredOnlyWhileFlagged
  <1>4. User'
        BY <1>1 DEF IInv, User
  <1>5. Claims' /\ Tasks' /\ OneFetch'
        BY <1>1, RevokedKeeps
  <1>. QED  BY <1>1, <1>2, <1>3, <1>4, <1>5 DEF IInv

-----------------------------------------------------------------------------
(* The user *)

LEMMA StarStoreKeeps ==
    ASSUME BodyAssumption, IInv, NEW i \in Ids, NEW on \in BOOLEAN, StarStore(i, on)
    PROVE  IInv'
  <1>1. server' \in Servers
    <2>1. server \in Servers
          BY DEF IInv
    <2>. QED  BY <2>1 DEF StarStore, Servers
  <1>2. User'
    <2>1. user' = [NoOp EXCEPT !.at = "flag", !.id = i, !.on = on]
          BY DEF StarStore
    <2>. QED  BY <2>1, NumbersIn DEF User, Ops, NoOp
  <1>3. UNCHANGED <<catalog, row, flagged, starred, claim, task>>
        BY DEF StarStore, catalogue, bodies, claims
  <1>4. Rows' /\ StarredOnlyWhileFlagged'
        BY <1>3 DEF IInv, Rows, StarredOnlyWhileFlagged
  <1>. QED  BY <1>1, <1>2, <1>3, <1>4, RowsKeep

LEMMA StarFlagKeeps ==
    ASSUME BodyAssumption, IInv, StarFlag
    PROVE  IInv'
  <1>1. user \in Ops /\ user.id \in Ids /\ user.on \in BOOLEAN
        BY DEF StarFlag, IInv, User, Ops
  <1>2. /\ flagged' = [flagged EXCEPT ![user.id] = row[user.id] # 0 /\ user.on]
        /\ starred' = IF user.on THEN starred ELSE [starred EXCEPT ![user.id] = 0]
        /\ user' = IF user.on THEN [user EXCEPT !.at = "fetch", !.val = catalog] ELSE NoOp
        /\ UNCHANGED <<server, catalog, row, claim, task>>
        BY DEF StarFlag, StarredAfter, claims
  <1>3. Rows'
        BY <1>1, <1>2, NumbersIn DEF IInv, Rows
  <1>4. StarredOnlyWhileFlagged'
        BY <1>1, <1>2 DEF IInv, Rows, StarredOnlyWhileFlagged
  <1>5. User'
    <2>1. CASE user.on
          BY <1>1, <1>2, <2>1 DEF User, Ops, IInv
    <2>2. CASE ~user.on
          BY <1>2, <2>2, IdleTyped DEF User
    <2>. QED  BY <2>1, <2>2
  <1>. QED  BY <1>2, <1>3, <1>4, <1>5, RowsKeep DEF IInv

LEMMA StarFetchKeeps ==
    ASSUME BodyAssumption, IInv, StarFetch
    PROVE  IInv'
  <1>1. user \in Ops /\ user.id \in Ids
        BY DEF StarFetch, IInv, User
  <1>2. UNCHANGED <<server, catalog, row, flagged, starred, claim, task>>
        BY DEF StarFetch, catalogue, bodies, claims
  <1>3. CASE user' = NoOp
    <2>1. User'
          BY <1>3, IdleTyped DEF User
    <2>. QED  BY <1>2, <2>1, RowsKeep DEF IInv, Rows, StarredOnlyWhileFlagged
  <1>4. CASE /\ server.at[user.id] # 0
             /\ user' = [user EXCEPT !.at = "save", !.body = server.at[user.id],
                                     !.star = server.star[user.id]]
    <2>1. server.at[user.id] \in Numbers \ {0} /\ server.star[user.id] \in BOOLEAN
          BY <1>1, <1>4 DEF IInv, Servers
    <2>2. User'
          BY <1>1, <1>4, <2>1 DEF User, Ops
    <2>. QED  BY <1>2, <2>2, RowsKeep DEF IInv, Rows, StarredOnlyWhileFlagged
  <1>. QED  BY <1>3, <1>4 DEF StarFetch

LEMMA StarSaveKeeps ==
    ASSUME BodyAssumption, IInv, StarSave
    PROVE  IInv'
  <1>1. user \in Ops /\ user.id \in Ids /\ user.body \in Numbers \ {0} /\ user.star \in BOOLEAN
        BY DEF StarSave, IInv, User, Ops
  <1>2. user' = NoOp /\ UNCHANGED <<server, catalog, claim, task>>
        BY DEF StarSave, claims
  <1>3. User'
        BY <1>2, IdleTyped DEF User
  <1>4. CASE user.id \in tomb
    <2>1. UNCHANGED <<row, flagged, starred>>
          BY <1>4 DEF StarSave
    <2>. QED  BY <1>2, <1>3, <2>1, RowsKeep DEF IInv, Rows, StarredOnlyWhileFlagged
  <1>5. CASE user.id \notin tomb
    <2>1. /\ row' = [row EXCEPT ![user.id] = user.body]
          /\ flagged' = [flagged EXCEPT ![user.id] = user.star]
          /\ starred' = [starred EXCEPT ![user.id] = IF user.star THEN user.body ELSE 0]
          BY <1>5 DEF StarSave
    <2>2. Rows'
          BY <1>1, <2>1, NumbersIn DEF IInv, Rows
    <2>3. StarredOnlyWhileFlagged'
          BY <1>1, <2>1 DEF IInv, Rows, StarredOnlyWhileFlagged
    <2>. QED  BY <1>2, <1>3, <2>2, <2>3, RowsKeep DEF IInv
  <1>. QED  BY <1>4, <1>5

LEMMA MoveStoreKeeps ==
    ASSUME BodyAssumption, IInv, NEW i \in Ids, NEW to \in Ids, MoveStore(i, to)
    PROVE  IInv'
  <1>1. server \in Servers /\ server.at[i] \in Numbers /\ server.star[i] \in BOOLEAN
        BY DEF IInv, Servers
  <1>2. PICK n \in Numbers, b \in BOOLEAN :
            server' = [server EXCEPT !.at[i] = 0, !.star[i] = FALSE,
                                     !.at[to] = n, !.star[to] = b, !.used = @ \cup {to}]
        BY <1>1 DEF MoveStore
  <1>3. server' \in Servers
        BY <1>1, <1>2, NumbersIn DEF Servers
  <1>4. User'
    <2>1. PICK told \in {to, NoId} :
              user' = [NoOp EXCEPT !.at = "move", !.id = i, !.to = told]
          BY DEF MoveStore
    <2>. QED  BY <2>1, NumbersIn DEF User, Ops, NoOp
  <1>5. UNCHANGED <<catalog, row, flagged, starred, claim, task>>
        BY DEF MoveStore, catalogue, bodies, claims
  <1>6. Rows' /\ StarredOnlyWhileFlagged'
        BY <1>5 DEF IInv, Rows, StarredOnlyWhileFlagged
  <1>. QED  BY <1>3, <1>4, <1>5, <1>6, RowsKeep

LEMMA MoveLocallyKeeps ==
    ASSUME BodyAssumption, IInv, MoveLocally
    PROVE  IInv'
  <1>. DEFINE i == user.id
              to == user.to
              kept == to # NoId /\ row[i] # 0
              gone == IF to # NoId THEN Stripped(i, to) ELSE {i}
  <1>1. i \in Ids /\ to \in Ids \cup {NoId} /\ row[i] \in Numbers /\ flagged[i] \in BOOLEAN
        BY DEF MoveLocally, IInv, User, Ops, Rows
  <1>2. /\ row' = [j \in Ids |-> IF j = i \/ (j = to /\ ~kept) THEN 0
                                 ELSE IF j = to THEN row[i] ELSE row[j]]
        /\ flagged' = [j \in Ids |-> IF j = i \/ (j = to /\ ~kept) THEN FALSE
                                     ELSE IF j = to THEN flagged[i] ELSE flagged[j]]
        /\ starred' = [j \in Ids |-> IF j \in gone THEN 0 ELSE starred[j]]
        /\ Revoked(gone) /\ user' = NoOp /\ UNCHANGED <<server, catalog>>
        BY DEF MoveLocally
  <1>3. i \in gone /\ \A j \in Ids : j = to => j \in gone
        BY DEF Stripped, BodyAssumption
  <1>. HIDE DEF i, to, kept, gone
  <1>4. Rows'
        BY <1>1, <1>2, NumbersIn DEF IInv, Rows
  <1>5. StarredOnlyWhileFlagged'
        BY <1>2, <1>3 DEF IInv, Rows, StarredOnlyWhileFlagged
  <1>6. User'
        BY <1>2, IdleTyped DEF User
  <1>7. Claims' /\ Tasks' /\ OneFetch'
        BY <1>2, RevokedKeeps
  <1>. QED  BY <1>2, <1>4, <1>5, <1>6, <1>7 DEF IInv

-----------------------------------------------------------------------------
(* The theorem on bodies *)

LEMMA InitHolds == ASSUME BodyAssumption, Init PROVE IInv
  <1>1. /\ Rows /\ StarredOnlyWhileFlagged /\ catalog \in Nat
        BY NumbersIn DEF Init, Rows, StarredOnlyWhileFlagged
  <1>2. server \in Servers
        BY NumbersIn DEF Init, Servers, BodyAssumption
  <1>3. Claims /\ Tasks /\ User /\ OneFetch
        BY IdleTyped DEF Init, Claims, Tasks, User, OneFetch, Working
  <1>. QED  BY <1>1, <1>2, <1>3 DEF IInv

LEMMA NextKeeps == ASSUME BodyAssumption, IInv, [Next]_vars PROVE IInv'
  <1>1. Readers \subseteq Fetchers /\ Warmers \subseteq Fetchers
        BY DEF Fetchers
  <1>2. ASSUME NEW t \in Fetchers, NEW i \in Ids, Open(t, i) \/ Warm(t, i)
        PROVE  IInv'
        BY <1>2, OpenKeeps, WarmKeeps
  <1>3. ASSUME NEW t \in Fetchers, OpenClaim(t) \/ Poll(t) \/ Cancel(t)
        PROVE  IInv'
        BY <1>3, OpenClaimKeeps, PollKeeps, CancelKeeps
  <1>4. ASSUME NEW t \in Fetchers, Recheck(t) \/ Locate(t) \/ Fetch(t) \/ Attach(t)
        PROVE  IInv'
        BY <1>4, RecheckKeeps, LocateKeeps, FetchBodyKeeps, AttachKeeps
  <1>5. ASSUME NEW t \in Fetchers,
               Star(t) \/ Cache(t) \/ Check(t) \/ Restar(t) \/ Release(t)
        PROVE  IInv'
        BY <1>5, StoringKeeps, ReleaseKeeps
  <1>6. ASSUME NEW i \in Ids,
               Lapse(i) \/ Renew(i) \/ Deliver(i) \/ ExpungeElsewhere(i) \/ StarElsewhere(i)
        PROVE  IInv'
        BY <1>6, LeaseKeeps, DeliverKeeps, ElsewhereKeeps
  <1>7. ASSUME NEW i \in Ids, Persist(i) \/ SyncFlags(i) \/ Vanish(i)
        PROVE  IInv'
        BY <1>7, PersistKeeps, SyncFlagsKeeps, VanishKeeps
  <1>8. ASSUME Crash \/ Recreate \/ Publish
        PROVE  IInv'
        BY <1>8, CrashKeeps, RecreateKeeps, PublishKeeps
  <1>9. ASSUME NEW i \in Ids, NEW on \in BOOLEAN, StarStore(i, on)
        PROVE  IInv'
        BY <1>9, StarStoreKeeps
  <1>10. ASSUME StarFlag \/ StarFetch \/ StarSave \/ MoveLocally
         PROVE  IInv'
        BY <1>10, StarFlagKeeps, StarFetchKeeps, StarSaveKeeps, MoveLocallyKeeps
  <1>11. ASSUME NEW i \in Ids, NEW to \in Ids, MoveStore(i, to)
         PROVE  IInv'
        BY <1>11, MoveStoreKeeps
  <1>12. CASE UNCHANGED vars
        BY <1>12, SameKeeps DEF vars, IInv
  <1>. QED  BY <1>1, <1>2, <1>3, <1>4, <1>5, <1>6, <1>7, <1>8, <1>9, <1>10, <1>11, <1>12 DEF Next

(* Two tasks that believe in their claim never fetch the same body, and a   *)
(* starred body exists only for a live row that is flagged now: whatever    *)
(* lapses, crashes, moves or changes its flags meanwhile                    *)
(* (acquire_message_content_fetch, release_message_content_fetch_for_owner, *)
(* cache_starred_message_content).                                          *)
THEOREM BodiesStayOwned ==
    ASSUME BodyAssumption
    PROVE  Spec => [](OneFetch /\ StarredOnlyWhileFlagged)
  <1>1. Init => IInv
        BY InitHolds
  <1>2. IInv /\ [Next]_vars => IInv'
        BY NextKeeps
  <1>3. IInv => OneFetch /\ StarredOnlyWhileFlagged
        BY DEF IInv
  <1>. QED  BY <1>1, <1>2, <1>3, PTL DEF Spec

-----------------------------------------------------------------------------
(* Whose body is where: while the mailbox is not recreated, an id stands    *)
(* for one message, msg[i], forever, and every body under it is that one's. *)

ServerOf(msg) == \A i \in Ids : /\ server.at[i] \in {0, msg[i]}
                                /\ i \notin server.used => msg[i] = 0

RowsOf(msg) == \A i \in Ids : row[i] \in {0, msg[i]} /\ starred[i] \in {0, msg[i]}

OwnIn(c, msg) == \A i \in Ids : c.body[i] \in {0, msg[i]}
CacheOf(msg) == OwnIn(cache, msg)

LocalsOf(l, msg) == l.id \in Ids => l.body \in {0, msg[l.id]}
TasksOf(msg) == \A t \in Fetchers : LocalsOf(task[t], msg)

(* A move keeps the message, under its new id.                              *)
UserOf(msg) == /\ user.at = "save" => user.body \in {0, msg[user.id]}
               /\ user.at = "move" =>
                     /\ user.id \in server.used
                     /\ user.to # NoId => user.to \in server.used /\ msg[user.to] = msg[user.id]

Faithful(msg) == ServerOf(msg) /\ RowsOf(msg) /\ CacheOf(msg) /\ TasksOf(msg) /\ UserOf(msg)

CacheOK(c) == {"body", "older"} \subseteq DOMAIN c /\ c.body \in [Ids -> Numbers]

Loyal == /\ CacheOK(cache) /\ server.validity > 0
         /\ server.validity = 1 => catalog = 1 /\ \E msg \in [Ids -> Nat] : Faithful(msg)

-----------------------------------------------------------------------------
(* What the cache becomes *)

LEMMA WithoutOf ==
    ASSUME BodyAssumption, NEW c, CacheOK(c), NEW is
    PROVE  /\ CacheOK(Without(c, is))
           /\ \A msg : OwnIn(c, msg) => OwnIn(Without(c, is), msg)
  BY NumbersIn DEF CacheOK, Without, OwnIn

LEMMA TouchedOf ==
    ASSUME NEW c, CacheOK(c), NEW i
    PROVE  /\ CacheOK(Touched(c, i))
           /\ \A msg : OwnIn(c, msg) => OwnIn(Touched(c, i), msg)
  <1>1. Touched(c, i).body = c.body /\ {"body", "older"} \subseteq DOMAIN Touched(c, i)
        BY DEF CacheOK, Touched
  <1>. QED  BY <1>1 DEF CacheOK, OwnIn

LEMMA StoredOf ==
    ASSUME BodyAssumption, CacheOK(cache), NEW i \in Ids, NEW b \in Numbers
    PROVE  /\ CacheOK(Stored(i, b))
           /\ \A msg : CacheOf(msg) /\ b \in {0, msg[i]} => OwnIn(Stored(i, b), msg)
  <1>. DEFINE c == [cache EXCEPT !.body[i] = b]
  <1>1. CacheOK(c) /\ \A msg : CacheOf(msg) /\ b \in {0, msg[i]} => OwnIn(c, msg)
    <2>1. /\ c.body = [cache.body EXCEPT ![i] = b]
          /\ {"body", "older"} \subseteq DOMAIN c
          BY DEF CacheOK
    <2>. QED  BY <2>1 DEF CacheOK, CacheOf, OwnIn
  <1>. HIDE DEF c
  <1>2. /\ CacheOK(Evicted(Touched(c, i)))
        /\ \A msg : OwnIn(c, msg) => OwnIn(Evicted(Touched(c, i)), msg)
        BY <1>1, TouchedOf, WithoutOf DEF Evicted
  <1>3. Stored(i, b) \in {Evicted(Touched(c, i)), Without(cache, {i})}
        BY DEF Stored, c
  <1>. QED  BY <1>1, <1>2, <1>3, WithoutOf DEF CacheOf

LEMMA PromotedOf ==
    ASSUME CacheOK(cache), NEW i, NEW b, cache' \in {cache, Promoted(i), Touched(cache, i)}
    PROVE  CacheOK(cache)' /\ \A msg : CacheOf(msg) => OwnIn(cache', msg)
  <1>1. cache' \in {cache, Touched(cache, i)}
        BY DEF Promoted
  <1>. QED  BY <1>1, TouchedOf DEF CacheOf, CacheOK

-----------------------------------------------------------------------------
(* What the tasks become *)

LEMMA NowOf ==
    ASSUME IInv, NEW msg, TasksOf(msg), NEW t \in Fetchers, NEW l, Now(t, l), LocalsOf(l, msg)
    PROVE  TasksOf(msg)'
  <1>1. \A x \in Fetchers : task'[x] = IF x = t THEN l ELSE task[x]
        BY DEF Now, IInv, Tasks
  <1>. QED  BY <1>1 DEF TasksOf, LocalsOf

LEMMA EndOf ==
    ASSUME BodyAssumption, IInv, NEW msg, TasksOf(msg), NEW t \in Fetchers, End(t)
    PROVE  TasksOf(msg)'
  <1>1. Ending(task[t]).body = 0
        BY DEF Ending, Idle
  <1>. QED  BY <1>1, NowOf DEF End, LocalsOf

LEMMA IdleOf ==
    ASSUME BodyAssumption, NEW msg
    PROVE  LocalsOf(Idle, msg)
  BY DEF LocalsOf, Idle

LEMMA GoOf ==
    ASSUME IInv, NEW msg, TasksOf(msg), NEW t \in Fetchers, NEW at, Go(t, at)
    PROVE  TasksOf(msg)'
  <1>. DEFINE l == [task[t] EXCEPT !.at = at]
  <1>1. l.id = task[t].id /\ l.body = task[t].body
        BY DEF IInv, Tasks, Locals
  <1>2. Now(t, l) /\ LocalsOf(l, msg)
        BY <1>1 DEF Go, TasksOf, LocalsOf
  <1>. QED  BY <1>2, NowOf

LEMMA GoOrEndOf ==
    ASSUME BodyAssumption, IInv, NEW msg, TasksOf(msg), NEW t \in Fetchers, NEW end, NEW at,
           GoOrEnd(t, end, at)
    PROVE  TasksOf(msg)'
  <1>1. CASE end
        BY <1>1, EndOf DEF GoOrEnd
  <1>2. CASE ~end
        BY <1>2, GoOf DEF GoOrEnd
  <1>. QED  BY <1>1, <1>2

(* A claim that is lost leaves the body it was for.                         *)
LEMMA LoseOf ==
    ASSUME NEW l \in Locals, NEW msg, LocalsOf(l, msg)
    PROVE  LocalsOf([l EXCEPT !.lost = TRUE], msg)
  <1>1. [l EXCEPT !.lost = TRUE].id = l.id /\ [l EXCEPT !.lost = TRUE].body = l.body
        BY DEF Locals
  <1>. QED  BY <1>1 DEF LocalsOf

LEMMA RevokedOf ==
    ASSUME IInv, NEW msg, TasksOf(msg), NEW is, Revoked(is)
    PROVE  TasksOf(msg)'
  <1>. SUFFICES ASSUME NEW x \in Fetchers PROVE LocalsOf(task'[x], msg)
       BY DEF TasksOf
  <1>1. task'[x] \in {task[x], [task[x] EXCEPT !.lost = TRUE]}
        BY DEF Revoked
  <1>. QED  BY <1>1, LoseOf DEF IInv, Tasks, TasksOf

LEMMA ClaimOf ==
    ASSUME IInv, NEW msg, TasksOf(msg), NEW t \in Fetchers, NEW i, NEW l, Claim(t, i, l),
           LocalsOf(l, msg)
    PROVE  TasksOf(msg)'
  <1>. SUFFICES ASSUME NEW x \in Fetchers PROVE LocalsOf(task'[x], msg)
       BY DEF TasksOf
  <1>1. task'[x] \in {l, task[x], [task[x] EXCEPT !.lost = TRUE]}
        BY DEF Claim, Losing
  <1>. QED  BY <1>1, LoseOf DEF IInv, Tasks, TasksOf

-----------------------------------------------------------------------------
(* The steps of a fetch: the server and the user stand still *)

Apart == UNCHANGED <<server, row, user>>

LEMMA StillOf ==
    ASSUME NEW msg, Faithful(msg), Apart, UNCHANGED starred, TasksOf(msg)', CacheOf(msg)'
    PROVE  Faithful(msg)'
  BY DEF Apart, Faithful, ServerOf, RowsOf, UserOf

LEMMA WindowOf ==
    ASSUME BodyAssumption, IInv, CacheOK(cache), NEW t \in Fetchers, NEW i \in Ids,
           Open(t, i) \/ OpenClaim(t) \/ Poll(t) \/ Warm(t, i) \/ Recheck(t) \/ Check(t),
           NEW msg, Faithful(msg)
    PROVE  Faithful(msg)'
  <1>1. Apart /\ UNCHANGED starred
        BY DEF Apart, Open, OpenClaim, Poll, Warm, Recheck, Check, bodies, catalogue
  <1>2. CacheOf(msg)'
    <2>1. PICK j : cache' \in {cache, Promoted(j), Touched(cache, j)}
          BY DEF Open, OpenClaim, Poll, Warm, Recheck, Check, bodies
    <2>. QED  BY <2>1, PromotedOf DEF Faithful, CacheOf
  <1>3. TasksOf(msg)'
    <2>1. ASSUME Open(t, i) PROVE TasksOf(msg)'
      <3>1. LocalsOf([Idle EXCEPT !.at = "claim", !.id = i], msg)
            BY DEF LocalsOf, Idle
      <3>2. CASE Now(t, [Idle EXCEPT !.at = "claim", !.id = i])
            BY <3>1, <3>2, NowOf DEF Faithful
      <3>3. CASE UNCHANGED task
            BY <3>3 DEF Faithful, TasksOf
      <3>. QED  BY <2>1, <3>2, <3>3 DEF Open
    <2>2. ASSUME OpenClaim(t) PROVE TasksOf(msg)'
      <3>. DEFINE l == [task[t] EXCEPT !.at = "recheck"]
      <3>1. l.id = task[t].id /\ l.body = task[t].body
            BY DEF IInv, Tasks, Locals
      <3>2. LocalsOf(l, msg)
            BY <3>1 DEF Faithful, TasksOf, LocalsOf
      <3>3. Claim(t, task[t].id, l) \/ Now(t, Idle) \/ Go(t, "poll")
            BY <2>2 DEF OpenClaim
      <3>. HIDE DEF l
      <3>. QED  BY <3>2, <3>3, ClaimOf, NowOf, GoOf, IdleOf DEF Faithful
    <2>3. ASSUME Poll(t) PROVE TasksOf(msg)'
      <3>. DEFINE l == [task[t] EXCEPT !.at = "claim", !.waits = Waited(task[t])]
      <3>1. l.id = task[t].id /\ l.body = task[t].body
            BY DEF IInv, Tasks, Locals
      <3>2. LocalsOf(l, msg)
            BY <3>1 DEF Faithful, TasksOf, LocalsOf
      <3>3. Now(t, Idle) \/ Now(t, l)
            BY <2>3 DEF Poll
      <3>. HIDE DEF l
      <3>. QED  BY <3>2, <3>3, NowOf, IdleOf DEF Faithful
    <2>4. ASSUME Warm(t, i) PROVE TasksOf(msg)'
      <3>1. LocalsOf([Idle EXCEPT !.at = "locate", !.id = i], msg)
            BY DEF LocalsOf, Idle
      <3>. QED  BY <2>4, <3>1, ClaimOf DEF Faithful, Warm
    <2>5. ASSUME Recheck(t) \/ Check(t) PROVE TasksOf(msg)'
          BY <2>5, GoOrEndOf DEF Faithful, Recheck, Check
    <2>. QED  BY <2>1, <2>2, <2>3, <2>4, <2>5
  <1>. QED  BY <1>1, <1>2, <1>3, StillOf

LEMMA FetchingOf ==
    ASSUME BodyAssumption, IInv, NEW t \in Fetchers,
           Locate(t) \/ Fetch(t) \/ Attach(t) \/ Release(t) \/ Cancel(t),
           NEW msg, Faithful(msg)
    PROVE  Faithful(msg)'
  <1>1. Apart /\ UNCHANGED <<starred, cache>>
        BY DEF Apart, Locate, Fetch, Attach, Release, Cancel, bodies, catalogue
  <1>2. CacheOf(msg)'
        BY <1>1 DEF Faithful, CacheOf, OwnIn
  <1>3. TasksOf(msg)'
    <2>1. ASSUME Locate(t) PROVE TasksOf(msg)'
      <3>. DEFINE l == [task[t] EXCEPT !.at = "fetch", !.val = catalog]
      <3>1. l.id = task[t].id /\ l.body = task[t].body
            BY DEF IInv, Tasks, Locals
      <3>2. LocalsOf(l, msg)
            BY <3>1 DEF Faithful, TasksOf, LocalsOf
      <3>3. End(t) \/ Now(t, l)
            BY <2>1 DEF Locate
      <3>. HIDE DEF l
      <3>. QED  BY <3>2, <3>3, NowOf, EndOf DEF Faithful
    <2>2. ASSUME Fetch(t) PROVE TasksOf(msg)'
      <3>. DEFINE l == [task[t] EXCEPT !.at = "attach", !.val = 0,
                          !.body = server.at[task[t].id], !.star = server.star[task[t].id]]
      <3>1. l.id = task[t].id /\ l.body = server.at[task[t].id]
            BY DEF IInv, Tasks, Locals
      <3>2. LocalsOf(l, msg)
            BY <3>1 DEF Faithful, ServerOf, LocalsOf
      <3>3. End(t) \/ Now(t, l)
            BY <2>2 DEF Fetch
      <3>. HIDE DEF l
      <3>. QED  BY <3>2, <3>3, NowOf, EndOf DEF Faithful
    <2>3. ASSUME Attach(t) PROVE TasksOf(msg)'
          BY <2>3, GoOrEndOf DEF Faithful, Attach
    <2>4. ASSUME Release(t) PROVE TasksOf(msg)'
          BY <2>4, NowOf, IdleOf DEF Faithful, Release
    <2>5. ASSUME Cancel(t) PROVE TasksOf(msg)'
          BY <2>5, EndOf DEF Faithful, Cancel
    <2>. QED  BY <2>1, <2>2, <2>3, <2>4, <2>5
  <1>. QED  BY <1>1, <1>2, <1>3, StillOf

LEMMA StoringOf ==
    ASSUME BodyAssumption, IInv, CacheOK(cache), NEW t \in Fetchers,
           Star(t) \/ Cache(t) \/ Restar(t),
           NEW msg, Faithful(msg)
    PROVE  Faithful(msg)'
  <1>. DEFINE l == task[t]
  <1>1. Apart /\ l.id \in Ids /\ l.body \in Numbers
        BY NumbersIn DEF Apart, Star, Cache, Restar, At, IInv, Tasks, Locals, catalogue
  <1>2. l.body \in {0, msg[l.id]}
        BY <1>1 DEF Faithful, TasksOf, LocalsOf
  <1>3. TasksOf(msg)'
    <2>1. CASE \E end, at : GoOrEnd(t, end, at)
          BY <2>1, GoOrEndOf DEF Faithful
    <2>2. CASE End(t)
          BY <2>2, EndOf DEF Faithful
    <2>. QED  BY <2>1, <2>2 DEF Star, Cache, Restar
  <1>4. CASE UNCHANGED cache /\ starred' \in {starred, [starred EXCEPT ![l.id] = l.body]}
    <2>1. RowsOf(msg)'
          BY <1>1, <1>2, <1>4 DEF Faithful, RowsOf, IInv, Rows, Apart
    <2>2. ServerOf(msg)' /\ UserOf(msg)' /\ CacheOf(msg)'
          BY <1>1, <1>4 DEF Apart, Faithful, ServerOf, UserOf, CacheOf, OwnIn
    <2>. QED  BY <1>3, <2>1, <2>2 DEF Faithful
  <1>5. CASE cache' = Stored(l.id, l.body) /\ UNCHANGED starred
    <2>1. CacheOf(msg)'
          BY <1>1, <1>2, <1>5, StoredOf DEF Faithful, CacheOf
    <2>. QED  BY <1>1, <1>3, <1>5, <2>1, StillOf
  <1>. QED  BY <1>4, <1>5 DEF Star, Cache, Restar

LEMMA FaultsOf ==
    ASSUME BodyAssumption, IInv, NEW i \in Ids, Crash \/ Lapse(i) \/ Renew(i),
           NEW msg, Faithful(msg)
    PROVE  Faithful(msg)'
  <1>1. /\ UNCHANGED <<server, row, starred, cache>>
        /\ UNCHANGED <<task, user>> \/ (user' = NoOp /\ \A t \in Fetchers : task'[t] = Idle)
        BY DEF Crash, Lapse, Renew, catalogue, bodies
  <1>2. TasksOf(msg)' /\ UserOf(msg)'
        BY <1>1, IdleOf DEF Faithful, TasksOf, UserOf, NoOp
  <1>. QED  BY <1>1, <1>2 DEF Faithful, ServerOf, RowsOf, CacheOf, OwnIn

-----------------------------------------------------------------------------
(* The server: a new message or a moved one takes an id nobody had *)

(* Nothing is known of an id that is not used up.                           *)
LEMMA TakenOf ==
    ASSUME NEW msg, Faithful(msg), NEW i \in Ids, i \notin server.used,
           NEW m, \A j \in Ids \ {i} : m[j] = msg[j], ServerOf(m)', UserOf(m)',
           UNCHANGED <<row, starred, cache, task>>
    PROVE  Faithful(m)'
  <1>1. \A j \in Ids : msg[j] = 0 \/ m[j] = msg[j]
        BY DEF Faithful, ServerOf
  <1>2. RowsOf(m)'
        BY <1>1 DEF Faithful, RowsOf
  <1>3. CacheOf(m)'
        BY <1>1 DEF Faithful, CacheOf, OwnIn
  <1>4. TasksOf(m)'
        BY <1>1 DEF Faithful, TasksOf, LocalsOf
  <1>. QED  BY <1>2, <1>3, <1>4 DEF Faithful

LEMMA DeliverOf ==
    ASSUME IInv, NEW i \in Ids, Deliver(i), NEW msg \in [Ids -> Nat], Faithful(msg)
    PROVE  \E m \in [Ids -> Nat] : Faithful(m)'
  <1>1. PICK star \in BOOLEAN :
            server' = [server EXCEPT !.at[i] = server.next, !.star[i] = star,
                                     !.used = @ \cup {i}, !.next = @ + 1]
        BY DEF Deliver
  <1>2. server \in Servers /\ server.next \in Nat
        BY DEF IInv, Servers
  <1>3. /\ server'.at = [server.at EXCEPT ![i] = server.next]
        /\ server'.used = server.used \cup {i}
        BY <1>1, <1>2 DEF Servers
  <1>4. i \notin server.used /\ UNCHANGED <<row, starred, cache, task, user>>
        BY DEF Deliver, catalogue, bodies
  <1>5. PICK m \in [Ids -> Nat] : /\ m[i] = server.next
                                  /\ \A j \in Ids \ {i} : m[j] = msg[j]
    <2>1. [msg EXCEPT ![i] = server.next] \in [Ids -> Nat]
          BY <1>2
    <2>. QED  BY <2>1
  <1>6. ServerOf(m)'
        BY <1>2, <1>3, <1>5 DEF Faithful, ServerOf, Servers
  <1>7. UserOf(m)'
    <2>1. user.at = "save" => user.id \in Ids /\ user.id # i
          BY <1>4 DEF IInv, User, Faithful, UserOf, ServerOf
    <2>2. user.at = "move" => user.id \in Ids \ {i} /\ user.to \in (Ids \ {i}) \cup {NoId}
          BY <1>4 DEF IInv, User, Ops, Faithful, UserOf
    <2>. QED  BY <1>3, <1>4, <1>5, <2>1, <2>2 DEF Faithful, UserOf
  <1>. QED  BY <1>4, <1>5, <1>6, <1>7, TakenOf

LEMMA MoveStoreOf ==
    ASSUME BodyAssumption, IInv, NEW i \in Ids, NEW to \in Ids, MoveStore(i, to),
           NEW msg \in [Ids -> Nat], Faithful(msg)
    PROVE  \E m \in [Ids -> Nat] : Faithful(m)'
  <1>1. /\ server' = [server EXCEPT !.at[i] = 0, !.star[i] = FALSE,
                                    !.at[to] = server.at[i], !.star[to] = server.star[i],
                                    !.used = @ \cup {to}]
        /\ i # to /\ to \notin server.used /\ server.at[i] # 0
        /\ UNCHANGED <<row, starred, cache, task>>
        BY DEF MoveStore, catalogue, bodies
  <1>2. PICK told \in {to, NoId} :
            user' = [NoOp EXCEPT !.at = "move", !.id = i, !.to = told]
        BY DEF MoveStore
  <1>3. server \in Servers
        BY DEF IInv
  <1>4. /\ server'.at = [server.at EXCEPT ![i] = 0, ![to] = server.at[i]]
        /\ server'.used = server.used \cup {to}
        BY <1>1, <1>3 DEF Servers
  <1>5. i \in server.used /\ server.at[i] = msg[i]
        BY <1>1 DEF Faithful, ServerOf
  <1>. DEFINE m == [msg EXCEPT ![to] = msg[i]]
  <1>6. m \in [Ids -> Nat] /\ m[to] = msg[i] /\ \A j \in Ids \ {to} : m[j] = msg[j]
        OBVIOUS
  <1>. HIDE DEF m
  <1>7. ServerOf(m)'
        BY <1>1, <1>3, <1>4, <1>5, <1>6 DEF Faithful, ServerOf, Servers
  <1>8. user'.at = "move" /\ user'.id = i /\ user'.to = told
        BY <1>2 DEF NoOp
  <1>9. UserOf(m)'
        BY <1>1, <1>4, <1>5, <1>6, <1>8 DEF UserOf
  <1>. QED  BY <1>1, <1>6, <1>7, <1>9, TakenOf

LEMMA ElsewhereOf ==
    ASSUME IInv, NEW i \in Ids, ExpungeElsewhere(i) \/ StarElsewhere(i),
           NEW msg, Faithful(msg)
    PROVE  Faithful(msg)'
  <1>1. /\ server \in Servers
        /\ UNCHANGED <<row, starred, cache, task, user>>
        BY DEF ExpungeElsewhere, StarElsewhere, catalogue, bodies, IInv
  <1>2. /\ server'.used = server.used
        /\ server'.at \in {server.at, [server.at EXCEPT ![i] = 0]}
        BY <1>1 DEF ExpungeElsewhere, StarElsewhere, Servers
  <1>3. ServerOf(msg)' /\ UserOf(msg)'
        BY <1>1, <1>2 DEF Faithful, ServerOf, UserOf, Servers
  <1>. QED  BY <1>1, <1>3 DEF Faithful, RowsOf, CacheOf, OwnIn, TasksOf, LocalsOf

-----------------------------------------------------------------------------
(* Synchronization and the user *)

LEMMA SyncOf ==
    ASSUME BodyAssumption, IInv, CacheOK(cache), NEW i \in Ids,
           Persist(i) \/ SyncFlags(i) \/ Vanish(i), NEW msg, Faithful(msg)
    PROVE  Faithful(msg)'
  <1>1. UNCHANGED <<server, user>>
        BY DEF Persist, SyncFlags, Vanish
  <1>2. \A j \in Ids : /\ row'[j] \in {0, row[j], server.at[j]}
                       /\ starred'[j] \in {0, starred[j]}
        BY DEF Persist, SyncFlags, Vanish, Cascade, StarredAfter, IInv, Rows
  <1>3. RowsOf(msg)'
        BY <1>2 DEF Faithful, RowsOf, ServerOf
  <1>4. CacheOf(msg)'
    <2>1. cache' \in {cache, Without(cache, {i})}
          BY DEF Persist, SyncFlags, Vanish, Cascade, CacheAfter
    <2>. QED  BY <2>1, WithoutOf DEF Faithful, CacheOf
  <1>5. TasksOf(msg)'
    <2>1. UNCHANGED task \/ Revoked({i})
          BY DEF Persist, SyncFlags, Vanish, Cascade
    <2>. QED  BY <2>1, RevokedOf DEF Faithful, TasksOf, LocalsOf
  <1>. QED  BY <1>1, <1>3, <1>4, <1>5 DEF Faithful, ServerOf, UserOf

LEMMA StarringOf ==
    ASSUME BodyAssumption, IInv, CacheOK(cache), StarFlag \/ StarFetch \/ StarSave,
           NEW msg, Faithful(msg)
    PROVE  Faithful(msg)'
  <1>1. UNCHANGED <<server, task>> /\ user \in Ops /\ user.id \in Ids
        BY DEF StarFlag, StarFetch, StarSave, IInv, User
  <1>2. user.at = "save" => user.body \in {0, msg[user.id]}
        BY DEF Faithful, UserOf
  <1>3. /\ \A j \in Ids : row'[j] = row[j] \/ (j = user.id /\ row'[j] = user.body)
        /\ \A j \in Ids : starred'[j] \in {0, starred[j]}
                           \/ (j = user.id /\ starred'[j] = user.body)
        /\ \/ user.at = "save"
           \/ row' = row /\ \A j \in Ids : starred'[j] \in {0, starred[j]}
    <2>1. ASSUME StarFlag
          PROVE  row' = row /\ \A j \in Ids : starred'[j] \in {0, starred[j]}
          BY <2>1 DEF StarFlag, StarredAfter, IInv, Rows
    <2>2. ASSUME StarFetch
          PROVE  row' = row /\ starred' = starred
          BY <2>2 DEF StarFetch, catalogue, bodies
    <2>3. ASSUME StarSave
          PROVE  /\ user.at = "save"
                 /\ row' \in {row, [row EXCEPT ![user.id] = user.body]}
                 /\ starred' \in {starred, [starred EXCEPT ![user.id] = user.body],
                                  [starred EXCEPT ![user.id] = 0]}
          BY <2>3 DEF StarSave
    <2>4. ASSUME StarSave
          PROVE  /\ \A j \in Ids : row'[j] = row[j] \/ (j = user.id /\ row'[j] = user.body)
                 /\ \A j \in Ids : starred'[j] \in {0, starred[j]}
                                    \/ (j = user.id /\ starred'[j] = user.body)
          BY <2>3, <2>4 DEF IInv, Rows
    <2>. QED  BY <2>1, <2>2, <2>3, <2>4
  <1>4. RowsOf(msg)'
        BY <1>2, <1>3 DEF Faithful, RowsOf
  <1>5. CacheOf(msg)'
    <2>1. cache' \in {cache, Without(cache, {user.id})}
          BY DEF StarFlag, StarFetch, StarSave, CacheAfter, bodies
    <2>. QED  BY <2>1, WithoutOf DEF Faithful, CacheOf
  <1>6. UserOf(msg)'
    <2>1. CASE user' = NoOp
          BY <2>1 DEF UserOf, NoOp
    <2>2. CASE user' = [user EXCEPT !.at = "fetch", !.val = catalog]
          BY <1>1, <2>2 DEF UserOf, Ops
    <2>3. CASE user' = [user EXCEPT !.at = "save", !.body = server.at[user.id],
                                    !.star = server.star[user.id]]
      <3>1. user'.at = "save" /\ user'.id = user.id /\ user'.body = server.at[user.id]
            BY <1>1, <2>3 DEF Ops
      <3>. QED  BY <1>1, <3>1 DEF UserOf, Faithful, ServerOf
    <2>. QED  BY <2>1, <2>2, <2>3 DEF StarFlag, StarFetch, StarSave
  <1>. QED  BY <1>1, <1>4, <1>5, <1>6 DEF Faithful, ServerOf, TasksOf, LocalsOf

LEMMA StarStoreOf ==
    ASSUME IInv, NEW i \in Ids, NEW on \in BOOLEAN, StarStore(i, on), NEW msg, Faithful(msg)
    PROVE  Faithful(msg)'
  <1>1. server \in Servers /\ UNCHANGED <<row, starred, cache, task>>
        BY DEF StarStore, IInv, catalogue, bodies
  <1>2. server'.at = server.at /\ server'.used = server.used
        BY <1>1 DEF StarStore, Servers
  <1>3. user'.at = "flag"
        BY DEF StarStore, NoOp
  <1>. QED  BY <1>1, <1>2, <1>3 DEF Faithful, ServerOf, UserOf, RowsOf, CacheOf, OwnIn,
                                      TasksOf, LocalsOf

LEMMA MoveLocallyOf ==
    ASSUME BodyAssumption, IInv, CacheOK(cache), MoveLocally, NEW msg, Faithful(msg)
    PROVE  Faithful(msg)'
  <1>. DEFINE i == user.id
              to == user.to
              kept == to # NoId /\ row[i] # 0
              gone == IF to # NoId THEN Stripped(i, to) ELSE {i}
  <1>1. /\ i \in Ids /\ to \in Ids \cup {NoId}
        /\ to # NoId => msg[to] = msg[i]
        BY DEF MoveLocally, IInv, User, Ops, Faithful, UserOf
  <1>2. /\ row' = [j \in Ids |-> IF j = i \/ (j = to /\ ~kept) THEN 0
                                 ELSE IF j = to THEN row[i] ELSE row[j]]
        /\ starred' = [j \in Ids |-> IF j \in gone THEN 0 ELSE starred[j]]
        /\ cache' = Without(cache, gone)
        /\ Revoked(gone) /\ user' = NoOp /\ UNCHANGED server
        BY DEF MoveLocally
  <1>3. kept => to \in Ids /\ msg[to] = msg[i]
        BY <1>1
  <1>. HIDE DEF i, to, kept, gone
  <1>4. RowsOf(msg)'
        BY <1>1, <1>2, <1>3 DEF Faithful, RowsOf
  <1>5. CacheOf(msg)'
        BY <1>2, WithoutOf DEF Faithful, CacheOf
  <1>6. TasksOf(msg)'
        BY <1>2, RevokedOf DEF Faithful
  <1>. QED  BY <1>2, <1>4, <1>5, <1>6 DEF Faithful, ServerOf, UserOf, NoOp

-----------------------------------------------------------------------------
(* The theorem on whose body it is *)

LEMMA CacheStaysOK ==
    ASSUME BodyAssumption, IInv, CacheOK(cache), [Next]_vars
    PROVE  CacheOK(cache')
  <1>1. ASSUME UNCHANGED cache \/ cache' = NoCache \/ \E is : cache' = Without(cache, is)
        PROVE  CacheOK(cache')
        BY <1>1, WithoutOf, NumbersIn DEF CacheOK, NoCache
  <1>2. ASSUME NEW i, cache' \in {cache, Promoted(i), Touched(cache, i)}
        PROVE  CacheOK(cache')
        BY <1>2, PromotedOf
  <1>3. ASSUME NEW t \in Fetchers, NEW i \in Ids, 
               Open(t, i) \/ Warm(t, i) \/ OpenClaim(t) \/ Poll(t) \/ Cancel(t)
        PROVE  CacheOK(cache')
        BY <1>1, <1>2, <1>3 DEF Open, Warm, OpenClaim, Poll, Cancel, bodies
  <1>4. ASSUME NEW t \in Fetchers,
               Recheck(t) \/ Locate(t) \/ Fetch(t) \/ Attach(t) \/ Star(t) \/ Check(t)
                 \/ Restar(t) \/ Release(t)
        PROVE  CacheOK(cache')
        BY <1>1, <1>2, <1>4
           DEF Recheck, Locate, Fetch, Attach, Star, Check, Restar, Release, bodies
  <1>5. ASSUME NEW t \in Fetchers, Cache(t)
        PROVE  CacheOK(cache')
    <2>1. task[t].id \in Ids /\ task[t].body \in Numbers
          BY <1>5 DEF Cache, IInv, Tasks, Locals
    <2>. QED  BY <1>5, <2>1, StoredOf DEF Cache
  <1>6. ASSUME NEW i \in Ids, Lapse(i) \/ Renew(i) \/ Deliver(i) \/ ExpungeElsewhere(i)
                                \/ StarElsewhere(i)
        PROVE  UNCHANGED cache
        BY <1>6 DEF Lapse, Renew, Deliver, ExpungeElsewhere, StarElsewhere, bodies
  <1>7. ASSUME NEW i \in Ids, Persist(i) \/ SyncFlags(i) \/ Vanish(i)
        PROVE  CacheOK(cache')
        BY <1>1, <1>7 DEF Persist, SyncFlags, Vanish, Cascade, CacheAfter
  <1>8. ASSUME Crash \/ Recreate \/ Publish \/ UNCHANGED vars
        PROVE  CacheOK(cache')
        BY <1>1, <1>8 DEF Crash, Recreate, Publish, bodies, vars
  <1>9. ASSUME NEW i \in Ids, NEW to \in Ids, NEW on \in BOOLEAN,
               StarStore(i, on) \/ MoveStore(i, to)
        PROVE  UNCHANGED cache
        BY <1>9 DEF StarStore, MoveStore, bodies
  <1>10. ASSUME StarFlag \/ StarFetch \/ StarSave \/ MoveLocally
         PROVE  CacheOK(cache')
        BY <1>1, <1>10 DEF StarFlag, StarFetch, StarSave, MoveLocally, CacheAfter, bodies
  <1>11. Ids # {}
         BY DEF BodyAssumption
  <1>. QED  BY <1>1, <1>3, <1>4, <1>5, <1>6, <1>7, <1>8, <1>9, <1>10, <1>11 DEF Next, Fetchers

LEMMA CatalogKept ==
    ASSUME Ids # {}, [Next]_vars, ~Publish
    PROVE  catalog' = catalog
  <1>1. ASSUME NEW t \in Fetchers, NEW i \in Ids,
               \/ Open(t, i) \/ Warm(t, i) \/ OpenClaim(t) \/ Poll(t) \/ Cancel(t)
               \/ Recheck(t) \/ Locate(t) \/ Fetch(t) \/ Attach(t) \/ Star(t)
               \/ Cache(t) \/ Check(t) \/ Restar(t) \/ Release(t)
        PROVE  catalog' = catalog
        BY <1>1 DEF Open, Warm, OpenClaim, Poll, Cancel, Recheck, Locate, Fetch, Attach,
                    Star, Cache, Check, Restar, Release, catalogue
  <1>2. ASSUME NEW i \in Ids, NEW to \in Ids, NEW on \in BOOLEAN,
               \/ Deliver(i) \/ ExpungeElsewhere(i) \/ StarElsewhere(i)
               \/ StarStore(i, on) \/ MoveStore(i, to)
        PROVE  catalog' = catalog
        BY <1>2 DEF Deliver, ExpungeElsewhere, StarElsewhere, StarStore, MoveStore, catalogue
  <1>3. ASSUME NEW i \in Ids, \/ Crash \/ Lapse(i) \/ Renew(i) \/ Recreate
                              \/ Persist(i) \/ SyncFlags(i) \/ Vanish(i)
        PROVE  catalog' = catalog
        BY <1>3 DEF Crash, Lapse, Renew, Recreate, Persist, SyncFlags, Vanish, catalogue
  <1>4. ASSUME StarFlag \/ StarFetch \/ StarSave \/ MoveLocally \/ UNCHANGED vars
        PROVE  catalog' = catalog
        BY <1>4 DEF StarFlag, StarFetch, StarSave, MoveLocally, vars, catalogue
  <1>. QED  BY <1>1, <1>2, <1>3, <1>4 DEF Next, Fetchers

LEMMA LoyalKept ==
    ASSUME BodyAssumption, IInv, Loyal, [Next]_vars
    PROVE  Loyal'
  <1>1. /\ server.validity \in Nat \ {0} /\ server \in Servers
        /\ CacheOK(cache) /\ CacheOK(cache')
        BY CacheStaysOK DEF Loyal, IInv, Servers
  <1>2. CASE Recreate
    <2>1. server'.validity = server.validity + 1
          BY <1>2 DEF Recreate
    <2>. QED  BY <1>1, <2>1 DEF Loyal
  <1>3. CASE ~Recreate
    <2>1. server'.validity = server.validity
      <3>1. ASSUME NEW i \in Ids, NEW to \in Ids, NEW on \in BOOLEAN,
                   \/ Deliver(i) \/ ExpungeElsewhere(i) \/ StarElsewhere(i)
                   \/ StarStore(i, on) \/ MoveStore(i, to)
            PROVE  server'.validity = server.validity
            BY <1>1, <3>1 DEF Deliver, ExpungeElsewhere, StarElsewhere, StarStore, MoveStore,
                              Servers
      <3>2. ASSUME NEW t \in Fetchers, NEW i \in Ids,
                   \/ Open(t, i) \/ Warm(t, i) \/ OpenClaim(t) \/ Poll(t) \/ Cancel(t)
                   \/ Recheck(t) \/ Locate(t) \/ Fetch(t) \/ Attach(t) \/ Star(t)
                   \/ Cache(t) \/ Check(t) \/ Restar(t) \/ Release(t)
            PROVE  UNCHANGED server
            BY <3>2 DEF Open, Warm, OpenClaim, Poll, Cancel, Recheck, Locate, Fetch, Attach,
                        Star, Cache, Check, Restar, Release
      <3>3. ASSUME NEW i \in Ids, \/ Crash \/ Lapse(i) \/ Renew(i) \/ Publish
                                  \/ Persist(i) \/ SyncFlags(i) \/ Vanish(i)
            PROVE  UNCHANGED server
            BY <3>3 DEF Crash, Lapse, Renew, Publish, Persist, SyncFlags, Vanish
      <3>4. ASSUME StarFlag \/ StarFetch \/ StarSave \/ MoveLocally \/ UNCHANGED vars
            PROVE  UNCHANGED server
            BY <3>4 DEF StarFlag, StarFetch, StarSave, MoveLocally, vars
      <3>5. Ids # {}
            BY DEF BodyAssumption
      <3>. QED  BY <1>3, <3>1, <3>2, <3>3, <3>4, <3>5 DEF Next, Fetchers
    <2>2. CASE server.validity = 1
      <3>1. catalog = 1 /\ ~Publish
            BY <2>2 DEF Loyal, Publish, InSync
      <3>2. PICK msg \in [Ids -> Nat] : Faithful(msg)
            BY <2>2 DEF Loyal
      <3>3. ASSUME NEW t \in Fetchers, NEW i \in Ids,
                   Open(t, i) \/ OpenClaim(t) \/ Poll(t) \/ Warm(t, i) \/ Recheck(t) \/ Check(t)
            PROVE  Faithful(msg)'
            BY <1>1, <3>2, <3>3, WindowOf
      <3>4. ASSUME NEW t \in Fetchers,
                   Locate(t) \/ Fetch(t) \/ Attach(t) \/ Release(t) \/ Cancel(t)
            PROVE  Faithful(msg)'
            BY <3>2, <3>4, FetchingOf
      <3>5. ASSUME NEW t \in Fetchers, Star(t) \/ Cache(t) \/ Restar(t)
            PROVE  Faithful(msg)'
            BY <1>1, <3>2, <3>5, StoringOf
      <3>6. ASSUME NEW i \in Ids, Crash \/ Lapse(i) \/ Renew(i)
            PROVE  Faithful(msg)'
            BY <3>2, <3>6, FaultsOf
      <3>7. ASSUME NEW i \in Ids, ExpungeElsewhere(i) \/ StarElsewhere(i)
            PROVE  Faithful(msg)'
            BY <3>2, <3>7, ElsewhereOf
      <3>8. ASSUME NEW i \in Ids, Persist(i) \/ SyncFlags(i) \/ Vanish(i)
            PROVE  Faithful(msg)'
            BY <1>1, <3>2, <3>8, SyncOf
      <3>9. ASSUME StarFlag \/ StarFetch \/ StarSave \/ MoveLocally
            PROVE  Faithful(msg)'
            BY <1>1, <3>2, <3>9, StarringOf, MoveLocallyOf
      <3>10. ASSUME NEW i \in Ids, NEW on \in BOOLEAN, StarStore(i, on)
             PROVE  Faithful(msg)'
             BY <3>2, <3>10, StarStoreOf
      <3>11. ASSUME UNCHANGED vars
             PROVE  Faithful(msg)'
             BY <3>2, <3>11 DEF vars, Faithful, ServerOf, RowsOf, CacheOf, OwnIn, TasksOf,
                                LocalsOf, UserOf
      <3>12. ASSUME NEW i \in Ids, NEW to \in Ids, Deliver(i) \/ MoveStore(i, to)
             PROVE  \E m \in [Ids -> Nat] : Faithful(m)'
             BY <3>2, <3>12, DeliverOf, MoveStoreOf
      <3>13. Ids # {}
             BY DEF BodyAssumption
      <3>14. \E m \in [Ids -> Nat] : Faithful(m)'
             BY <1>3, <3>1, <3>2, <3>3, <3>4, <3>5, <3>6, <3>7, <3>8, <3>9, <3>10, <3>11, <3>12,
                <3>13 DEF Next, Fetchers
      <3>15. catalog' = catalog
             BY <3>1, <3>13, CatalogKept
      <3>. QED  BY <1>1, <2>1, <3>1, <3>14, <3>15 DEF Loyal
    <2>3. CASE server.validity # 1
          BY <1>1, <2>1, <2>3 DEF Loyal
    <2>. QED  BY <2>2, <2>3
  <1>. QED  BY <1>2, <1>3

LEMMA LoyalHolds == ASSUME Loyal, StarredOnlyWhileFlagged PROVE BodyBelongs
  <1>. SUFFICES ASSUME server.validity = 1, NEW i \in Ids, Display(i) # 0
                PROVE  Display(i) = row[i]
       BY DEF BodyBelongs, NoStaleBody
  <1>1. PICK msg \in [Ids -> Nat] : Faithful(msg)
        BY DEF Loyal
  <1>2. row[i] # 0 /\ Display(i) \in {0, msg[i]}
        BY <1>1 DEF Display, InCache, StarredOnlyWhileFlagged, Faithful, RowsOf, CacheOf, OwnIn
  <1>. QED  BY <1>1, <1>2 DEF Faithful, RowsOf

LEMMA InitLoyal == ASSUME BodyAssumption, Init PROVE Loyal
  <1>. DEFINE m == [i \in Ids |-> 0]
  <1>1. m \in [Ids -> Nat] /\ Faithful(m)
        BY DEF Init, Faithful, ServerOf, RowsOf, CacheOf, OwnIn, NoCache, TasksOf, LocalsOf, Idle,
               UserOf, NoOp
  <1>2. CacheOK(cache) /\ server.validity = 1 /\ catalog = 1
        BY NumbersIn DEF Init, CacheOK, NoCache
  <1>. QED  BY <1>1, <1>2 DEF Loyal

(* While the mailbox is not recreated, what an id displays is the message   *)
(* its row describes, whatever is fetched, starred, moved, expunged or      *)
(* stored late: no body outlives its message under an id that another one   *)
(* took (load_message_content, move_message, cache_message_content).        *)
THEOREM BodiesBelong ==
    ASSUME BodyAssumption
    PROVE  Spec => []BodyBelongs
  <1>1. Init => IInv /\ Loyal
        BY InitHolds, InitLoyal
  <1>2. (IInv /\ Loyal) /\ [Next]_vars => (IInv /\ Loyal)'
        BY NextKeeps, LoyalKept
  <1>3. IInv /\ Loyal => BodyBelongs
        BY LoyalHolds DEF IInv
  <1>. QED  BY <1>1, <1>2, <1>3, PTL DEF Spec

-----------------------------------------------------------------------------
(* The budget of the display cache *)

(* The order of access is a strict order of the entries. *)
Orders(older, S) ==
    /\ \A i, j \in S : i = j \/ (<<i, j>> \in older) # (<<j, i>> \in older)
    /\ \A i \in S : <<i, i>> \notin older
    /\ \A i, j, k \in S : <<i, j>> \in older /\ <<j, k>> \in older => <<i, k>> \in older

Ordered(c) == Orders(c.older, Held(c))

Fits(c) == Bytes(c, Held(c)) <= Budget

Rowed(c) == \A i \in Held(c) : row[i] # 0

(* Entries of the same bodies take the same room. *)
LEMMA BytesOf ==
    ASSUME BodyAssumption, NEW c, CacheOK(c), NEW S \in SUBSET Ids
    PROVE  /\ Bytes(c, S) \in Nat
           /\ S = {} => Bytes(c, S) = 0
           /\ \A R \in SUBSET S : Bytes(c, R) <= Bytes(c, S)
           /\ \A d : CacheOK(d) /\ (\A i \in S : d.body[i] = c.body[i]) => Bytes(d, S) = Bytes(c, S)
  <1>. DEFINE f(d) == [i \in Ids |-> Size[d.body[i]]]
  <1>1. IsFiniteSet(S)
        BY FS_Subset DEF BodyAssumption
  <1>2. ASSUME NEW d, CacheOK(d) PROVE \A i \in S : f(d)[i] = Size[d.body[i]] /\ f(d)[i] \in Nat
        BY <1>2 DEF CacheOK, Numbers, BodyAssumption
  <1>3. \A d, R : Bytes(d, R) = SumFunctionOnSet(f(d), R)
        BY DEF Bytes
  <1>. HIDE DEF f
  <1>4. \A x \in S : f(c)[x] \in Nat
        BY <1>2
  <1>5. /\ SumFunctionOnSet(f(c), S) \in Nat
        /\ S = {} => SumFunctionOnSet(f(c), S) = 0
        BY <1>1, <1>4, SumLess
  <1>6. \A R \in SUBSET S : SumFunctionOnSet(f(c), R) <= SumFunctionOnSet(f(c), S)
        BY <1>1, <1>4, SumSubset
  <1>7. ASSUME NEW d, CacheOK(d), \A i \in S : d.body[i] = c.body[i]
        PROVE  SumFunctionOnSet(f(d), S) = SumFunctionOnSet(f(c), S)
    <2>1. \A x \in S : f(c)[x] \in Nat /\ f(d)[x] = f(c)[x]
          BY <1>2, <1>7
    <2>. QED  BY <1>1, <2>1, SumSame
  <1>. QED  BY <1>3, <1>5, <1>6, <1>7

LEMMA WithoutFits ==
    ASSUME BodyAssumption, NEW c, CacheOK(c), NEW is
    PROVE  /\ Held(Without(c, is)) = Held(c) \ is
           /\ Fits(c) => Fits(Without(c, is))
           /\ Ordered(c) => Ordered(Without(c, is))
  <1>. DEFINE d == Without(c, is)
  <1>1. CacheOK(d) /\ \A i \in Ids : d.body[i] = IF i \in is THEN 0 ELSE c.body[i]
        BY WithoutOf DEF Without
  <1>2. \A i, j : <<i, j>> \in d.older <=> <<i, j>> \in c.older /\ i \notin is /\ j \notin is
        BY DEF Without
  <1>. HIDE DEF d
  <1>3. Held(d) = Held(c) \ is /\ \A i \in Held(d) : d.body[i] = c.body[i]
        BY <1>1 DEF Held
  <1>4. Held(d) \in SUBSET Held(c) /\ Held(c) \in SUBSET Ids
        BY <1>3 DEF Held
  <1>5. Fits(c) => Fits(d)
    <2>1. Bytes(d, Held(d)) = Bytes(c, Held(d))
          BY <1>1, <1>3, <1>4, BytesOf
    <2>2. Bytes(c, Held(d)) <= Bytes(c, Held(c)) /\ Bytes(c, Held(d)) \in Nat /\ Bytes(c, Held(c)) \in Nat
          BY <1>4, BytesOf
    <2>. QED  BY <2>1, <2>2 DEF Fits, BodyAssumption
  <1>6. Ordered(c) => Ordered(d)
        BY <1>2, <1>3 DEF Ordered, Orders
  <1>. QED  BY <1>3, <1>5, <1>6 DEF d

LEMMA BeforeOrders ==
    ASSUME NEW c, Ordered(c)
    PROVE  /\ \A i, j \in Held(c) : i = j \/ Before(c, i, j) \/ Before(c, j, i)
           /\ \A i, j, k \in Held(c) : Before(c, i, j) /\ Before(c, j, k) => Before(c, i, k)
  BY DEF Ordered, Orders, Before

(* What is left after a turn holds all that is left after a later one.      *)
LEMMA LeftShrinks ==
    ASSUME NEW c, Ordered(c), NEW i \in Held(c), NEW j \in Held(c)
    PROVE  Left(c, i) \subseteq Left(c, j) \/ Left(c, j) \subseteq Left(c, i)
  BY BeforeOrders DEF Left

LEMMA EvictedFits ==
    ASSUME BodyAssumption, NEW c, CacheOK(c), Ordered(c)
    PROVE  Fits(Evicted(c))
  <1>. DEFINE J == {j \in Held(c) : Bytes(c, Left(c, j)) <= Budget}
              gone == {i \in Held(c) : \A j \in Held(c) : i \in Left(c, j) => Bytes(c, Left(c, j)) > Budget}
              kept == {i \in Held(c) : \E j \in J : i \in Left(c, j)}
  <1>1. /\ Held(c) \in SUBSET Ids /\ IsFiniteSet(Held(c)) /\ Budget \in Nat
        /\ \A j \in Held(c) : Left(c, j) \in SUBSET Held(c) /\ Bytes(c, Left(c, j)) \in Nat
    <2>1. Held(c) \in SUBSET Ids /\ Budget \in Nat
          BY DEF Held, BodyAssumption
    <2>2. IsFiniteSet(Held(c))
          BY <2>1, FS_Subset DEF BodyAssumption
    <2>3. \A j : Left(c, j) \in SUBSET Held(c)
          BY DEF Left
    <2>4. \A j : Bytes(c, Left(c, j)) \in Nat
          BY <2>1, <2>3, BytesOf
    <2>. QED  BY <2>1, <2>2, <2>3, <2>4
  <1>2. Held(c) \ gone = kept
        BY <1>1
  <1>3. Evicted(c) = Without(c, gone)
        BY DEF Evicted
  <1>4. Held(Evicted(c)) = kept
        BY <1>2, <1>3, WithoutFits
  <1>5. Bytes(Evicted(c), kept) = Bytes(c, kept)
    <2>1. CacheOK(Evicted(c)) /\ \A i \in kept : Evicted(c).body[i] = c.body[i]
      <3>1. kept \subseteq Ids /\ kept \cap gone = {}
            BY <1>1, <1>2
      <3>. HIDE DEF kept, gone
      <3>. QED  BY <1>3, <3>1, WithoutOf DEF Without
    <2>2. kept \in SUBSET Ids
          BY <1>1
    <2>. HIDE DEF kept
    <2>. QED  BY <2>1, <2>2, BytesOf
  <1>6. CASE J = {}
    <2>1. kept = {}
          BY <1>6
    <2>2. Bytes(c, kept) = 0
          BY <2>1, BytesOf
    <2>. QED  BY <1>1, <1>4, <1>5, <2>2 DEF Fits
  <1>7. CASE J # {}
    <2>. DEFINE T == {Held(c) \ Left(c, j) : j \in J}
    <2>1. PICK s \in T : \A r \in T : r \subseteq s => r = s
      <3>1. T \in SUBSET SUBSET Held(c) /\ T # {}
            BY <1>7
      <3>. HIDE DEF T
      <3>. QED  BY <1>1, <3>1, SmallestSet
    <2>2. PICK j0 \in J : s = Held(c) \ Left(c, j0)
          BY <2>1
    <2>3. ASSUME NEW j \in J
          PROVE  Left(c, j) \subseteq Left(c, j0)
      <3>1. j \in Held(c) /\ j0 \in Held(c) /\ Held(c) \ Left(c, j) \in T
            BY <2>2, <2>3
      <3>2. CASE Left(c, j0) \subseteq Left(c, j)
        <4>1. Held(c) \ Left(c, j) = Held(c) \ Left(c, j0)
              BY <2>1, <2>2, <3>1, <3>2
        <4>. QED  BY <1>1, <3>1, <4>1
      <3>. QED  BY <3>1, <3>2, LeftShrinks
    <2>4. kept = Left(c, j0)
          BY <1>1, <2>2, <2>3
    <2>. QED  BY <1>4, <1>5, <2>2, <2>4 DEF Fits
  <1>. QED  BY <1>6, <1>7

(* An entry that is accessed comes after all others, and takes no room.     *)
LEMMA TouchedFits ==
    ASSUME BodyAssumption, NEW c, CacheOK(c), NEW i \in Ids, Orders(c.older, Held(c) \ {i})
    PROVE  /\ Held(Touched(c, i)) = Held(c) /\ CacheOK(Touched(c, i))
           /\ Fits(c) => Fits(Touched(c, i))
           /\ Ordered(Touched(c, i))
  <1>. DEFINE d == Touched(c, i)
  <1>1. CacheOK(d) /\ d.body = c.body
        BY TouchedOf DEF Touched, CacheOK
  <1>2. d.older = {p \in c.older : p[1] # i} \cup {<<j, i>> : j \in Held(c) \ {i}}
        BY DEF Touched, CacheOK
  <1>. HIDE DEF d
  <1>3. Held(d) = Held(c) /\ Held(c) \in SUBSET Ids
        BY <1>1 DEF Held
  <1>4. Fits(c) => Fits(d)
        BY <1>1, <1>3, BytesOf DEF Fits
  <1>5. \A x, y \in Held(c) : <<x, y>> \in d.older <=> /\ x # i
                                                       /\ y = i \/ <<x, y>> \in c.older
        BY <1>2
  <1>6. Ordered(d)
        BY <1>3, <1>5 DEF Ordered, Orders
  <1>. QED  BY <1>1, <1>3, <1>4, <1>6 DEF d

CacheRight == Fits(cache) /\ Rowed(cache) /\ Ordered(cache)

LEMMA StoredFits ==
    ASSUME BodyAssumption, CacheOK(cache), CacheRight, NEW i \in Ids, NEW b \in Numbers,
           cache' = Stored(i, b), UNCHANGED row
    PROVE  CacheRight'
  <1>1. CASE cache' = Without(cache, {i})
    <2>1. Fits(cache') /\ Ordered(cache') /\ Held(cache') = Held(cache) \ {i}
          BY <1>1, WithoutFits DEF CacheRight
    <2>2. \A j \in Held(cache') : row'[j] # 0
          BY <2>1 DEF CacheRight, Rowed
    <2>. QED  BY <2>1, <2>2 DEF CacheRight, Rowed, Fits, Ordered, Held, Bytes
  <1>2. CASE row[i] # 0 /\ cache' = Evicted(Touched([cache EXCEPT !.body[i] = b], i))
    <2>. DEFINE c == [cache EXCEPT !.body[i] = b]
    <2>1. /\ CacheOK(c) /\ c.older = cache.older
          /\ \A j \in Ids \ {i} : c.body[j] = cache.body[j]
          BY DEF CacheOK
    <2>. HIDE DEF c
    <2>2. Held(c) \ {i} \subseteq Held(cache)
          BY <2>1 DEF Held
    <2>3. Orders(c.older, Held(c) \ {i})
          BY <2>1, <2>2 DEF CacheRight, Ordered, Orders
    <2>4. /\ CacheOK(Touched(c, i)) /\ Ordered(Touched(c, i))
          /\ Held(Touched(c, i)) = Held(c)
          BY <2>1, <2>3, TouchedFits
    <2>5. Fits(cache') /\ Ordered(cache') /\ Held(cache') \subseteq Held(c)
      <3>1. cache' = Evicted(Touched(c, i))
            BY <1>2 DEF c
      <3>2. PICK is : Evicted(Touched(c, i)) = Without(Touched(c, i), is)
            BY DEF Evicted
      <3>. QED  BY <2>4, <3>1, <3>2, EvictedFits, WithoutFits
    <2>6. \A j \in Held(cache') : row'[j] # 0
          BY <1>2, <2>2, <2>5 DEF CacheRight, Rowed
    <2>. QED  BY <2>5, <2>6 DEF CacheRight, Rowed, Fits, Ordered, Held, Bytes
  <1>. QED  BY <1>1, <1>2 DEF Stored

(* A row goes only with its entry.                                          *)
LEMMA DroppedFits ==
    ASSUME BodyAssumption, CacheOK(cache), CacheRight, NEW is,
           cache' \in {cache, Without(cache, is)},
           \A i \in Ids : row[i] # 0 => row'[i] # 0 \/ (i \in is /\ cache' = Without(cache, is))
    PROVE  CacheRight'
  <1>1. Fits(cache') /\ Ordered(cache')
        BY WithoutFits DEF CacheRight
  <1>2. \A i \in Held(cache') : i \in Held(cache) /\ row'[i] # 0
    <2>1. CASE cache' = cache
      <3>1. \A i \in Held(cache) : row[i] # 0 /\ i \in Ids /\ cache.body[i] # 0
            BY DEF CacheRight, Rowed, Held
      <3>2. cache = Without(cache, is) => \A i \in Held(cache) : i \notin is
            BY WithoutFits
      <3>. QED  BY <2>1, <3>1, <3>2
    <2>2. CASE cache' = Without(cache, is)
      <3>1. Held(cache') = Held(cache) \ is
            BY <2>2, WithoutFits
      <3>2. \A i \in Held(cache) : row[i] # 0 /\ i \in Ids
            BY DEF CacheRight, Rowed, Held
      <3>. QED  BY <3>1, <3>2
    <2>. QED  BY <2>1, <2>2
  <1>. QED  BY <1>1, <1>2 DEF CacheRight, Rowed, Fits, Ordered, Held, Bytes

LEMMA AccessedFits ==
    ASSUME BodyAssumption, CacheOK(cache), CacheRight, NEW i \in Ids,
           cache' \in {cache, Promoted(i), Touched(cache, i)}, UNCHANGED row
    PROVE  CacheRight'
  <1>1. cache' \in {cache, Touched(cache, i)}
        BY DEF Promoted
  <1>2. Orders(cache.older, Held(cache) \ {i})
        BY DEF CacheRight, Ordered, Orders
  <1>3. Fits(cache') /\ Ordered(cache') /\ Held(cache') = Held(cache)
        BY <1>1, <1>2, TouchedFits DEF CacheRight
  <1>4. \A j \in Held(cache') : row'[j] # 0
        BY <1>3 DEF CacheRight, Rowed
  <1>. QED  BY <1>3, <1>4 DEF CacheRight, Rowed, Fits, Ordered, Held, Bytes

LEMMA EmptyFits ==
    ASSUME BodyAssumption
    PROVE  Fits(NoCache) /\ Ordered(NoCache) /\ Held(NoCache) = {} /\ CacheOK(NoCache)
  <1>1. CacheOK(NoCache) /\ Held(NoCache) = {}
        BY NumbersIn DEF CacheOK, NoCache, Held
  <1>2. Bytes(NoCache, {}) = 0
        BY <1>1, BytesOf
  <1>. QED  BY <1>1, <1>2 DEF Fits, Ordered, Orders, BodyAssumption

LEMMA CacheStaysRight ==
    ASSUME BodyAssumption, IInv, CacheOK(cache), CacheRight, [Next]_vars
    PROVE  CacheRight'
  <1>1. ASSUME NEW t \in Fetchers, NEW i \in Ids,
               Open(t, i) \/ Warm(t, i) \/ OpenClaim(t) \/ Poll(t) \/ Cancel(t)
        PROVE  CacheRight'
    <2>1. UNCHANGED row
          BY <1>1 DEF Open, Warm, OpenClaim, Poll, Cancel, catalogue
    <2>2. \E j \in Ids : cache' \in {cache, Promoted(j), Touched(cache, j)}
      <3>1. ASSUME Poll(t) PROVE task[t].id \in Ids
            BY <3>1 DEF Poll, At, IInv, Tasks
      <3>. QED  BY <1>1, <3>1 DEF Open, Warm, OpenClaim, Poll, Cancel, bodies
    <2>. QED  BY <2>1, <2>2, AccessedFits
  <1>2. ASSUME NEW t \in Fetchers,
               Recheck(t) \/ Locate(t) \/ Fetch(t) \/ Attach(t) \/ Star(t) \/ Check(t)
                 \/ Restar(t) \/ Release(t)
        PROVE  CacheRight'
    <2>1. UNCHANGED row
          BY <1>2 DEF Recheck, Locate, Fetch, Attach, Star, Check, Restar, Release, catalogue
    <2>2. \E j \in Ids : cache' \in {cache, Promoted(j), Touched(cache, j)}
      <3>1. task[t].id \in Ids
            BY <1>2 DEF Recheck, Locate, Fetch, Attach, Star, Check, Restar, Release, At, IInv, Tasks
      <3>. QED  BY <1>2, <3>1 DEF Recheck, Locate, Fetch, Attach, Star, Check, Restar, Release, bodies
    <2>. QED  BY <2>1, <2>2, AccessedFits
  <1>3. ASSUME NEW t \in Fetchers, Cache(t)
        PROVE  CacheRight'
    <2>1. task[t].id \in Ids /\ task[t].body \in Numbers
          BY <1>3 DEF Cache, IInv, Tasks, Locals
    <2>. QED  BY <1>3, <2>1, StoredFits DEF Cache, catalogue
  <1>4. ASSUME NEW i \in Ids, Lapse(i) \/ Renew(i) \/ Deliver(i) \/ ExpungeElsewhere(i)
                                \/ StarElsewhere(i)
        PROVE  CacheRight'
    <2>1. UNCHANGED <<row, cache>>
          BY <1>4 DEF Lapse, Renew, Deliver, ExpungeElsewhere, StarElsewhere, bodies, catalogue
    <2>. QED  BY <2>1, DroppedFits
  <1>5. ASSUME NEW i \in Ids, Persist(i) \/ SyncFlags(i) \/ Vanish(i)
        PROVE  CacheRight'
    <2>1. /\ cache' \in {cache, Without(cache, {i})}
          /\ \A j \in Ids : row[j] # 0 => row'[j] # 0 \/ (j \in {i} /\ cache' = Without(cache, {i}))
      <3>1. ASSUME Persist(i)
            PROVE  cache' = cache /\ \A j \in Ids : row[j] # 0 => row'[j] # 0
            BY <3>1 DEF Persist, IInv, Rows
      <3>2. ASSUME SyncFlags(i)
            PROVE  cache' \in {cache, Without(cache, {i})} /\ row' = row
            BY <3>2 DEF SyncFlags, CacheAfter
      <3>3. ASSUME Vanish(i)
            PROVE  /\ cache' = Without(cache, {i})
                   /\ \A j \in Ids : row'[j] = IF j \in {i} THEN 0 ELSE row[j]
            BY <3>3 DEF Vanish, Cascade
      <3>. QED  BY <1>5, <3>1, <3>2, <3>3
    <2>. QED  BY <2>1, DroppedFits
  <1>6. ASSUME Crash \/ Recreate \/ UNCHANGED vars
        PROVE  CacheRight'
    <2>1. UNCHANGED <<row, cache>>
          BY <1>6 DEF Crash, Recreate, vars, bodies, catalogue
    <2>. QED  BY <2>1, DroppedFits
  <1>7. ASSUME Publish
        PROVE  CacheRight'
    <2>1. cache' = NoCache
          BY <1>7 DEF Publish
    <2>2. Fits(cache') /\ Ordered(cache') /\ Held(cache') = {}
          BY <2>1, EmptyFits
    <2>. QED  BY <2>2 DEF CacheRight, Rowed, Fits, Ordered, Held, Bytes
  <1>8. ASSUME NEW i \in Ids, NEW to \in Ids, NEW on \in BOOLEAN,
               StarStore(i, on) \/ MoveStore(i, to)
        PROVE  CacheRight'
    <2>1. UNCHANGED <<row, cache>>
          BY <1>8 DEF StarStore, MoveStore, bodies, catalogue
    <2>. QED  BY <2>1, DroppedFits
  <1>9. ASSUME StarFlag \/ StarFetch \/ StarSave
        PROVE  CacheRight'
    <2>1. cache' \in {cache, Without(cache, {user.id})}
          BY <1>9 DEF StarFlag, StarFetch, StarSave, CacheAfter, bodies
    <2>2. \A j \in Ids : row[j] # 0 => row'[j] # 0
      <3>1. ASSUME StarSave PROVE user.body # 0 /\ row \in [Ids -> Numbers]
            BY <3>1 DEF StarSave, IInv, User, Rows
      <3>. QED  BY <1>9, <3>1 DEF StarFlag, StarFetch, StarSave, catalogue
    <2>. QED  BY <2>1, <2>2, DroppedFits
  <1>10. ASSUME MoveLocally
         PROVE  CacheRight'
    <2>. DEFINE gone == IF user.to # NoId THEN Stripped(user.id, user.to) ELSE {user.id}
    <2>1. cache' = Without(cache, gone)
          BY <1>10 DEF MoveLocally
    <2>2. \A j \in Ids : j \notin gone => row'[j] = row[j]
          BY <1>10 DEF MoveLocally, Stripped, BodyAssumption
    <2>. HIDE DEF gone
    <2>. QED  BY <2>1, <2>2, DroppedFits
  <1>11. Ids # {}
         BY DEF BodyAssumption
  <1>. QED  BY <1>1, <1>2, <1>3, <1>4, <1>5, <1>6, <1>7, <1>8, <1>9, <1>10, <1>11 DEF Next, Fetchers

(* However windows and warmers store, hit and lose entries, the display     *)
(* cache stays within its budget, holds entries only for rows that exist,   *)
(* and knows of any two which was accessed earlier                          *)
(* (cache_message_content_with_budget).                                     *)
THEOREM CacheStaysInBudget ==
    ASSUME BodyAssumption
    PROVE  Spec => []CacheFits
  <1>1. Init => IInv /\ Loyal /\ CacheRight
    <2>1. Init => cache = NoCache
          BY DEF Init
    <2>. QED  BY <2>1, InitHolds, InitLoyal, EmptyFits DEF CacheRight, Rowed
  <1>2. (IInv /\ Loyal /\ CacheRight) /\ [Next]_vars => (IInv /\ Loyal /\ CacheRight)'
        BY NextKeeps, LoyalKept, CacheStaysRight DEF Loyal
  <1>3. CacheRight => CacheFits
        BY DEF CacheRight, Fits, Rowed, Ordered, Orders, CacheFits
  <1>. QED  BY <1>1, <1>2, <1>3, PTL DEF Spec

-----------------------------------------------------------------------------
(* Language packs *)

Steps == Pack!Ended \cup {"clear", "make"} \cup Pack!Holding
Jobs   == [at : Steps, k : Nat, cancelled : BOOLEAN]

LEMMA IdleJob == Pack!Idle \in Jobs
  BY DEF Pack!Idle, Jobs, Steps, Pack!Ended

(* A call that holds the directory only leaves such a place by removing the *)
(* directory, by renaming it, or by a crash.                                *)
Tidy == job \in [Installers -> Jobs] /\ Pack!NothingPartialLeft

(* A step of one installation that leaves the directory where it was keeps  *)
(* whoever holds it.                                                        *)
LEMMA Kept ==
    ASSUME Tidy, NEW i \in Installers, NEW j \in Jobs,
           job' = [job EXCEPT ![i] = j],
           job[i].at \in Pack!Holding => j.at \in Pack!Holding,
           temp'.there => temp.there \/ j.at \in Pack!Holding,
           crashed' = crashed
    PROVE  Tidy'
  <1>1. job' \in [Installers -> Jobs]
        BY DEF Tidy
  <1>2. job'[i] = j /\ \A x \in Installers \ {i} : job'[x] = job[x]
        BY DEF Tidy
  <1>3. Pack!NothingPartialLeft'
        BY <1>2 DEF Tidy, Pack!NothingPartialLeft, Pack!Holding
  <1>. QED  BY <1>1, <1>3 DEF Tidy

(* So does one after which there is no directory.                           *)
LEMMA Gone ==
    ASSUME Tidy, NEW i \in Installers, NEW j \in Jobs,
           job' = [job EXCEPT ![i] = j], ~temp'.there
    PROVE  Tidy'
  BY DEF Tidy, Pack!NothingPartialLeft

(* What Go, Answer and the others make of an installation's record.         *)
LEMMA Moves ==
    ASSUME NEW i \in Installers, job \in [Installers -> Jobs]
    PROVE  /\ \A at \in Steps : Pack!Go(i, at) =>
                 \E j \in Jobs : job' = [job EXCEPT ![i] = j] /\ j.at = at
           /\ \A at \in Steps : Pack!Answer(i, at) =>
                 \E j \in Jobs : job' = [job EXCEPT ![i] = j] /\ j.at = at
  <1>1. job[i] \in Jobs
        OBVIOUS
  <1>2. ASSUME NEW at \in Steps, Pack!Go(i, at)
        PROVE  \E j \in Jobs : job' = [job EXCEPT ![i] = j] /\ j.at = at
    <2>1. [job[i] EXCEPT !.at = at] \in Jobs /\ [job[i] EXCEPT !.at = at].at = at
          BY <1>1 DEF Jobs
    <2>2. job' = [job EXCEPT ![i] = [job[i] EXCEPT !.at = at]]
          BY <1>2 DEF Pack!Go
    <2>. QED  BY <2>1, <2>2
  <1>3. ASSUME NEW at \in Steps, Pack!Answer(i, at)
        PROVE  \E j \in Jobs : job' = [job EXCEPT ![i] = j] /\ j.at = at
    <2>1. [Pack!Idle EXCEPT !.at = at] \in Jobs /\ [Pack!Idle EXCEPT !.at = at].at = at
          BY IdleJob DEF Jobs
    <2>2. job' = [job EXCEPT ![i] = [Pack!Idle EXCEPT !.at = at]]
          BY <1>3 DEF Pack!Answer
    <2>. QED  BY <2>1, <2>2
  <1>. QED  BY <1>2, <1>3

(* A step to a place that holds the directory, and one that does not make it. *)
LEMMA Stays ==
    ASSUME Tidy, NEW i \in Installers, NEW at \in Pack!Holding, Pack!Go(i, at),
           crashed' = crashed
    PROVE  Tidy'
  <1>1. at \in Steps
        BY DEF Steps
  <1>2. PICK j \in Jobs : job' = [job EXCEPT ![i] = j] /\ j.at = at
        BY <1>1, Moves DEF Tidy
  <1>3. j.at \in Pack!Holding
        BY <1>2
  <1>. QED  BY <1>2, <1>3, Kept

LEMMA InstallerStep ==
    ASSUME Tidy, NEW i \in Installers,
           \/ Pack!Install(i) \/ Pack!Clear(i) \/ Pack!Make(i) \/ Pack!Request(i)
           \/ Pack!Create(i) \/ Pack!Write(i)
           \/ Pack!Corrupt(i) \/ Pack!Broken(i) \/ Pack!Swap(i) \/ Pack!Rename(i) \/ Pack!Undo(i),
           Pack!PackAssumption
    PROVE  Tidy'
  <1>1. job \in [Installers -> Jobs] /\ job[i] \in Jobs /\ Files \in Nat
        BY DEF Tidy, Pack!PackAssumption
  <1>2. ~Pack!NoDir.there /\ \A c : Pack!Wrote(temp, i, c).there = temp.there
        BY DEF Pack!NoDir, Pack!Wrote
  <1>3. ASSUME NEW at \in Steps, Pack!Answer(i, at), job[i].at \notin Pack!Holding,
               temp' = temp, crashed' = crashed
        PROVE  Tidy'
    <2>1. PICK j \in Jobs : job' = [job EXCEPT ![i] = j] /\ j.at = at
          BY <1>1, <1>3, Moves
    <2>. QED  BY <1>3, <2>1, Kept
  <1>4. ASSUME NEW at \in Steps, Pack!Answer(i, at), temp' = Pack!NoDir PROVE Tidy'
    <2>1. PICK j \in Jobs : job' = [job EXCEPT ![i] = j] /\ j.at = at
          BY <1>1, <1>4, Moves
    <2>. QED  BY <1>2, <1>4, <2>1, Gone
  <1>5. CASE Pack!Install(i)
    <2>1. job[i].at \notin Pack!Holding /\ temp' = temp /\ crashed' = crashed
          BY <1>5 DEF Pack!Install, Pack!Ended, Pack!Holding
    <2>2. CASE Pack!Verified
          BY <1>3, <1>5, <2>1, <2>2 DEF Pack!Install, Steps, Pack!Ended
    <2>3. CASE ~Pack!Verified
      <3>1. job' = [job EXCEPT ![i] = [Pack!Idle EXCEPT !.at = "clear"]]
            BY <1>5, <2>3 DEF Pack!Install
      <3>2. [Pack!Idle EXCEPT !.at = "clear"] \in Jobs
            BY IdleJob DEF Jobs, Steps
      <3>. QED  BY <2>1, <3>1, <3>2, Kept
    <2>. QED  BY <2>2, <2>3
  <1>6. CASE Pack!Clear(i)
    <2>1. "make" \in Steps /\ Pack!Go(i, "make") /\ temp' = Pack!NoDir
          BY <1>6 DEF Pack!Clear, Steps
    <2>2. PICK j \in Jobs : job' = [job EXCEPT ![i] = j] /\ j.at = "make"
          BY <1>1, <2>1, Moves
    <2>. QED  BY <1>2, <2>1, <2>2, Gone
  <1>7. CASE Pack!Make(i)
    <2>1. CASE temp.there
          BY <1>3, <1>7, <2>1 DEF Pack!Make, Pack!At, Pack!Holding, Steps, Pack!Ended
    <2>2. CASE ~temp.there
          BY <1>7, <2>2, Stays DEF Pack!Make, Pack!Holding
    <2>. QED  BY <2>1, <2>2
  <1>8. CASE Pack!Request(i)
        BY <1>8, Stays DEF Pack!Request, Pack!Holding
  <1>9. CASE Pack!Create(i)
        BY <1>9, Stays DEF Pack!Create, Pack!Holding
  <1>10. CASE Pack!Write(i)
    <2>1. CASE job[i].cancelled
          BY <1>10, <2>1, Stays DEF Pack!Write, Pack!Holding
    <2>2. CASE ~job[i].cancelled
      <3>1. Pack!Advance(i) /\ crashed' = crashed
            BY <1>10, <2>2 DEF Pack!Write
      <3>2. CASE job[i].k = Files
            BY <3>1, <3>2, Stays DEF Pack!Advance, Pack!Holding
      <3>3. CASE job[i].k # Files
        <4>. DEFINE j == [job[i] EXCEPT !.at = "get", !.k = job[i].k + 1]
        <4>1. j \in Jobs /\ j.at \in Pack!Holding
          <5>1. job[i].k + 1 \in Nat
                BY <1>1 DEF Jobs
          <5>2. j \in Jobs
                BY <1>1, <5>1 DEF Jobs, Steps, Pack!Holding
          <5>3. j.at = "get"
                BY <1>1 DEF Jobs
          <5>. QED  BY <5>2, <5>3 DEF Pack!Holding
        <4>2. job' = [job EXCEPT ![i] = j]
              BY <3>1, <3>3 DEF Pack!Advance
        <4>. QED  BY <3>1, <4>1, <4>2, Kept
      <3>. QED  BY <3>2, <3>3
    <2>. QED  BY <2>1, <2>2
  <1>11. CASE Pack!Corrupt(i)
        BY <1>11, Stays DEF Pack!Corrupt, Pack!OnCorrupt, Pack!Holding
  <1>12. CASE Pack!Broken(i)
        BY <1>12, Stays DEF Pack!Broken, Pack!Holding
  <1>13. CASE Pack!Swap(i)
        BY <1>13, Stays DEF Pack!Swap, Pack!Holding
  <1>14. CASE Pack!Rename(i)
    <2>1. CASE temp.there /\ ~pack.there
          BY <1>4, <1>14, <2>1 DEF Pack!Rename, Steps, Pack!Ended
    <2>2. CASE ~(temp.there /\ ~pack.there)
          BY <1>14, <2>2, Stays DEF Pack!Rename, Pack!Holding
    <2>. QED  BY <2>1, <2>2
  <1>15. CASE Pack!Undo(i)
        BY <1>4, <1>15 DEF Pack!Undo, Steps, Pack!Ended
  <1>. QED  BY <1>5, <1>6, <1>7, <1>8, <1>9, <1>10, <1>11, <1>12, <1>13, <1>14, <1>15

(* No partial download is left once nothing downloads, however many windows *)
(* install the pack at once and take each other's directory away.           *)
THEOREM PartialsCleaned ==
    ASSUME Pack!PackAssumption
    PROVE  Pack!Spec => []Pack!NothingPartialLeft
  <1>1. Pack!Init => Tidy
        BY IdleJob DEF Pack!Init, Tidy, Pack!NothingPartialLeft, Pack!NoDir
  <1>2. ASSUME Tidy, [Pack!Next]_(Pack!vars) PROVE Tidy'
    <2>1. ASSUME NEW i \in Installers,
                 \/ Pack!Install(i) \/ Pack!Clear(i) \/ Pack!Make(i) \/ Pack!Request(i)
                 \/ Pack!Create(i) \/ Pack!Write(i)
                 \/ Pack!Corrupt(i) \/ Pack!Broken(i) \/ Pack!Swap(i) \/ Pack!Rename(i) \/ Pack!Undo(i)
          PROVE  Tidy'
          BY <1>2, <2>1, InstallerStep
    <2>2. CASE Pack!Cancel
      <3>1. job' = [job EXCEPT ![flag].cancelled = TRUE]
            BY <2>2 DEF Pack!Cancel
      <3>2. job' \in [Installers -> Jobs] /\ \A i \in Installers : job'[i].at = job[i].at
            BY <1>2, <3>1 DEF Tidy, Jobs
      <3>. QED  BY <1>2, <2>2, <3>2 DEF Pack!Cancel, Tidy, Pack!NothingPartialLeft
    <2>3. CASE Pack!Remove \/ Pack!Load \/ Pack!Read
          BY <1>2, <2>3 DEF Pack!Remove, Pack!Load, Pack!Read, Tidy, Pack!NothingPartialLeft
    <2>4. CASE Pack!Crash
          BY <2>4, IdleJob DEF Pack!Crash, Tidy, Pack!NothingPartialLeft
    <2>5. CASE UNCHANGED Pack!vars
          BY <1>2, <2>5 DEF Pack!vars, Tidy, Pack!NothingPartialLeft
    <2>. QED  BY <1>2, <2>1, <2>2, <2>3, <2>4, <2>5 DEF Pack!Next
  <1>3. Tidy => Pack!NothingPartialLeft
        BY DEF Tidy
  <1>. QED  BY <1>1, <1>2, <1>3, PTL DEF Pack!Spec

-----------------------------------------------------------------------------
(* What is verified, where one window installs the pack *)

Words  == {"none", "good", "torn"} \cup Installers
Dirs   == [there : BOOLEAN, file : [1..Files -> Words]]
Whole  == {"none", "good"}

DirsOK == temp \in Dirs /\ pack \in Dirs /\ job \in [Installers -> Jobs]

(* The files that are done are whole, and the directory is there.           *)
Sure(i) ==
    /\ job[i].at \in {"clear", "make"} => job[i].k = 1
    /\ job[i].at \in {"get", "asked", "write"} =>
          /\ temp.there /\ job[i].k \in 1..Files
          /\ \A x \in 1..(job[i].k - 1) : temp.file[x] = "good"
    /\ job[i].at = "write" => temp.file[job[i].k] = i
    /\ job[i].at \in {"swap", "rename"} =>
          temp.there /\ \A x \in 1..Files : temp.file[x] = "good"

(* What is installed is whole, or nothing is; so is what was loaded.        *)
Installed == /\ \A x \in 1..Files : pack.file[x] \in Whole
             /\ Pack!PackIsVerified /\ Pack!LoadsOnlyVerified
             /\ engine.k \in 1..Files

Sound == DirsOK /\ Installed /\ \A i \in Installers : Sure(i)
(* Steps of the only installation. *)
LEMMA Goes ==
    ASSUME job \in [Installers -> Jobs], NEW i \in Installers, NEW at \in Steps, Pack!Go(i, at)
    PROVE  /\ job' \in [Installers -> Jobs]
           /\ job'[i].at = at /\ job'[i].k = job[i].k
  <1>. DEFINE j == [job[i] EXCEPT !.at = at]
  <1>1. j \in Jobs /\ j.at = at /\ j.k = job[i].k
        BY DEF Jobs
  <1>2. job' = [job EXCEPT ![i] = j]
        BY DEF Pack!Go
  <1>. HIDE DEF j
  <1>. QED  BY <1>1, <1>2

LEMMA Answers ==
    ASSUME job \in [Installers -> Jobs], NEW i \in Installers, NEW at \in Pack!Ended, Pack!Answer(i, at)
    PROVE  job' \in [Installers -> Jobs] /\ job'[i].at = at
  <1>1. at \in Steps
        BY DEF Steps
  <1>2. PICK j \in Jobs : job' = [job EXCEPT ![i] = j] /\ j.at = at
        BY <1>1, Moves
  <1>. QED  BY <1>2

(* A directory and what is written to it. *)
LEMMA DirTypes ==
    /\ Pack!NoDir \in Dirs /\ Pack!Fresh \in Dirs /\ Pack!Fresh.there /\ ~Pack!NoDir.there
    /\ \A x \in 1..Files : Pack!NoDir.file[x] = "none"
  BY DEF Pack!NoDir, Pack!Fresh, Pack!Empty, Dirs, Words

LEMMA Written ==
    ASSUME NEW dir \in Dirs, NEW i \in Installers, NEW c \in Words
    PROVE  /\ Pack!Wrote(dir, i, c) \in Dirs /\ Pack!Wrote(dir, i, c).there = dir.there
           /\ \A x \in 1..Files :
                Pack!Wrote(dir, i, c).file[x] = IF dir.file[x] = i THEN c ELSE dir.file[x]
  <1>. DEFINE f == [k \in 1..Files |-> IF dir.file[k] = i THEN c ELSE dir.file[k]]
  <1>1. f \in [1..Files -> Words]
        BY DEF Dirs
  <1>2. Pack!Wrote(dir, i, c) = [dir EXCEPT !.file = f]
        BY DEF Pack!Wrote
  <1>3. \A x \in 1..Files : f[x] = IF dir.file[x] = i THEN c ELSE dir.file[x]
        OBVIOUS
  <1>. HIDE DEF f
  <1>. QED  BY <1>1, <1>2, <1>3 DEF Dirs

LEMMA Distinct ==
    ASSUME Pack!PackAssumption, NEW i \in Installers
    PROVE  i \notin Whole /\ i # "torn" /\ Files \in Nat \ {0}
  BY DEF Pack!PackAssumption, Whole

(* A write leaves what is installed as it is, *)
LEMMA InstalledStays ==
    ASSUME Pack!PackAssumption, DirsOK, Installed, NEW i \in Installers, NEW c \in Words,
           Pack!Leaves(i, c), engine' = engine
    PROVE  Installed'
  <1>1. /\ pack'.there = pack.there
        /\ \A x \in 1..Files : pack'.file[x] = pack.file[x]
        BY Written, Distinct DEF Pack!Leaves, DirsOK, Installed
  <1>. QED  BY <1>1 DEF Installed, Pack!PackIsVerified, Pack!Verified, Pack!LoadsOnlyVerified

(* and so does a step that does not touch it; without a pack nothing is to  *)
(* be whole.                                                                *)
LEMMA InstalledKept ==
    ASSUME Installed, engine' = engine, pack' = pack \/ pack' = Pack!NoDir
    PROVE  Installed'
  <1>1. CASE pack' = pack
        BY <1>1 DEF Installed, Pack!PackIsVerified, Pack!Verified, Pack!LoadsOnlyVerified
  <1>2. CASE pack' = Pack!NoDir
        BY <1>2, DirTypes DEF Installed, Pack!PackIsVerified, Pack!LoadsOnlyVerified, Whole
  <1>. QED  BY <1>1, <1>2

(* At rest, and where it only cleans up, an installation is sure of nothing. *)
LEMMA Unsure ==
    ASSUME NEW i \in Installers, job'[i].at \in Pack!Ended \cup {"undo"}
    PROVE  Sure(i)'
  BY DEF Pack!Ended, Sure

LEMMA SafeInstaller ==
    ASSUME Pack!PackAssumption, Pack!OneAtATime, Sound, NEW i \in Installers,
           \/ Pack!Install(i) \/ Pack!Clear(i) \/ Pack!Make(i) \/ Pack!Request(i)
           \/ Pack!Create(i) \/ Pack!Write(i)
           \/ Pack!Corrupt(i) \/ Pack!Broken(i) \/ Pack!Swap(i) \/ Pack!Rename(i) \/ Pack!Undo(i)
    PROVE  Sound'
  <1>1. /\ DirsOK /\ Installed /\ Sure(i) /\ job \in [Installers -> Jobs]
        /\ temp \in Dirs /\ pack \in Dirs /\ job[i] \in Jobs
        /\ i \notin Whole /\ i # "torn" /\ Files \in Nat \ {0}
        BY Distinct DEF Sound, DirsOK
  <1>2. ASSUME DirsOK', Installed', Sure(i)' PROVE Sound'
        BY <1>2 DEF Sound, Pack!OneAtATime
  <1>3. /\ Pack!Ended \subseteq Steps /\ Pack!Holding \subseteq Steps /\ "make" \in Steps
        /\ "torn" \in Words /\ "good" \in Words
        BY DEF Steps, Words
  <1>4. ASSUME NEW at \in Pack!Ended, Pack!Answer(i, at), temp' \in {temp, Pack!NoDir}, pack' = pack,
               engine' = engine
        PROVE  Sound'
    <2>1. job' \in [Installers -> Jobs] /\ job'[i].at \in Pack!Ended
          BY <1>1, <1>4, Answers
    <2>. QED  BY <1>1, <1>2, <1>4, <2>1, DirTypes, InstalledKept, Unsure DEF DirsOK
  <1>5. ASSUME Pack!Go(i, "undo"), temp' \in Dirs, pack' \in Dirs, Installed' PROVE Sound'
    <2>1. job' \in [Installers -> Jobs] /\ job'[i].at = "undo"
          BY <1>1, <1>3, <1>5, Goes DEF Pack!Holding
    <2>. QED  BY <1>2, <1>5, <2>1, Unsure DEF DirsOK
  <1>6. ASSUME NEW c \in Words, Pack!Leaves(i, c), engine' = engine
        PROVE  temp' \in Dirs /\ pack' \in Dirs /\ Installed'
        BY <1>1, <1>6, InstalledStays, Written DEF Pack!Leaves
  <1>7. CASE Pack!Install(i)
    <2>1. temp' = temp /\ pack' = pack /\ engine' = engine
          BY <1>7 DEF Pack!Install
    <2>2. CASE Pack!Verified
          BY <1>4, <1>7, <2>1, <2>2 DEF Pack!Install, Pack!Ended
    <2>3. CASE ~Pack!Verified
      <3>. DEFINE j == [Pack!Idle EXCEPT !.at = "clear"]
      <3>1. j \in Jobs /\ j.at = "clear" /\ j.k = 1
            BY IdleJob DEF Pack!Idle, Jobs, Steps
      <3>2. job' = [job EXCEPT ![i] = j]
            BY <1>7, <2>3 DEF Pack!Install
      <3>. HIDE DEF j
      <3>3. job' \in [Installers -> Jobs] /\ job'[i].at = "clear" /\ job'[i].k = 1
            BY <1>1, <3>1, <3>2
      <3>. QED  BY <1>1, <1>2, <2>1, <3>3, InstalledKept DEF DirsOK, Sure
    <2>. QED  BY <2>2, <2>3
  <1>8. CASE Pack!Clear(i)
    <2>1. temp' = Pack!NoDir /\ pack' = pack /\ engine' = engine /\ Pack!Go(i, "make") /\ job[i].k = 1
          BY <1>1, <1>8 DEF Pack!Clear, Pack!At, Sure
    <2>2. job' \in [Installers -> Jobs] /\ job'[i].at = "make" /\ job'[i].k = 1
          BY <1>1, <1>3, <2>1, Goes
    <2>. QED  BY <1>1, <1>2, <2>1, <2>2, DirTypes, InstalledKept DEF DirsOK, Sure
  <1>9. CASE Pack!Make(i)
    <2>1. pack' = pack /\ engine' = engine /\ job[i].k = 1
          BY <1>1, <1>9 DEF Pack!Make, Pack!At, Sure
    <2>2. CASE temp.there
          BY <1>4, <1>9, <2>1, <2>2 DEF Pack!Make, Pack!Ended
    <2>3. CASE ~temp.there
      <3>1. temp' = Pack!Fresh /\ Pack!Go(i, "get")
            BY <1>9, <2>3 DEF Pack!Make
      <3>2. job' \in [Installers -> Jobs] /\ job'[i].at = "get" /\ job'[i].k = 1
            BY <1>1, <1>3, <2>1, <3>1, Goes DEF Pack!Holding
      <3>. QED  BY <1>1, <1>2, <2>1, <3>1, <3>2, DirTypes, InstalledKept DEF DirsOK, Sure
    <2>. QED  BY <2>2, <2>3
  <1>10. CASE Pack!Request(i)
    <2>1. temp' = temp /\ pack' = pack /\ engine' = engine /\ job[i].at = "get"
          BY <1>10 DEF Pack!Request, Pack!At
    <2>2. CASE Pack!Go(i, "undo")
          BY <1>1, <1>5, <2>1, <2>2, InstalledKept
    <2>3. CASE Pack!Go(i, "asked")
      <3>1. job' \in [Installers -> Jobs] /\ job'[i].at = "asked" /\ job'[i].k = job[i].k
            BY <1>1, <1>3, <2>3, Goes DEF Pack!Holding
      <3>. QED  BY <1>1, <1>2, <2>1, <3>1, InstalledKept DEF DirsOK, Sure
    <2>. QED  BY <1>10, <2>2, <2>3 DEF Pack!Request
  <1>11. CASE Pack!Create(i)
    <2>1. /\ pack' = pack /\ engine' = engine /\ temp.there /\ job[i].k \in 1..Files
          /\ \A x \in 1..(job[i].k - 1) : temp.file[x] = "good"
          BY <1>1, <1>11 DEF Pack!Create, Pack!At, Sure
    <2>2. temp' = [temp EXCEPT !.file[job[i].k] = i] /\ Pack!Go(i, "write")
          BY <1>11, <2>1 DEF Pack!Create
    <2>3. /\ temp' \in Dirs /\ temp'.there /\ temp'.file[job[i].k] = i
          /\ \A x \in 1..Files : x # job[i].k => temp'.file[x] = temp.file[x]
          BY <1>1, <2>1, <2>2 DEF Dirs, Words
    <2>4. job' \in [Installers -> Jobs] /\ job'[i].at = "write" /\ job'[i].k = job[i].k
          BY <1>1, <1>3, <2>2, Goes DEF Pack!Holding
    <2>5. \A x \in 1..(job[i].k - 1) : temp'.file[x] = "good"
          BY <1>1, <2>1, <2>3
    <2>6. Sure(i)'
          BY <2>1, <2>3, <2>4, <2>5 DEF Sure
    <2>. QED  BY <1>1, <1>2, <2>1, <2>3, <2>4, <2>6, InstalledKept DEF DirsOK
  <1>12. CASE Pack!Write(i)
    <2>1. engine' = engine
          BY <1>12 DEF Pack!Write
    <2>2. CASE job[i].cancelled
          BY <1>3, <1>5, <1>6, <1>12, <2>1, <2>2 DEF Pack!Write
    <2>3. CASE ~job[i].cancelled
      <3>1. Pack!Advance(i) /\ Pack!Leaves(i, "good") /\ temp' = Pack!Wrote(temp, i, "good")
            BY <1>12, <2>3 DEF Pack!Write, Pack!Leaves
      <3>2. /\ temp.there /\ job[i].k \in 1..Files /\ temp.file[job[i].k] = i
            /\ \A x \in 1..(job[i].k - 1) : temp.file[x] = "good"
            BY <1>1, <1>12 DEF Pack!Write, Pack!At, Sure
      <3>3. /\ temp'.there
            /\ \A x \in 1..Files :
                 temp'.file[x] = IF temp.file[x] = i THEN "good" ELSE temp.file[x]
            BY <1>1, <1>3, <3>1, <3>2, Written
      <3>4. \A x \in 1..job[i].k : temp'.file[x] = "good"
            BY <1>1, <3>2, <3>3
      <3>5. temp' \in Dirs /\ pack' \in Dirs /\ Installed'
            BY <1>3, <1>6, <2>1, <3>1
      <3>6. CASE job[i].k = Files
        <4>1. job' \in [Installers -> Jobs] /\ job'[i].at = "swap"
              BY <1>1, <1>3, <3>1, <3>6, Goes DEF Pack!Advance, Pack!Holding
        <4>. QED  BY <1>2, <3>3, <3>4, <3>5, <3>6, <4>1 DEF DirsOK, Sure
      <3>7. CASE job[i].k # Files
        <4>. DEFINE j == [job[i] EXCEPT !.at = "get", !.k = job[i].k + 1]
        <4>1. j \in Jobs /\ j.at = "get" /\ j.k = job[i].k + 1
          <5>1. job[i].k + 1 \in Nat /\ "get" \in Steps
                BY <1>1 DEF Jobs, Steps, Pack!Holding
          <5>. QED  BY <1>1, <5>1 DEF Jobs
        <4>2. job' = [job EXCEPT ![i] = j]
              BY <3>1, <3>7 DEF Pack!Advance
        <4>. HIDE DEF j
        <4>3. job' \in [Installers -> Jobs] /\ job'[i].at = "get" /\ job'[i].k = job[i].k + 1
              BY <1>1, <4>1, <4>2
        <4>4. job'[i].k \in 1..Files /\ job'[i].k - 1 = job[i].k
              BY <1>1, <3>2, <3>7, <4>3
        <4>5. Sure(i)'
              BY <3>3, <3>4, <4>3, <4>4 DEF Sure
        <4>. QED  BY <1>2, <3>5, <4>3, <4>5 DEF DirsOK
      <3>. QED  BY <3>6, <3>7
    <2>. QED  BY <2>2, <2>3
  <1>13. CASE Pack!Corrupt(i)
        BY <1>3, <1>5, <1>6, <1>13 DEF Pack!Corrupt, Pack!OnCorrupt
  <1>14. CASE Pack!Broken(i)
        BY <1>3, <1>5, <1>6, <1>14 DEF Pack!Broken
  <1>15. CASE Pack!Swap(i)
    <2>1. temp' = temp /\ pack' = Pack!NoDir /\ engine' = engine /\ Pack!Go(i, "rename") /\ job[i].at = "swap"
          BY <1>15 DEF Pack!Swap, Pack!At
    <2>2. job' \in [Installers -> Jobs] /\ job'[i].at = "rename"
          BY <1>1, <1>3, <2>1, Goes DEF Pack!Holding
    <2>. QED  BY <1>1, <1>2, <2>1, <2>2, DirTypes, InstalledKept DEF DirsOK, Sure
  <1>16. CASE Pack!Rename(i)
    <2>1. engine' = engine /\ \A x \in 1..Files : temp.file[x] = "good"
          BY <1>1, <1>16 DEF Pack!Rename, Pack!At, Sure
    <2>2. CASE temp.there /\ ~pack.there
      <3>1. pack' = temp /\ temp' = Pack!NoDir /\ Pack!Answer(i, "ok") /\ "ok" \in Pack!Ended
            BY <1>16, <2>2 DEF Pack!Rename, Pack!Ended
      <3>2. job' \in [Installers -> Jobs] /\ job'[i].at \in Pack!Ended
            BY <1>1, <3>1, Answers
      <3>3. Installed'
            BY <1>1, <2>1, <3>1 DEF Installed, Pack!PackIsVerified, Pack!Verified, Pack!LoadsOnlyVerified, Whole
      <3>. QED  BY <1>1, <1>2, <3>1, <3>2, <3>3, DirTypes, Unsure DEF DirsOK
    <2>3. CASE ~(temp.there /\ ~pack.there)
      <3>1. Pack!Go(i, "undo") /\ temp' = temp /\ pack' = pack
            BY <1>16, <2>3 DEF Pack!Rename
      <3>. QED  BY <1>1, <1>5, <2>1, <3>1, InstalledKept
    <2>. QED  BY <2>2, <2>3
  <1>17. CASE Pack!Undo(i)
        BY <1>4, <1>17 DEF Pack!Undo, Pack!Ended
  <1>. QED  BY <1>7, <1>8, <1>9, <1>10, <1>11, <1>12, <1>13, <1>14, <1>15, <1>16, <1>17

(* What windows and the world do.                                           *)
LEMMA SafeWorld ==
    ASSUME Pack!PackAssumption, Sound,
           Pack!Cancel \/ Pack!Remove \/ Pack!Load \/ Pack!Read \/ Pack!Crash \/ UNCHANGED Pack!vars
    PROVE  Sound'
  <1>1. /\ DirsOK /\ Installed /\ Files \in Nat \ {0} /\ Installers \cap Whole = {}
        /\ temp \in Dirs /\ pack \in Dirs /\ job \in [Installers -> Jobs]
        BY DEF Sound, DirsOK, Pack!PackAssumption, Whole
  <1>2. ASSUME temp' = temp, job' \in [Installers -> Jobs],
               \A i \in Installers : job'[i].at = job[i].at /\ job'[i].k = job[i].k
        PROVE  \A i \in Installers : Sure(i)'
        BY <1>2 DEF Sound, Sure
  <1>3. CASE Pack!Cancel
    <2>1. job' = [job EXCEPT ![flag].cancelled = TRUE]
          BY <1>3 DEF Pack!Cancel
    <2>2. /\ job' \in [Installers -> Jobs]
          /\ \A i \in Installers : job'[i].at = job[i].at /\ job'[i].k = job[i].k
          BY <1>1, <2>1 DEF Jobs
    <2>. QED  BY <1>1, <1>2, <1>3, <2>2, InstalledKept DEF Pack!Cancel, Sound, DirsOK
  <1>4. CASE Pack!Remove
        BY <1>1, <1>2, <1>4, DirTypes, InstalledKept DEF Pack!Remove, Sound, DirsOK
  <1>5. CASE Pack!Load
    <2>1. Installed'
          BY <1>1, <1>5 DEF Pack!Load, Installed, Pack!PackIsVerified, Pack!Verified, Pack!LoadsOnlyVerified
    <2>. QED  BY <1>1, <1>2, <1>5, <2>1 DEF Pack!Load, Sound, DirsOK
  <1>6. CASE Pack!Read
    <2>1. pack.file[engine.k] \in Whole /\ engine.k \in 1..Files
          BY <1>1 DEF Installed
    <2>2. engine'.got \subseteq {"good"} /\ engine'.k \in 1..Files
          BY <1>1, <1>6, <2>1 DEF Pack!Read, Installed, Pack!LoadsOnlyVerified, Whole
    <2>3. Installed'
          BY <1>1, <1>6, <2>2 DEF Pack!Read, Installed, Pack!PackIsVerified, Pack!Verified, Pack!LoadsOnlyVerified
    <2>. QED  BY <1>1, <1>2, <1>6, <2>3 DEF Pack!Read, Sound, DirsOK
  <1>7. CASE Pack!Crash
    <2>1. ASSUME NEW dir \in Dirs
          PROVE  /\ Pack!Torn(dir) \in Dirs /\ Pack!Torn(dir).there = dir.there
                 /\ \A x \in 1..Files : dir.file[x] \in Whole => Pack!Torn(dir).file[x] = dir.file[x]
      <3>. DEFINE f == [k \in 1..Files |-> IF dir.file[k] \in Installers THEN "torn"
                                           ELSE dir.file[k]]
      <3>1. f \in [1..Files -> Words]
            BY DEF Dirs, Words
      <3>2. \A x \in 1..Files : dir.file[x] \in Whole => f[x] = dir.file[x]
            BY <1>1
      <3>3. Pack!Torn(dir) = [dir EXCEPT !.file = f]
            BY DEF Pack!Torn
      <3>. HIDE DEF f
      <3>. QED  BY <3>1, <3>2, <3>3 DEF Dirs
    <2>2. /\ temp' \in Dirs /\ pack' \in Dirs /\ pack'.there = pack.there
          /\ \A x \in 1..Files : pack'.file[x] = pack.file[x]
          BY <1>1, <1>7, <2>1 DEF Pack!Crash, Installed
    <2>3. Installed'
          BY <1>1, <1>7, <2>2 DEF Pack!Crash, Installed, Pack!PackIsVerified, Pack!Verified, Pack!LoadsOnlyVerified
    <2>4. job' = [i \in Installers |-> Pack!Idle]
          BY <1>7 DEF Pack!Crash
    <2>5. job' \in [Installers -> Jobs] /\ \A i \in Installers : job'[i].at \in Pack!Ended
          BY <2>4, IdleJob DEF Pack!Idle, Pack!Ended
    <2>. QED  BY <2>2, <2>3, <2>5, Unsure DEF Sound, DirsOK
  <1>8. CASE UNCHANGED Pack!vars
        BY <1>1, <1>2, <1>8, InstalledKept DEF Pack!vars, Sound, DirsOK
  <1>. QED  BY <1>3, <1>4, <1>5, <1>6, <1>7, <1>8

(* An installed pack is verified and the translator loads whole files only, *)
(* whatever breaks, is cancelled, removed or ends, while one window installs *)
(* it (install_model, translation_model_files); and no partial download is  *)
(* left, however many do.                                                   *)
THEOREM PacksAreSafe ==
    ASSUME Pack!PackAssumption PROVE Pack!Spec => []Pack!PackSafe
  <1>1. ASSUME Pack!OneAtATime PROVE Pack!Spec => [](Pack!PackIsVerified /\ Pack!LoadsOnlyVerified)
    <2>1. Pack!Init => Sound
      <3>. SUFFICES ASSUME Pack!Init PROVE Sound
           OBVIOUS
      <3>1. DirsOK
            BY DirTypes, IdleJob DEF Pack!Init, DirsOK
      <3>2. Installed
            BY DirTypes DEF Pack!Init, Installed, Pack!PackIsVerified, Pack!LoadsOnlyVerified, Whole,
                            Pack!PackAssumption
      <3>3. ASSUME NEW i \in Installers PROVE Sure(i)
            BY DEF Pack!Init, Pack!Idle, Sure
      <3>. QED  BY <3>1, <3>2, <3>3 DEF Sound
    <2>2. Sound /\ [Pack!Next]_(Pack!vars) => Sound'
          BY <1>1, SafeInstaller, SafeWorld DEF Pack!Next
    <2>3. Sound => Pack!PackIsVerified /\ Pack!LoadsOnlyVerified
          BY DEF Sound, Installed
    <2>. QED  BY <2>1, <2>2, <2>3, PTL DEF Pack!Spec
  <1>2. CASE Pack!OneAtATime
    <2>1. Pack!PackIsVerified /\ Pack!LoadsOnlyVerified /\ Pack!NothingPartialLeft => Pack!PackSafe
          BY DEF Pack!PackSafe
    <2>. QED  BY <1>1, <1>2, <2>1, PartialsCleaned, PTL
  <1>3. CASE ~Pack!OneAtATime
    <2>1. Pack!NothingPartialLeft => Pack!PackSafe
          BY <1>3 DEF Pack!PackSafe
    <2>. QED  BY <2>1, PartialsCleaned, PTL
  <1>. QED  BY <1>2, <1>3

-----------------------------------------------------------------------------
(* UidFetch: the commands to send, cut and joined *)

(* What the commands of a queue still ask for.                              *)
Waiting(q) == UNION {Range(q[k]) : k \in DOMAIN q}

(* Newest first, in a command and from one to the next.                     *)
NewestFirst(q) ==
    /\ \A k \in DOMAIN q : Uid!Descending(q[k])
    /\ \A k, l \in DOMAIN q : k < l => \A x \in Range(q[k]), y \in Range(q[l]) : x > y

Commands == Seq(Seq(Uid!Items))

LEMMA ItemsAre ==
    ASSUME Uid!UidFetchAssumption
    PROVE  \A x \in Uid!Items : x \in Nat
  BY DEF Uid!UidFetchAssumption, Uid!Items

(* A sequence is its items, by index.                                       *)
LEMMA RangeIs ==
    ASSUME NEW S, NEW s \in Seq(S)
    PROVE  /\ Range(s) \subseteq S /\ Len(s) \in Nat /\ DOMAIN s = 1..Len(s)
           /\ \A i \in 1..Len(s) : s[i] \in Range(s)
           /\ \A x \in Range(s) : \E i \in 1..Len(s) : s[i] = x
  <1>1. Len(s) \in Nat /\ s \in [1..Len(s) -> S] /\ DOMAIN s = 1..Len(s)
        BY LenProperties
  <1>. QED  BY <1>1 DEF Range

LEMMA WaitingIs ==
    ASSUME NEW q \in Commands
    PROVE  /\ Waiting(q) \subseteq Uid!Items
           /\ \A k \in 1..Len(q) : q[k] \in Seq(Uid!Items) /\ Range(q[k]) \subseteq Waiting(q)
           /\ \A x \in Waiting(q) : \E k \in 1..Len(q) : x \in Range(q[k])
  <1>1. Len(q) \in Nat /\ DOMAIN q = 1..Len(q) /\ \A k \in 1..Len(q) : q[k] \in Seq(Uid!Items)
        BY RangeIs, ElementOfSeq DEF Commands
  <1>2. \A k \in 1..Len(q) : Range(q[k]) \subseteq Uid!Items
        BY <1>1, RangeIs
  <1>. QED  BY <1>1, <1>2 DEF Waiting

(* The items of a command follow those that have come.                      *)
LEMMA Joined ==
    ASSUME Uid!UidFetchAssumption, NEW s \in Seq(Uid!Items), NEW t \in Seq(Uid!Items),
           Uid!Descending(s), Uid!Descending(t), \A x \in Range(s), y \in Range(t) : x > y
    PROVE  /\ s \o t \in Seq(Uid!Items) /\ Uid!Descending(s \o t)
           /\ Range(s \o t) = Range(s) \cup Range(t)
  <1>. DEFINE u == s \o t
              m == Len(s)
              n == Len(t)
  <1>1. /\ u \in Seq(Uid!Items) /\ Len(u) = m + n
        /\ \A i \in 1..(m + n) : u[i] = IF i <= m THEN s[i] ELSE t[i - m]
        BY ConcatProperties
  <1>2. /\ m \in Nat /\ DOMAIN s = 1..m /\ \A i \in 1..m : s[i] \in Range(s)
        /\ \A x \in Range(s) : \E i \in 1..m : s[i] = x
        BY RangeIs
  <1>3. /\ n \in Nat /\ DOMAIN t = 1..n /\ \A i \in 1..n : t[i] \in Range(t)
        /\ \A x \in Range(t) : \E i \in 1..n : t[i] = x
        BY RangeIs
  <1>4. /\ DOMAIN u = 1..(m + n) /\ \A i \in 1..(m + n) : u[i] \in Range(u)
        /\ \A x \in Range(u) : \E i \in 1..(m + n) : u[i] = x
        BY <1>1, RangeIs
  <1>. HIDE DEF u, m, n
  <1>5. \A i \in 1..m : i \in 1..(m + n) /\ u[i] = s[i]
        BY <1>1, <1>2, <1>3
  <1>6. \A i \in 1..n : m + i \in 1..(m + n) /\ u[m + i] = t[i]
        BY <1>1, <1>2, <1>3
  <1>7. \A i \in 1..(m + n) : i \in 1..m \/ (i - m \in 1..n /\ u[i] = t[i - m])
        BY <1>1, <1>2, <1>3
  <1>8. Range(u) = Range(s) \cup Range(t)
    <2>1. ASSUME NEW x \in Range(u) PROVE x \in Range(s) \cup Range(t)
      <3>1. PICK i \in 1..(m + n) : u[i] = x
            BY <2>1, <1>4
      <3>. QED  BY <3>1, <1>2, <1>3, <1>5, <1>7
    <2>2. ASSUME NEW x \in Range(s) PROVE x \in Range(u)
          BY <2>2, <1>2, <1>4, <1>5
    <2>3. ASSUME NEW x \in Range(t) PROVE x \in Range(u)
          BY <2>3, <1>3, <1>4, <1>6
    <2>. QED  BY <2>1, <2>2, <2>3
  <1>9. ASSUME NEW i \in 1..(m + n), NEW j \in 1..(m + n), i < j PROVE u[i] > u[j]
    <2>1. CASE j \in 1..m
      <3>1. i \in 1..m
            BY <1>2, <1>3, <1>9, <2>1
      <3>2. s[i] > s[j]
            BY <1>2, <1>9, <2>1, <3>1 DEF Uid!Descending
      <3>. QED  BY <3>1, <3>2, <2>1, <1>5
    <2>2. CASE i \in 1..m /\ j \notin 1..m
      <3>1. j - m \in 1..n /\ u[j] = t[j - m]
            BY <2>2, <1>6, <1>7
      <3>. QED  BY <3>1, <2>2, <1>2, <1>3, <1>5
    <2>3. CASE i \notin 1..m
      <3>1. i - m \in 1..n /\ j - m \in 1..n /\ i - m < j - m
            BY <1>2, <1>3, <1>9, <2>3
      <3>2. t[i - m] > t[j - m]
            BY <3>1, <1>3 DEF Uid!Descending
      <3>3. u[i] = t[i - m] /\ u[j] = t[j - m]
            BY <3>1, <1>2, <1>3, <1>1, <2>3, <1>9
      <3>. QED  BY <3>2, <3>3
    <2>. QED  BY <2>1, <2>2, <2>3
  <1>10. Uid!Descending(u)
        BY <1>4, <1>9 DEF Uid!Descending
  <1>. QED  BY <1>1, <1>8, <1>10 DEF u

(* A stretch of a command, and what it holds.                               *)
LEMMA Stretch ==
    ASSUME NEW s \in Seq(Uid!Items), Uid!Descending(s), NEW a \in Nat, NEW b \in Nat,
           a >= 1, b <= Len(s)
    PROVE  /\ SubSeq(s, a, b) \in Seq(Uid!Items) /\ Uid!Descending(SubSeq(s, a, b))
           /\ \A x \in Range(SubSeq(s, a, b)) : \E i \in a..b : s[i] = x
           /\ \A i \in a..b : s[i] \in Range(SubSeq(s, a, b))
  <1>. DEFINE u == SubSeq(s, a, b)
              n == Len(s)
  <1>1. n \in Nat /\ DOMAIN s = 1..n /\ \A i \in 1..n : s[i] \in Uid!Items
        BY RangeIs, ElementOfSeq
  <1>2. a..b \subseteq 1..n
        BY <1>1
  <1>3. \A i \in a..b : s[i] \in Uid!Items
        BY <1>1, <1>2
  <1>4. /\ u \in Seq(Uid!Items) /\ Len(u) = IF a <= b THEN b - a + 1 ELSE 0
        /\ \A i \in 1..(b - a + 1) : u[i] = s[a + i - 1]
        BY <1>3, SubSeqProperties, a \in Int, b \in Int
  <1>5. /\ Len(u) \in Nat /\ DOMAIN u = 1..Len(u) /\ \A i \in 1..Len(u) : u[i] \in Range(u)
        /\ \A x \in Range(u) : \E i \in 1..Len(u) : u[i] = x
        BY <1>4, RangeIs
  <1>. HIDE DEF u, n
  <1>6. \A i \in 1..Len(u) : a + i - 1 \in a..b /\ u[i] = s[a + i - 1]
        BY <1>4, <1>5
  <1>7. \A i \in a..b : i - a + 1 \in 1..Len(u) /\ u[i - a + 1] = s[i]
        BY <1>4, <1>5
  <1>8. \A i, j \in 1..Len(u) : i < j => u[i] > u[j]
    <2>1. \A i, j \in a..b : i < j => s[i] > s[j]
          BY <1>1, <1>2 DEF Uid!Descending
    <2>2. \A i, j \in 1..Len(u) : i < j => a + i - 1 < a + j - 1
          BY <1>5
    <2>3. ASSUME NEW i \in 1..Len(u), NEW j \in 1..Len(u), i < j PROVE u[i] > u[j]
      <3>1. s[a + i - 1] > s[a + j - 1]
            BY <2>1, <2>2, <2>3, <1>6
      <3>. QED  BY <3>1, <1>6
    <2>. QED  BY <2>3
  <1>9. Uid!Descending(u)
        BY <1>5, <1>8 DEF Uid!Descending
  <1>10. \A x \in Range(u) : \E i \in a..b : s[i] = x
        BY <1>5, <1>6
  <1>11. \A i \in a..b : s[i] \in Range(u)
        BY <1>5, <1>7
  <1>. QED  BY <1>4, <1>9, <1>10, <1>11 DEF u

(* Two halves: together what was asked, the newer one all before the older. *)
LEMMA Cut ==
    ASSUME NEW s \in Seq(Uid!Items), Uid!Descending(s), NEW h \in Nat, h <= Len(s)
    PROVE  LET a == SubSeq(s, 1, h)
               b == SubSeq(s, h + 1, Len(s))
           IN /\ a \in Seq(Uid!Items) /\ Uid!Descending(a)
              /\ b \in Seq(Uid!Items) /\ Uid!Descending(b)
              /\ Range(a) \cup Range(b) = Range(s)
              /\ \A x \in Range(a), y \in Range(b) : x > y
  <1>. DEFINE a == SubSeq(s, 1, h)
              b == SubSeq(s, h + 1, Len(s))
              n == Len(s)
  <1>1. /\ n \in Nat /\ DOMAIN s = 1..n /\ \A i \in 1..n : s[i] \in Range(s)
        /\ \A x \in Range(s) : \E i \in 1..n : s[i] = x
        BY RangeIs
  <1>2. /\ a \in Seq(Uid!Items) /\ Uid!Descending(a)
        /\ \A x \in Range(a) : \E i \in 1..h : s[i] = x
        /\ \A i \in 1..h : s[i] \in Range(a)
        BY Stretch
  <1>3. /\ b \in Seq(Uid!Items) /\ Uid!Descending(b)
        /\ \A x \in Range(b) : \E i \in (h + 1)..n : s[i] = x
        /\ \A i \in (h + 1)..n : s[i] \in Range(b)
    <2>1. h + 1 \in Nat /\ h + 1 >= 1 /\ n \in Nat /\ n <= Len(s)
          BY <1>1
    <2>. QED  BY <2>1, Stretch
  <1>. HIDE DEF a, b, n
  <1>4. h <= n
        BY DEF n
  <1>5. 1..n = 1..h \cup (h + 1)..n
        BY <1>1, <1>4
  <1>6. Range(a) \cup Range(b) = Range(s)
        BY <1>1, <1>2, <1>3, <1>5
  <1>7. ASSUME NEW i \in 1..h, NEW j \in (h + 1)..n
        PROVE  s[i] > s[j]
    <2>1. i \in DOMAIN s /\ j \in DOMAIN s
          BY <1>1, <1>5
    <2>2. i < j
          BY <1>1
    <2>. QED  BY <2>1, <2>2 DEF Uid!Descending
  <1>8. \A x \in Range(a), y \in Range(b) : x > y
        BY <1>2, <1>3, <1>7
  <1>. QED  BY <1>2, <1>3, <1>6, <1>8 DEF a, b, n

(* The first command goes.                                                  *)
LEMMA FirstGoes ==
    ASSUME NEW q \in Commands, q # <<>>, NewestFirst(q)
    PROVE  /\ Head(q) \in Seq(Uid!Items) /\ Tail(q) \in Commands
           /\ Uid!Descending(Head(q)) /\ NewestFirst(Tail(q))
           /\ Waiting(q) = Range(Head(q)) \cup Waiting(Tail(q))
           /\ \A x \in Range(Head(q)), y \in Waiting(Tail(q)) : x > y
  <1>. DEFINE r == Tail(q)
              n == Len(q)
  <1>1. /\ Head(q) \in Seq(Uid!Items) /\ r \in Commands /\ Len(r) = n - 1
        /\ \A i \in 1..Len(r) : r[i] = q[i + 1]
        BY HeadTailProperties DEF Commands
  <1>2. n \in Nat /\ n # 0 /\ DOMAIN q = 1..n /\ DOMAIN r = 1..(n - 1)
        BY <1>1, RangeIs, EmptySeq DEF Commands
  <1>3. Head(q) = q[1]
        OBVIOUS
  <1>. HIDE DEF r, n
  <1>4. \A i \in 1..(n - 1) : i + 1 \in 1..n /\ r[i] = q[i + 1] /\ 1 < i + 1
        BY <1>1, <1>2
  <1>5. \A k \in 1..n : k = 1 \/ (k - 1 \in 1..(n - 1) /\ q[k] = r[k - 1])
        BY <1>2, <1>4
  <1>6. 1 \in 1..n
        BY <1>2
  <1>7. Uid!Descending(Head(q))
        BY <1>2, <1>3, <1>6 DEF NewestFirst
  <1>8. NewestFirst(r)
    <2>1. \A k \in DOMAIN r : Uid!Descending(r[k])
          BY <1>2, <1>4 DEF NewestFirst
    <2>2. ASSUME NEW k \in DOMAIN r, NEW l \in DOMAIN r, k < l,
                 NEW x \in Range(r[k]), NEW y \in Range(r[l])
          PROVE  x > y
      <3>1. k + 1 < l + 1 /\ k + 1 \in DOMAIN q /\ l + 1 \in DOMAIN q
            BY <1>2, <1>4, <2>2
      <3>. QED  BY <3>1, <1>2, <1>4, <2>2 DEF NewestFirst
    <2>. QED  BY <2>1, <2>2 DEF NewestFirst
  <1>9. Waiting(q) = Range(Head(q)) \cup Waiting(r)
    <2>1. Range(q[1]) \subseteq Waiting(q) /\ \A k \in 1..(n - 1) : Range(r[k]) \subseteq Waiting(q)
          BY <1>2, <1>4, <1>6 DEF Waiting
    <2>2. \A k \in 1..n : Range(q[k]) \subseteq Range(q[1]) \cup Waiting(r)
          BY <1>2, <1>5 DEF Waiting
    <2>. QED  BY <1>2, <1>3, <2>1, <2>2 DEF Waiting
  <1>10. ASSUME NEW x \in Range(Head(q)), NEW y \in Waiting(r) PROVE x > y
    <2>1. PICK k \in 1..(n - 1) : y \in Range(r[k])
          BY <1>2, <1>10 DEF Waiting
    <2>2. k + 1 \in DOMAIN q /\ 1 \in DOMAIN q /\ 1 < k + 1 /\ y \in Range(q[k + 1])
          BY <2>1, <1>2, <1>4, <1>6
    <2>. QED  BY <2>2, <1>3, <1>10 DEF NewestFirst
  <1>. QED  BY <1>1, <1>7, <1>8, <1>9, <1>10 DEF r

(* Two commands take its place.                                             *)
LEMMA TwoBefore ==
    ASSUME NEW a \in Seq(Uid!Items), NEW b \in Seq(Uid!Items), NEW q \in Commands,
           Uid!Descending(a), Uid!Descending(b), NewestFirst(q),
           \A x \in Range(a), y \in Range(b) : x > y,
           \A x \in Range(a) \cup Range(b), y \in Waiting(q) : x > y
    PROVE  /\ <<a, b>> \o q \in Commands /\ NewestFirst(<<a, b>> \o q)
           /\ Waiting(<<a, b>> \o q) = Range(a) \cup Range(b) \cup Waiting(q)
  <1>. DEFINE two == <<a, b>>
              r == two \o q
              n == Len(q)
  <1>1. two \in Seq(Seq(Uid!Items)) /\ Len(two) = 2 /\ two[1] = a /\ two[2] = b
        OBVIOUS
  <1>2. /\ r \in Seq(Seq(Uid!Items)) /\ Len(r) = Len(two) + n
        /\ \A i \in 1..(Len(two) + n) : r[i] = IF i <= Len(two) THEN two[i] ELSE q[i - Len(two)]
        BY <1>1, ConcatProperties DEF Commands
  <1>3. n \in Nat /\ DOMAIN q = 1..n
        BY RangeIs DEF Commands
  <1>4. DOMAIN r = 1..(2 + n) /\ r \in Commands
        BY <1>1, <1>2, RangeIs DEF Commands
  <1>. HIDE DEF r, two, n
  <1>5. /\ 1 \in DOMAIN r /\ 2 \in DOMAIN r /\ r[1] = a /\ r[2] = b
        /\ \A k \in 1..n : k + 2 \in DOMAIN r /\ r[k + 2] = q[k]
    <2>1. \A i \in 1..(2 + n) : r[i] = IF i <= 2 THEN two[i] ELSE q[i - 2]
          BY <1>1, <1>2
    <2>2. 1 \in 1..(2 + n) /\ 2 \in 1..(2 + n)
          BY <1>3
    <2>3. \A k \in 1..n : k + 2 \in 1..(2 + n) /\ r[k + 2] = q[k]
          BY <1>3, <2>1
    <2>. QED  BY <1>1, <1>4, <2>1, <2>2, <2>3
  <1>6. \A k \in DOMAIN r : k = 1 \/ k = 2 \/ (k - 2 \in 1..n /\ k > 2 /\ r[k] = q[k - 2])
    <2>1. \A k \in 1..(2 + n) : k = 1 \/ k = 2 \/ (k - 2 \in 1..n /\ k > 2)
          BY <1>3
    <2>2. \A i \in 1..(2 + n) : i > 2 => r[i] = q[i - 2]
          BY <1>1, <1>2, <1>3
    <2>. QED  BY <1>4, <2>1, <2>2
  <1>7. Waiting(r) = Range(a) \cup Range(b) \cup Waiting(q)
    <2>1. \A k \in 1..n : Range(q[k]) \subseteq Waiting(r)
          BY <1>5 DEF Waiting
    <2>2. Range(a) \subseteq Waiting(r) /\ Range(b) \subseteq Waiting(r)
          BY <1>5 DEF Waiting
    <2>3. \A k \in DOMAIN r : Range(r[k]) \subseteq Range(a) \cup Range(b) \cup Waiting(q)
          BY <1>3, <1>5, <1>6 DEF Waiting
    <2>4. Waiting(q) \subseteq Waiting(r)
          BY <1>3, <2>1 DEF Waiting
    <2>5. Waiting(r) \subseteq Range(a) \cup Range(b) \cup Waiting(q)
          BY <2>3 DEF Waiting
    <2>. QED  BY <2>2, <2>4, <2>5
  <1>8. \A k \in DOMAIN r : Uid!Descending(r[k])
        BY <1>3, <1>5, <1>6 DEF NewestFirst
  <1>9. ASSUME NEW k \in DOMAIN r, NEW l \in DOMAIN r, k < l, NEW x \in Range(r[k]), NEW y \in Range(r[l])
        PROVE  x > y
    <2>1. k \in Nat /\ l \in Nat
          BY <1>3, <1>4
    <2>2. CASE l = 2 \/ l = 1
          BY <2>1, <2>2, <1>5, <1>6, <1>9
    <2>3. CASE l # 1 /\ l # 2
      <3>1. l - 2 \in 1..n /\ r[l] = q[l - 2]
            BY <2>3, <1>6
      <3>2. y \in Waiting(q)
            BY <3>1, <1>3, <1>9 DEF Waiting
      <3>3. CASE k = 1 \/ k = 2
            BY <3>2, <3>3, <1>5, <1>9
      <3>4. CASE k # 1 /\ k # 2
        <4>1. k - 2 \in 1..n /\ r[k] = q[k - 2] /\ k - 2 < l - 2
              BY <3>4, <2>1, <1>6, <1>9
        <4>. QED  BY <4>1, <3>1, <1>3, <1>9 DEF NewestFirst
      <3>. QED  BY <3>3, <3>4
    <2>. QED  BY <2>2, <2>3
  <1>10. NewestFirst(r)
        BY <1>8, <1>9 DEF NewestFirst
  <1>. QED  BY <1>4, <1>7, <1>10 DEF r, two

(* uid_fetch_command_batches leaves nothing out.                            *)
LEMMA BatchOf ==
    ASSUME Uid!UidFetchAssumption, NEW n \in Nat, NEW i \in 1..n
    PROVE  \E k \in 1..((n + MaxBatch - 1) \div MaxBatch) :
              (k - 1) * MaxBatch + 1 <= i /\ i <= k * MaxBatch
  <1>. DEFINE B == MaxBatch
              T == {k \in Nat : i <= k * B}
              d == (n + B - 1) \div B
  <1>1. B \in Nat /\ B # 0 /\ i \in Nat /\ i >= 1 /\ i <= n
        BY DEF Uid!UidFetchAssumption
  <1>2. d \in Nat /\ \A k \in Nat : k > d => k * B > n + B - 1
    <2>1. d \in Nat /\ n + B - 1 < (d + 1) * B
          BY <1>1
    <2>. HIDE DEF d, B
    <2>2. ASSUME NEW k \in Nat, k > d
          PROVE  k * B > n + B - 1
      <3>1. PICK j \in Nat : k = d + 1 + j
        <4>1. k - d - 1 \in Nat /\ k = d + 1 + (k - d - 1)
              BY <2>1, <2>2
        <4>. QED  BY <4>1
      <3>2. k * B = (d + 1) * B + j * B
            BY <1>1, <2>1, <3>1
      <3>3. j * B \in Nat /\ (d + 1) * B \in Nat /\ n + B - 1 \in Nat
            BY <1>1, <2>1, <3>1
      <3>. QED  BY <2>1, <3>2, <3>3
    <2>. QED  BY <2>1, <2>2
  <1>. HIDE DEF B, d
  <1>3. i \in T
        BY <1>1
  <1>4. PICK k \in T : \A m \in T : k <= m
        BY <1>3, LeastNat
  <1>5. k \in Nat /\ i <= k * B /\ k # 0
        BY <1>1, <1>4
  <1>6. k - 1 \in Nat /\ k - 1 \notin T
        BY <1>4, <1>5
  <1>7. (k - 1) * B < i /\ (k - 1) * B \in Nat /\ k * B = (k - 1) * B + B
        BY <1>1, <1>6
  <1>8. k <= d
        BY <1>1, <1>2, <1>5, <1>7
  <1>. QED  BY <1>1, <1>2, <1>5, <1>7, <1>8 DEF B, d

(* The batches of a list: newest first, and together the list.              *)
LEMMA BatchesKeep ==
    ASSUME Uid!UidFetchAssumption, NEW s \in Seq(Uid!Items), Uid!Descending(s)
    PROVE  /\ Uid!Batches(s) \in Commands /\ NewestFirst(Uid!Batches(s))
           /\ Waiting(Uid!Batches(s)) = Range(s)
  <1>. DEFINE n == Len(s)
              d == (n + MaxBatch - 1) \div MaxBatch
              from(k) == (k - 1) * MaxBatch + 1
              upto(k) == IF k * MaxBatch < n THEN k * MaxBatch ELSE n
              b == Uid!Batches(s)
  <1>1. /\ n \in Nat /\ DOMAIN s = 1..n /\ \A i \in 1..n : s[i] \in Range(s)
        /\ \A x \in Range(s) : \E i \in 1..n : s[i] = x
        BY RangeIs
  <1>2. MaxBatch \in Nat /\ MaxBatch # 0
        BY DEF Uid!UidFetchAssumption
  <1>3. d \in Nat
        BY <1>1, <1>2
  <1>4. b = [k \in 1..d |-> SubSeq(s, from(k), upto(k))]
        BY DEF Uid!Batches
  <1>5. \A i \in 1..n : \E k \in 1..d : from(k) <= i /\ i <= k * MaxBatch
        BY <1>1, BatchOf
  <1>6. ASSUME NEW k \in 1..d PROVE from(k) \in Nat /\ from(k) >= 1 /\ upto(k) \in Nat /\ upto(k) <= n
    <2>1. k - 1 \in Nat /\ (k - 1) * MaxBatch \in Nat /\ k * MaxBatch \in Nat
          BY <1>2, <1>3
    <2>. QED  BY <1>1, <2>1
  <1>7. \A i \in 1..n : \E k \in 1..d : i \in from(k)..upto(k)
    <2>1. ASSUME NEW i \in 1..n, NEW k \in 1..d, from(k) <= i, i <= k * MaxBatch
          PROVE  i \in from(k)..upto(k)
      <3>1. k * MaxBatch \in Nat
            BY <1>2, <1>3
      <3>. QED  BY <1>1, <1>6, <2>1, <3>1
    <2>. QED  BY <1>5, <2>1
  <1>8. ASSUME NEW k \in 1..d, NEW l \in 1..d, k < l, NEW i \in from(k)..upto(k), NEW j \in from(l)..upto(l)
        PROVE  i < j
    <2>1. PICK e \in Nat : l - 1 = k + e
      <3>1. l - 1 - k \in Nat /\ l - 1 = k + (l - 1 - k)
            BY <1>3, <1>8
      <3>. QED  BY <3>1
    <2>2. (l - 1) * MaxBatch = k * MaxBatch + e * MaxBatch /\ e * MaxBatch \in Nat /\ k * MaxBatch \in Nat
      <3>1. k \in Nat
            BY <1>3
      <3>2. (k + e) * MaxBatch = k * MaxBatch + e * MaxBatch /\ e * MaxBatch \in Nat /\ k * MaxBatch \in Nat
            BY <1>2, <3>1
      <3>. QED  BY Zenon, <2>1, <3>2
    <2>3. upto(k) <= k * MaxBatch /\ k * MaxBatch < from(l) /\ upto(k) \in Nat /\ from(l) \in Nat
      <3>1. upto(k) \in Nat /\ from(l) \in Nat
            BY <1>6
      <3>2. upto(k) <= k * MaxBatch
            BY <1>1, <2>2
      <3>3. k * MaxBatch < from(l)
            BY <2>2
      <3>. QED  BY <3>1, <3>2, <3>3
    <2>4. upto(k) < from(l)
          BY <2>2, <2>3
    <2>5. i \in Int /\ j \in Int /\ i <= upto(k) /\ from(l) <= j
          BY <1>6
    <2>. QED  BY <2>3, <2>4, <2>5
  <1>. HIDE DEF d, from, upto, n, b
  <1>8a. \A f, u \in Nat : f >= 1 /\ u <= n =>
            /\ SubSeq(s, f, u) \in Seq(Uid!Items) /\ Uid!Descending(SubSeq(s, f, u))
            /\ \A x \in Range(SubSeq(s, f, u)) : \E i \in f..u : s[i] = x
            /\ \A i \in f..u : s[i] \in Range(SubSeq(s, f, u))
        BY Stretch DEF n
  <1>9. ASSUME NEW k \in 1..d
        PROVE  /\ b[k] \in Seq(Uid!Items) /\ Uid!Descending(b[k])
               /\ \A x \in Range(b[k]) : \E i \in from(k)..upto(k) : s[i] = x
               /\ \A i \in from(k)..upto(k) : s[i] \in Range(b[k])
    <2>1. b[k] = SubSeq(s, from(k), upto(k))
          BY <1>4
    <2>2. from(k) \in Nat /\ from(k) >= 1 /\ upto(k) \in Nat /\ upto(k) <= n
          BY <1>6
    <2>3. PICK f \in Nat, u \in Nat : f = from(k) /\ u = upto(k)
          BY <2>2
    <2>4. /\ SubSeq(s, f, u) \in Seq(Uid!Items) /\ Uid!Descending(SubSeq(s, f, u))
          /\ \A x \in Range(SubSeq(s, f, u)) : \E i \in f..u : s[i] = x
          /\ \A i \in f..u : s[i] \in Range(SubSeq(s, f, u))
      <3>1. f >= 1 /\ u <= n
            BY <2>2, <2>3
      <3>. QED  BY <3>1, <1>8a, Zenon
    <2>5. b[k] = SubSeq(s, f, u) /\ from(k)..upto(k) = f..u
          BY <2>1, <2>3
    <2>. QED  BY <2>4, <2>5, Zenon
  <1>10. \A k \in 1..d : from(k)..upto(k) \subseteq 1..n
        BY <1>1, <1>6
  <1>11. b \in Commands /\ DOMAIN b = 1..d
    <2>1. b \in [1..d -> Seq(Uid!Items)]
          BY <1>4, <1>9
    <2>. QED  BY <1>3, <2>1, SeqDef DEF Commands
  <1>12. Waiting(b) = Range(s)
    <2>1. ASSUME NEW k \in 1..d, NEW x \in Range(b[k]) PROVE x \in Range(s)
      <3>1. PICK i \in from(k)..upto(k) : s[i] = x
            BY <1>9, <2>1
      <3>. QED  BY <1>1, <1>10, <3>1
    <2>2. ASSUME NEW x \in Range(s) PROVE x \in Waiting(b)
      <3>1. PICK i \in 1..n : s[i] = x
            BY <1>1, <2>2
      <3>2. PICK k \in 1..d : i \in from(k)..upto(k)
            BY <1>7
      <3>. QED  BY <1>9, <1>11, <3>1, <3>2 DEF Waiting
    <2>. QED  BY <1>11, <2>1, <2>2 DEF Waiting
  <1>13. ASSUME NEW k \in 1..d, NEW l \in 1..d, k < l, NEW x \in Range(b[k]), NEW y \in Range(b[l])
         PROVE  x > y
    <2>1. PICK i \in from(k)..upto(k) : s[i] = x
          BY <1>9, <1>13
    <2>2. PICK j \in from(l)..upto(l) : s[j] = y
          BY <1>9, <1>13
    <2>3. i < j /\ i \in DOMAIN s /\ j \in DOMAIN s
          BY <1>1, <1>8, <1>10, <1>13
    <2>. QED  BY <2>1, <2>2, <2>3 DEF Uid!Descending
  <1>14. NewestFirst(b)
        BY <1>9, <1>11, <1>13 DEF NewestFirst
  <1>. QED  BY <1>11, <1>12, <1>14 DEF b

-----------------------------------------------------------------------------
(* UidFetch: each item once *)

(* What has come, and what has failed, was asked and is nobody's but one's. *)
Outcomes ==
    /\ got \in Seq(Uid!Items) /\ Uid!Descending(got) /\ Range(got) \subseteq Range(asked)
    /\ failed \cap Range(got) = {} /\ failed \subseteq Range(asked)
    /\ outcome \in {"no", "done"} => failed \subseteq cursed /\ Range(got) \cap cursed = {}
    /\ outcome = "done" => Range(asked) = Range(got) \cup failed

(* While the fetch goes on, the rest is in the commands to come, which are  *)
(* older than all that has an outcome.                                      *)
Remaining ==
    outcome = "no" =>
       /\ pending \in Commands /\ NewestFirst(pending)
       /\ Range(asked) = Range(got) \cup failed \cup Waiting(pending)
       /\ \A x \in Range(got) \cup failed, y \in Waiting(pending) : x > y

Fetched == limit \in 1..MaxItems /\ Outcomes /\ Remaining

LEMMA FetchStarts ==
    ASSUME Uid!UidFetchAssumption, Uid!Init PROVE Fetched
  <1>1. asked \in Seq(Uid!Items) /\ Uid!Descending(asked)
    <2>1. CASE kind = "uids"
      <3>1. asked \in Uid!UidLists
            BY <2>1 DEF Uid!Init
      <3>2. PICK n \in 0..MaxItems : asked \in [1..n -> Uid!Items]
            BY <3>1 DEF Uid!UidLists
      <3>3. n \in Nat
            BY DEF Uid!UidFetchAssumption
      <3>. QED  BY <3>1, <3>2, <3>3, SeqDef DEF Uid!UidLists
    <2>2. CASE kind # "uids"
      <3>1. PICK n \in Uid!Items : asked = [i \in 1..n |-> n + 1 - i]
            BY <2>2 DEF Uid!Init, Uid!Ranges
      <3>2. n \in Nat /\ \A i \in 1..n : n + 1 - i \in Uid!Items
            BY DEF Uid!UidFetchAssumption, Uid!Items
      <3>3. asked \in [1..n -> Uid!Items]
            BY <3>1, <3>2
      <3>4. asked \in Seq(Uid!Items)
            BY <3>2, <3>3, SeqDef
      <3>5. \A i, j \in 1..n : i < j => n + 1 - i > n + 1 - j
            BY <3>2
      <3>. QED  BY <3>1, <3>4, <3>5 DEF Uid!Descending
    <2>. QED  BY <2>1, <2>2
  <1>2. pending \in Commands /\ NewestFirst(pending) /\ Waiting(pending) = Range(asked)
    <2>1. CASE kind = "uids"
          BY <1>1, <2>1, BatchesKeep DEF Uid!Init
    <2>2. CASE kind # "uids"
      <3>1. pending = <<asked>>
            BY <2>2 DEF Uid!Init
      <3>2. pending \in Commands /\ DOMAIN pending = {1} /\ pending[1] = asked
            BY <1>1, <3>1 DEF Commands
      <3>. QED  BY <1>1, <3>2 DEF NewestFirst, Waiting
    <2>. QED  BY <2>1, <2>2
  <1>3. got = <<>> /\ failed = {} /\ outcome = "no" /\ Range(got) = {} /\ DOMAIN got = {}
        BY DEF Uid!Init, Range
  <1>4. got \in Seq(Uid!Items) /\ Uid!Descending(got)
        BY <1>3 DEF Uid!Descending
  <1>. QED  BY <1>2, <1>3, <1>4 DEF Fetched, Outcomes, Remaining, Uid!Init

LEMMA AcceptedKeeps ==
    ASSUME Uid!UidFetchAssumption, Fetched, Uid!Accepted PROVE Fetched'
  <1>. DEFINE c == Head(pending)
              r == Tail(pending)
  <1>1. /\ c \in Seq(Uid!Items) /\ r \in Commands /\ Uid!Descending(c) /\ NewestFirst(r)
        /\ Waiting(pending) = Range(c) \cup Waiting(r)
        /\ \A x \in Range(c), y \in Waiting(r) : x > y
        BY FirstGoes DEF Fetched, Remaining, Uid!Accepted, Uid!Sent
  <1>2. /\ outcome = "no" /\ outcome' = "no" /\ got' = got \o c /\ pending' = r
        /\ UNCHANGED <<asked, limit, cursed, failed>> /\ Range(c) \cap cursed = {}
        BY DEF Uid!Accepted, Uid!Sent, Uid!Rejects, Uid!Command, Range, Uid!Range
  <1>3. /\ got \o c \in Seq(Uid!Items) /\ Uid!Descending(got \o c)
        /\ Range(got \o c) = Range(got) \cup Range(c)
    <2>1. \A x \in Range(got), y \in Range(c) : x > y
          BY <1>1, <1>2 DEF Fetched, Remaining
    <2>. QED  BY <1>1, <2>1, Joined DEF Fetched, Outcomes
  <1>. HIDE DEF c, r
  <1>4. failed \cap Range(c) = {}
    <2>1. \A x \in failed, y \in Range(c) : x > y
          BY <1>1, <1>2 DEF Fetched, Remaining
    <2>2. \A x \in Range(c) : x \in Nat
          BY <1>1, ItemsAre, RangeIs
    <2>. QED  BY <2>1, <2>2
  <1>5. Outcomes'
        BY <1>1, <1>2, <1>3, <1>4 DEF Fetched, Outcomes, Remaining
  <1>6. Remaining'
        BY <1>1, <1>2, <1>3 DEF Fetched, Remaining
  <1>. QED  BY <1>2, <1>5, <1>6 DEF Fetched

LEMMA SplitKeeps ==
    ASSUME Uid!UidFetchAssumption, Fetched, Uid!Split PROVE Fetched'
  <1>. DEFINE c == Head(pending)
              r == Tail(pending)
              h == IF kind = "uids" THEN (Len(c) + 1) \div 2 ELSE Len(c) \div 2
              a == SubSeq(c, 1, h)
              b == SubSeq(c, h + 1, Len(c))
  <1>1. /\ c \in Seq(Uid!Items) /\ r \in Commands /\ Uid!Descending(c) /\ NewestFirst(r)
        /\ Waiting(pending) = Range(c) \cup Waiting(r)
        /\ \A x \in Range(c), y \in Waiting(r) : x > y
        BY FirstGoes DEF Fetched, Remaining, Uid!Split, Uid!Sent
  <1>2. /\ outcome = "no" /\ outcome' = "no" /\ pending' = <<a, b>> \o r /\ Len(c) > 1
        /\ UNCHANGED <<asked, limit, cursed, failed, got>>
        BY DEF Uid!Split, Uid!Sent, Uid!Halves, Uid!Command
  <1>3. h \in Nat /\ h <= Len(c)
    <2>1. Len(c) \in Nat
          BY <1>1, RangeIs
    <2>. HIDE DEF c
    <2>. QED  BY <1>2, <2>1
  <1>4. /\ a \in Seq(Uid!Items) /\ Uid!Descending(a) /\ b \in Seq(Uid!Items) /\ Uid!Descending(b)
        /\ Range(a) \cup Range(b) = Range(c) /\ \A x \in Range(a), y \in Range(b) : x > y
    <2>. HIDE DEF c, h
    <2>. QED  BY <1>1, <1>3, Cut
  <1>. HIDE DEF c, r, h, a, b
  <1>5. /\ pending' \in Commands /\ NewestFirst(pending') /\ Waiting(pending') = Waiting(pending)
    <2>1. /\ <<a, b>> \o r \in Commands /\ NewestFirst(<<a, b>> \o r)
          /\ Waiting(<<a, b>> \o r) = Range(a) \cup Range(b) \cup Waiting(r)
      <3>1. /\ a \in Seq(Uid!Items) /\ b \in Seq(Uid!Items) /\ r \in Commands
            /\ Uid!Descending(a) /\ Uid!Descending(b) /\ NewestFirst(r)
            /\ \A x \in Range(a), y \in Range(b) : x > y
            BY <1>1, <1>4
      <3>2. \A x \in Range(a) \cup Range(b), y \in Waiting(r) : x > y
            BY <1>1, <1>4
      <3>. QED  BY ONLY <3>1, <3>2, TwoBefore
    <2>2. Range(a) \cup Range(b) \cup Waiting(r) = Waiting(pending)
          BY <1>1, <1>4
    <2>3. pending' = <<a, b>> \o r
          BY <1>2
    <2>. QED  BY <2>1, <2>2, <2>3
  <1>. QED  BY <1>2, <1>5 DEF Fetched, Outcomes, Remaining

LEMMA RejectedKeeps ==
    ASSUME Uid!UidFetchAssumption, Fetched, Uid!RejectedAlone \/ Uid!Broken PROVE Fetched'
  <1>. DEFINE c == Head(pending)
              r == Tail(pending)
  <1>1. /\ outcome = "no" /\ pending # <<>> /\ UNCHANGED <<asked, limit, cursed, got>>
        BY DEF Uid!RejectedAlone, Uid!Broken, Uid!Sent
  <1>2. /\ c \in Seq(Uid!Items) /\ r \in Commands /\ Uid!Descending(c) /\ NewestFirst(r)
        /\ Waiting(pending) = Range(c) \cup Waiting(r)
        /\ \A x \in Range(c), y \in Waiting(r) : x > y
        BY <1>1, FirstGoes DEF Fetched, Remaining
  <1>. HIDE DEF c, r
  <1>3. Range(got) \cap Range(c) = {} /\ Range(c) \subseteq Range(asked)
    <2>1. \A x \in Range(got), y \in Range(c) : x > y
          BY <1>1, <1>2 DEF Fetched, Remaining
    <2>2. \A x \in Range(c) : x \in Nat
          BY <1>2, ItemsAre, RangeIs
    <2>. QED  BY <1>1, <1>2, <2>1, <2>2 DEF Fetched, Remaining
  <1>4. CASE outcome' \in {"error", "fatal"} /\ failed' \in {failed, failed \cup Range(c)}
        BY <1>1, <1>3, <1>4 DEF Fetched, Outcomes, Remaining
  <1>5. ASSUME outcome' = "no", failed' = failed \cup Range(c), pending' = r, Range(c) \subseteq cursed
        PROVE  Fetched'
    <2>1. Outcomes'
          BY <1>1, <1>3, <1>5 DEF Fetched, Outcomes, Remaining
    <2>2. Remaining'
          BY <1>1, <1>2, <1>5 DEF Fetched, Remaining
    <2>. QED  BY <1>1, <2>1, <2>2 DEF Fetched
  <1>6. CASE Uid!Broken
        BY <1>4, <1>6 DEF Uid!Broken, Uid!Command, c, Range, Uid!Range
  <1>7. CASE Uid!RejectedAlone
    <2>1. CASE kind = "uids"
      <3>1. outcome' = "no" /\ failed' = failed \cup Range(c) /\ pending' = r
            BY <1>1, <1>7, <2>1 DEF Uid!RejectedAlone, Uid!Command, c, r, Range, Uid!Range
      <3>2. Len(c) = 1 /\ (Len(c) > limit \/ Range(c) \cap cursed # {}) /\ ~(1 > limit)
            BY <1>7 DEF Uid!RejectedAlone, Uid!Rejects, Uid!Command, c, Range, Uid!Range, Fetched
      <3>3. Range(c) \subseteq {c[1]}
            BY <1>2, <3>2, RangeIs
      <3>. QED  BY <1>5, <3>1, <3>2, <3>3
    <2>2. CASE kind # "uids"
          BY <1>4, <1>7, <2>2 DEF Uid!RejectedAlone
    <2>. QED  BY <2>1, <2>2
  <1>. QED  BY <1>6, <1>7

LEMMA FinishKeeps ==
    ASSUME Fetched, Uid!Finish PROVE Fetched'
  <1>1. Waiting(pending) = {}
        BY DEF Uid!Finish, Waiting
  <1>. QED  BY <1>1 DEF Uid!Finish, Fetched, Outcomes, Remaining

(* fetch_uid_data_batched and fetch_mailbox_snapshot_range: however a list  *)
(* of UIDs, or a range, is cut into commands and those that the provider    *)
(* rejects into halves, every item that was asked comes once, newest first, *)
(* or fails alone, and only what the provider cannot serve fails.           *)
THEOREM EveryItemOnce ==
    ASSUME Uid!UidFetchAssumption PROVE Uid!Spec => []Uid!EachOnce
  <1>1. ASSUME Fetched, [Uid!Next]_(Uid!vars) PROVE Fetched'
    <2>1. CASE Uid!Next
          BY <1>1, <2>1, AcceptedKeeps, SplitKeeps, RejectedKeeps, FinishKeeps DEF Uid!Next
    <2>2. CASE UNCHANGED Uid!vars
          BY <1>1, <2>2 DEF Uid!vars, Fetched, Outcomes, Remaining
    <2>. QED  BY <1>1, <2>1, <2>2
  <1>2. Fetched => Uid!EachOnce
        BY DEF Fetched, Outcomes, Uid!EachOnce, Range, Uid!Range
  <1>. QED  BY <1>1, <1>2, FetchStarts, PTL DEF Uid!Spec
=============================================================================
