-------------------------- MODULE TreeMarksProofs --------------------------
(***************************************************************************)
(* The daemon keeps its types and keeps up with the tree, for every set of *)
(* names, every limit of depth, batch, cache and queue, and any number of  *)
(* changes.                                                                *)
(***************************************************************************)
EXTENDS TreeMarks, SequenceTheorems, FiniteSetTheorems, WellFoundedInduction, TLAPS

-----------------------------------------------------------------------------
(* The inductive invariant.                                                *)

(* The file system is a tree, and no directory has two places. *)
TreeType ==
    /\ next \in Nat /\ IsFiniteSet(DOMAIN at) /\ DOMAIN at \subseteq Path
    /\ Root \in DOMAIN at
    /\ \A p \in DOMAIN at : p # Root => Front(p) \in DOMAIN at
    /\ \A p \in DOMAIN at : at[p] \in Nat /\ at[p] < next
    /\ \A p, q \in DOMAIN at : at[p] = at[q] => p = q

NumberType ==
    /\ marked \subseteq 0..next /\ DOMAIN cache \subseteq 0..next
    /\ pending \subseteq 0..next /\ lost \subseteq 0..next

CacheType ==
    /\ IsFiniteSet(DOMAIN cache) /\ Cardinality(DOMAIN cache) <= Capacity
    /\ \A d \in DOMAIN cache : cache[d] \in Seq(Name)

Event == [dir : Dir, src : Record, dst : Record, rename : BOOLEAN]
QueueType ==
    /\ fanq \in Seq(Event) /\ Len(fanq) <= QueueMax /\ chan \in Seq(Seq(Name))
    /\ watches \in Seq(Path \X Dir) /\ inoq \in Seq(Dir \X Name)

(* The batch is not full when the walk goes on, and what is left to do has *)
(* a depth that is no larger than its distance from the root.              *)
WalkType ==
    /\ pc \in {"off", "idle", "cache", "pop", "full", "list", "watch"}
    /\ job \in {"boot", "add", "new"} /\ top \in Seq(Name)
    /\ todo \in Seq(Seq(Name) \X Nat) /\ level \in Nat
    /\ \A i \in DOMAIN todo : todo[i][2] <= Len(todo[i][1])
    /\ IsFiniteSet(pending) /\ Cardinality(pending) <= Batch
    /\ pc \in {"pop", "list"} => Cardinality(pending) < Batch
    /\ pc \in {"off", "idle", "watch"} => todo = <<>> /\ pending = {}
    /\ pc \in {"full", "list"} => todo # <<>>
    /\ pc = "cache" => todo = <<<<top, 0>>>> /\ pending = {}

FlagType == shared \in BOOLEAN /\ reading \in BOOLEAN /\ ops \in 0..MaxOps

TInv == TreeType /\ NumberType /\ CacheType /\ QueueType /\ WalkType /\ FlagType

(* The directory at p or one above it was lost sight of. *)
Lost(p) == \E q \in DOMAIN at : IsPrefix(q, p) /\ at[q] \in lost

(* The directory at p is in the cache at its place, and marked or in the   *)
(* batch to be marked.                                                     *)
Placed(p) ==
    at[p] \in marked \cup pending /\ at[p] \in DOMAIN cache /\ cache[at[p]] = p

(* An event is queued that says where the directory at q is now, or that   *)
(* will be dropped.                                                        *)
ToldBy(e, q) ==
    /\ e.dir = at[q]
    /\ NewPlace(e) \in {Nil, <<at[Front(q)], Last(q)>>}
Told(q) == \E i \in DOMAIN fanq : ToldBy(fanq[i], q)

(* The walk has opened the head of todo and not listed it yet. *)
Opened == pc \in {"full", "list"}

(* An entry of todo covers what is below its path; the path itself too,    *)
(* unless it is the top of the walk and its directory has no mark.         *)
CoveredBy(i, p) ==
    /\ i \in DOMAIN todo /\ IsPrefix(todo[i][1], p)
    /\ \/ todo[i][1] # p
       \/ ~(Opened /\ i = 1) /\ (todo[i][2] > 0 \/ at[p] \in marked)

(* Something is under way that will reach the directory at p.              *)
Covered(p) ==
    \/ pc = "off"
    \/ \E i \in DOMAIN chan : IsPrefix(chan[i], p)
    \/ \E q \in DOMAIN at : q # Root /\ IsPrefix(q, p) /\ Told(q)
    \/ \E i \in DOMAIN todo : CoveredBy(i, p)

Followed(p) == Len(p) > Limit \/ Lost(p) \/ Placed(p) \/ Covered(p)
FollowInv   == \A p \in DOMAIN at : Followed(p)

JInv == TInv /\ FollowInv

-----------------------------------------------------------------------------
(* Numbers, paths and enumerations.                                        *)

LEMMA LeastNumber ==
    ASSUME NEW T \in SUBSET Nat, T # {}
    PROVE  \E x \in T : \A y \in T : x <= y
<1> DEFINE R == OpToRel(<, Nat)
<1>1. IsWellFoundedOn(R, Nat)
  BY NatLessThanWellFounded
<1>2. \A x, y \in Nat : <<y, x>> \in R <=> y < x
  BY DEF OpToRel
<1> HIDE DEF R
<1>3. PICK x \in T : \A y \in T : ~(<<y, x>> \in R)
  BY <1>1, WFMin
<1>4. \A y \in T : ~(y < x)
  BY <1>2, <1>3
<1>5. \A y \in T : x <= y
  BY <1>4
<1> QED
  BY <1>5

LEMMA PathIs == ASSUME MaxDepth \in Nat PROVE Path = {p \in Seq(Name) : Len(p) <= MaxDepth}
<1>1. ASSUME NEW p \in Path PROVE p \in Seq(Name) /\ Len(p) <= MaxDepth
  <2>1. PICK n \in 0..MaxDepth : p \in [1..n -> Name]
    BY DEF Path
  <2>2. p \in Seq(Name) /\ DOMAIN p = 1..n /\ n \in Nat
    BY <2>1, SeqDef
  <2>3. Len(p) = n
    BY <2>2
  <2> QED
    BY <2>1, <2>2, <2>3
<1>2. ASSUME NEW p \in Seq(Name), Len(p) <= MaxDepth PROVE p \in Path
  <2>1. Len(p) \in 0..MaxDepth /\ p \in [1..Len(p) -> Name]
    BY <1>2
  <2> QED
    BY <2>1 DEF Path
<1> QED
  BY <1>1, <1>2

LEMMA PrefixIs ==
    ASSUME NEW S, NEW p \in Seq(S), NEW q \in Seq(S)
    PROVE  IsPrefix(p, q) <=> Len(p) <= Len(q) /\ \A i \in 1..Len(p) : p[i] = q[i]
<1>1. CASE Len(p) <= Len(q)
  <2>1. SubSeq(p, 1, Len(p)) = p
    BY SubSeqProperties
  <2>2. /\ SubSeq(q, 1, Len(p)) \in Seq(S) /\ Len(SubSeq(q, 1, Len(p))) = Len(p)
        /\ \A i \in 1..Len(p) : SubSeq(q, 1, Len(p))[i] = q[i]
    BY <1>1
  <2>3. p = SubSeq(q, 1, Len(p)) <=> \A i \in 1..Len(p) : p[i] = q[i]
    BY <2>2, SeqEqual
  <2> QED
    BY <1>1, <2>1, <2>3 DEF IsPrefix
<1>2. CASE ~(Len(p) <= Len(q))
  BY <1>2 DEF IsPrefix
<1> QED
  BY <1>1, <1>2

LEMMA PrefixOrder ==
    ASSUME NEW S
    PROVE  /\ \A p \in Seq(S) : IsPrefix(p, p) /\ IsPrefix(<<>>, p)
           /\ \A p, q, r \in Seq(S) : IsPrefix(p, q) /\ IsPrefix(q, r) => IsPrefix(p, r)
           /\ \A p, q \in Seq(S) : IsPrefix(p, q) /\ Len(q) <= Len(p) => p = q
<1>1. ASSUME NEW p \in Seq(S) PROVE IsPrefix(p, p) /\ IsPrefix(<<>>, p)
  <2>1. <<>> \in Seq(S) /\ Len(<<>>) = 0 /\ Len(p) \in Nat
    OBVIOUS
  <2>2. IsPrefix(p, p)
    BY <2>1, PrefixIs
  <2>3. Len(<<>>) <= Len(p) /\ \A i \in 1..Len(<<>>) : <<>>[i] = p[i]
    BY <2>1
  <2>4. IsPrefix(<<>>, p)
    BY <2>1, <2>3, PrefixIs
  <2> QED
    BY <2>2, <2>4
<1>2. ASSUME NEW p \in Seq(S), NEW q \in Seq(S), NEW r \in Seq(S), IsPrefix(p, q), IsPrefix(q, r)
      PROVE  IsPrefix(p, r)
  <2>1. /\ Len(p) <= Len(q) /\ \A i \in 1..Len(p) : p[i] = q[i]
        /\ Len(q) <= Len(r) /\ \A i \in 1..Len(q) : q[i] = r[i]
    BY <1>2, PrefixIs
  <2>2. Len(p) <= Len(r) /\ \A i \in 1..Len(p) : p[i] = r[i]
    BY <2>1
  <2> QED
    BY <2>2, PrefixIs
<1>3. ASSUME NEW p \in Seq(S), NEW q \in Seq(S), IsPrefix(p, q), Len(q) <= Len(p)
      PROVE  p = q
  <2>1. Len(p) = Len(q) /\ \A i \in 1..Len(p) : p[i] = q[i]
    BY <1>3, PrefixIs
  <2> QED
    BY <2>1, SeqEqual
<1> QED
  BY <1>1, <1>2, <1>3

LEMMA FrontLast ==
    ASSUME NEW S, NEW p \in Seq(S), p # <<>>
    PROVE  /\ Front(p) \in Seq(S) /\ Len(Front(p)) = Len(p) - 1 /\ Len(p) \in Nat \ {0}
           /\ \A i \in 1..Len(p) - 1 : Front(p)[i] = p[i]
           /\ Last(p) \in S /\ Last(p) = p[Len(p)]
<1>1. Len(p) \in Nat \ {0} /\ \A i \in 1..Len(p) : p[i] \in S
  OBVIOUS
<1>2. /\ SubSeq(p, 1, Len(p) - 1) \in Seq(S) /\ Len(SubSeq(p, 1, Len(p) - 1)) = Len(p) - 1
      /\ \A i \in 1..Len(p) - 1 : SubSeq(p, 1, Len(p) - 1)[i] = p[i]
  <2> DEFINE n == Len(p) - 1
  <2>1. n \in Nat /\ \A i \in 1..n : p[i] \in S
    BY <1>1
  <2> HIDE DEF n
  <2>2. /\ SubSeq(p, 1, n) \in Seq(S) /\ Len(SubSeq(p, 1, n)) = (IF 1 <= n THEN n - 1 + 1 ELSE 0)
        /\ \A i \in 1..(n - 1 + 1) : SubSeq(p, 1, n)[i] = p[1 + i - 1]
    BY <2>1, SubSeqProperties
  <2>3. n - 1 + 1 = n /\ (~(1 <= n) => n = 0) /\ \A i \in 1..n : 1 + i - 1 = i
    BY <2>1
  <2>4. Len(SubSeq(p, 1, n)) = n
    BY <2>2, <2>3
  <2>5. \A i \in 1..n : SubSeq(p, 1, n)[i] = p[i]
    BY <2>2, <2>3
  <2> QED
    BY <2>2, <2>4, <2>5 DEF n
<1> QED
  BY <1>1, <1>2 DEF Front, Last

LEMMA FrontAppend ==
    ASSUME NEW S, NEW p \in Seq(S), p # <<>>, NEW f \in Seq(S), f = Front(p)
    PROVE  Append(f, Last(p)) = p
<1>1. /\ Len(f) = Len(p) - 1 /\ Len(p) \in Nat \ {0} /\ \A i \in 1..Len(p) - 1 : f[i] = p[i]
      /\ Last(p) \in S /\ Last(p) = p[Len(p)]
  BY FrontLast
<1>2. /\ Append(f, Last(p)) \in Seq(S) /\ Len(Append(f, Last(p))) = Len(p)
      /\ \A i \in 1..Len(p) : Append(f, Last(p))[i] = p[i]
  BY <1>1
<1> QED
  BY <1>2, SeqEqual

(* What is above a path is the path or above its parent. *)
LEMMA PrefixStep ==
    ASSUME NEW S, NEW p \in Seq(S), p # <<>>
    PROVE  /\ IsPrefix(Front(p), p) /\ ~IsPrefix(p, Front(p))
           /\ \A q \in Seq(S) : IsPrefix(q, p) <=> q = p \/ IsPrefix(q, Front(p))
<1> DEFINE f == Front(p)
<1>1. /\ f \in Seq(S) /\ Len(f) = Len(p) - 1 /\ Len(p) \in Nat \ {0}
      /\ \A i \in 1..Len(p) - 1 : f[i] = p[i]
  BY FrontLast
<1> HIDE DEF f
<1>2. IsPrefix(f, p) /\ ~IsPrefix(p, f)
  BY <1>1, PrefixIs
<1>3. ASSUME NEW q \in Seq(S), IsPrefix(q, p), q # p PROVE IsPrefix(q, f)
  <2>1. Len(q) <= Len(p) /\ \A i \in 1..Len(q) : q[i] = p[i]
    BY <1>3, PrefixIs
  <2>2. Len(q) # Len(p)
    BY <1>3, <2>1, SeqEqual
  <2>3. Len(q) <= Len(f) /\ \A i \in 1..Len(q) : q[i] = f[i]
    BY <1>1, <2>1, <2>2
  <2> QED
    BY <1>1, <2>3, PrefixIs
<1>4. \A q \in Seq(S) : q = p \/ IsPrefix(q, f) => IsPrefix(q, p)
  BY <1>1, <1>2, PrefixOrder
<1> QED
  BY <1>2, <1>3, <1>4 DEF f

(* What is strictly below a path is below one of its children. *)
LEMMA ChildAbove ==
    ASSUME NEW S, NEW p \in Seq(S), NEW q \in Seq(S), IsPrefix(p, q), p # q
    PROVE  \E c \in Seq(S) : c # <<>> /\ Front(c) = p /\ IsPrefix(c, q)
<1>1. /\ Len(p) \in Nat /\ Len(q) \in Nat /\ Len(p) <= Len(q)
      /\ \A i \in 1..Len(p) : p[i] = q[i]
  BY PrefixIs
<1>2. Len(p) < Len(q)
  BY <1>1, SeqEqual
<1> DEFINE c == SubSeq(q, 1, Len(p) + 1)
<1>3. c \in Seq(S) /\ Len(c) = Len(p) + 1 /\ \A i \in 1..Len(p) + 1 : c[i] = q[i]
  BY <1>1, <1>2
<1> HIDE DEF c
<1>4. c # <<>>
  BY <1>1, <1>3
<1>5. IsPrefix(c, q)
  BY <1>1, <1>2, <1>3, PrefixIs
<1>6. /\ Front(c) \in Seq(S) /\ Len(Front(c)) = Len(p)
      /\ \A i \in 1..Len(p) : Front(c)[i] = p[i]
  <2> DEFINE f == Front(c)
             n == Len(p)
  <2>1. /\ f \in Seq(S) /\ Len(f) = Len(c) - 1 /\ \A i \in 1..Len(c) - 1 : f[i] = c[i]
    BY <1>3, <1>4, FrontLast
  <2>2. n \in Nat /\ Len(c) = n + 1 /\ Len(c) - 1 = n
    BY <1>1, <1>3
  <2>3. \A i \in 1..n : c[i] = p[i]
    BY <1>1, <1>3
  <2> HIDE DEF f, n
  <2>4. f \in Seq(S) /\ Len(f) = n /\ \A i \in 1..n : f[i] = p[i]
    BY <2>1, <2>2, <2>3
  <2> QED
    BY <2>4 DEF f, n
<1>7. Front(c) = p
  BY <1>6, SeqEqual
<1> QED
  BY <1>3, <1>4, <1>5, <1>7

(* A tree that is called another name keeps its shape. *)
MovedIs(t, r, p, q) ==
    /\ Len(t) = Len(q) + Len(r) - Len(p)
    /\ \A i \in 1..Len(q) : t[i] = q[i]
    /\ \A i \in 1..Len(r) - Len(p) : t[Len(q) + i] = r[Len(p) + i]

LEMMA MovedFacts ==
    ASSUME NEW S, NEW p \in Seq(S), NEW q \in Seq(S), NEW r \in Seq(S), IsPrefix(p, r)
    PROVE  /\ Moved(r, p, q) \in Seq(S)
           /\ MovedIs(Moved(r, p, q), r, p, q)
           /\ IsPrefix(q, Moved(r, p, q))
<1> DEFINE m == Len(p) + 1
           n == Len(r)
           u == SubSeq(r, m, n)
<1>1. Len(p) \in Nat /\ Len(q) \in Nat /\ Len(r) \in Nat /\ Len(p) <= Len(r)
  BY PrefixIs
<1>2. m \in Nat \ {0} /\ n \in Nat /\ \A i \in m..n : r[i] \in S
  BY <1>1
<1>3. /\ u \in Seq(S) /\ Len(u) = (IF m <= n THEN n - m + 1 ELSE 0)
      /\ \A i \in 1..n - m + 1 : u[i] = r[m + i - 1]
  <2> HIDE DEF m, n
  <2> QED
    BY <1>2, SubSeqProperties
<1>4. n - m + 1 = Len(r) - Len(p) /\ (~(m <= n) => Len(r) - Len(p) = 0)
      /\ \A i \in Nat : m + i - 1 = Len(p) + i
  BY <1>1
<1>5. Len(u) = Len(r) - Len(p)
  <2> HIDE DEF m, n, u
  <2> QED
    BY <1>3, <1>4
<1>6. ASSUME NEW i \in 1..Len(r) - Len(p) PROVE u[i] = r[Len(p) + i]
  <2>1. i \in Nat /\ i \in 1..n - m + 1 /\ m + i - 1 = Len(p) + i
    BY <1>1
  <2>2. u[i] = r[m + i - 1]
    BY <1>3, <2>1
  <2> QED
    BY <2>1, <2>2
<1> HIDE DEF u
<1>7. /\ q \o u \in Seq(S) /\ Len(q \o u) = Len(q) + Len(u)
      /\ \A i \in 1..Len(q) + Len(u) : (q \o u)[i] = IF i <= Len(q) THEN q[i] ELSE u[i - Len(q)]
  BY <1>3, ConcatProperties
<1>8. \A i \in 1..Len(q) : (q \o u)[i] = q[i]
  BY <1>1, <1>5, <1>7
<1>9. ASSUME NEW i \in 1..Len(r) - Len(p) PROVE (q \o u)[Len(q) + i] = r[Len(p) + i]
  <2>1. Len(q) + i \in 1..Len(q) + Len(u) /\ ~(Len(q) + i <= Len(q)) /\ Len(q) + i - Len(q) = i
    BY <1>1, <1>5
  <2>2. (q \o u)[Len(q) + i] = u[i]
    BY <1>7, <2>1
  <2> QED
    BY <1>6, <2>2
<1>10. Len(q) <= Len(q \o u)
  BY <1>1, <1>5, <1>7
<1>11. IsPrefix(q, q \o u)
  BY <1>7, <1>8, <1>10, PrefixIs
<1>12. Moved(r, p, q) = q \o u
  BY DEF Moved, u, m, n
<1>13. Len(q \o u) = Len(q) + Len(r) - Len(p)
  BY <1>1, <1>5, <1>7
<1>14. MovedIs(q \o u, r, p, q)
  BY <1>8, <1>9, <1>13 DEF MovedIs
<1> QED
  BY <1>7, <1>11, <1>12, <1>14

LEMMA MovedBack ==
    ASSUME NEW S, NEW p \in Seq(S), NEW q \in Seq(S), NEW r \in Seq(S), IsPrefix(p, r)
    PROVE  Moved(Moved(r, p, q), q, p) = r
<1> DEFINE t == Moved(r, p, q)
           b == Moved(t, q, p)
<1>0. /\ Len(p) \in Nat /\ Len(q) \in Nat /\ Len(r) \in Nat /\ Len(p) <= Len(r)
      /\ \A i \in 1..Len(p) : p[i] = r[i]
  BY PrefixIs
<1>a. t \in Seq(S) /\ MovedIs(t, r, p, q) /\ IsPrefix(q, t)
  BY MovedFacts
<1> HIDE DEF t
<1>b. b \in Seq(S) /\ MovedIs(b, t, q, p)
  BY <1>a, MovedFacts
<1> HIDE DEF b
<1>1. /\ t \in Seq(S) /\ Len(t) = Len(q) + Len(r) - Len(p)
      /\ \A i \in 1..Len(r) - Len(p) : t[Len(q) + i] = r[Len(p) + i]
  BY <1>a DEF MovedIs
<1>2. /\ b \in Seq(S) /\ Len(b) = Len(p) + Len(t) - Len(q)
      /\ \A i \in 1..Len(p) : b[i] = p[i]
      /\ \A i \in 1..Len(t) - Len(q) : b[Len(p) + i] = t[Len(q) + i]
  BY <1>b DEF MovedIs
<1>3. Len(b) = Len(r) /\ Len(t) - Len(q) = Len(r) - Len(p)
  BY <1>0, <1>1, <1>2
<1>4. ASSUME NEW i \in 1..Len(r) PROVE b[i] = r[i]
  <2>1. CASE i <= Len(p)
    BY <1>0, <1>2, <2>1
  <2>2. CASE ~(i <= Len(p))
    <3> DEFINE j == i - Len(p)
    <3>1. j \in 1..Len(r) - Len(p) /\ Len(p) + j = i
      BY <1>0, <2>2
    <3> HIDE DEF j
    <3>2. b[Len(p) + j] = t[Len(q) + j]
      BY <1>2, <1>3, <3>1
    <3>3. t[Len(q) + j] = r[Len(p) + j]
      BY <1>1, <3>1
    <3> QED
      BY <3>1, <3>2, <3>3
  <2> QED
    BY <2>1, <2>2
<1>5. b = r
  BY <1>2, <1>3, <1>4, SeqEqual
<1> QED
  BY <1>5 DEF b, t

LEMMA MovedOrder ==
    ASSUME NEW S, NEW p \in Seq(S), NEW q \in Seq(S), NEW r \in Seq(S), NEW s \in Seq(S),
           IsPrefix(p, r), IsPrefix(r, s)
    PROVE  IsPrefix(Moved(r, p, q), Moved(s, p, q))
<1> DEFINE t == Moved(r, p, q)
           u == Moved(s, p, q)
<1>0. /\ Len(p) \in Nat /\ Len(q) \in Nat /\ Len(r) \in Nat /\ Len(s) \in Nat
      /\ Len(p) <= Len(r) /\ Len(r) <= Len(s) /\ \A i \in 1..Len(r) : r[i] = s[i]
  BY PrefixIs
<1>1. IsPrefix(p, s)
  BY PrefixOrder
<1>a. t \in Seq(S) /\ MovedIs(t, r, p, q)
  BY MovedFacts
<1>b. u \in Seq(S) /\ MovedIs(u, s, p, q)
  BY <1>1, MovedFacts
<1> HIDE DEF t, u
<1>2. /\ t \in Seq(S) /\ Len(t) = Len(q) + Len(r) - Len(p) /\ \A i \in 1..Len(q) : t[i] = q[i]
      /\ \A i \in 1..Len(r) - Len(p) : t[Len(q) + i] = r[Len(p) + i]
  BY <1>a DEF MovedIs
<1>3. /\ u \in Seq(S) /\ Len(u) = Len(q) + Len(s) - Len(p) /\ \A i \in 1..Len(q) : u[i] = q[i]
      /\ \A i \in 1..Len(s) - Len(p) : u[Len(q) + i] = s[Len(p) + i]
  BY <1>b DEF MovedIs
<1>4. ASSUME NEW i \in 1..Len(t) PROVE t[i] = u[i]
  <2>1. CASE i <= Len(q)
    BY <1>0, <1>2, <1>3, <2>1
  <2>2. CASE ~(i <= Len(q))
    <3> DEFINE j == i - Len(q)
    <3>1. /\ j \in 1..Len(r) - Len(p) /\ j \in 1..Len(s) - Len(p) /\ Len(q) + j = i
          /\ Len(p) + j \in 1..Len(r)
      BY <1>0, <1>2, <2>2
    <3> HIDE DEF j
    <3>2. t[Len(q) + j] = r[Len(p) + j] /\ u[Len(q) + j] = s[Len(p) + j]
      BY <1>2, <1>3, <3>1
    <3>3. r[Len(p) + j] = s[Len(p) + j]
      BY <1>0, <3>1
    <3> QED
      BY <3>1, <3>2, <3>3
  <2> QED
    BY <2>1, <2>2
<1>5. Len(t) <= Len(u)
  BY <1>0, <1>2, <1>3
<1>6. IsPrefix(t, u)
  BY <1>2, <1>3, <1>4, <1>5, PrefixIs
<1> QED
  BY <1>6 DEF t, u

LEMMA MovedTop ==
    ASSUME NEW S, NEW p \in Seq(S), NEW q \in Seq(S)
    PROVE  Moved(p, p, q) = q
<1>1. IsPrefix(p, p) /\ Len(p) \in Nat /\ Len(q) \in Nat
  BY PrefixOrder
<1>2. /\ Moved(p, p, q) \in Seq(S) /\ MovedIs(Moved(p, p, q), p, p, q)
      /\ IsPrefix(q, Moved(p, p, q))
  BY <1>1, MovedFacts
<1>3. Len(Moved(p, p, q)) <= Len(q)
  BY <1>1, <1>2 DEF MovedIs
<1> QED
  BY <1>2, <1>3, PrefixOrder

LEMMA MovedStep ==
    ASSUME NEW S, NEW p \in Seq(S), NEW q \in Seq(S), NEW r \in Seq(S), IsPrefix(p, r), r # p
    PROVE  /\ r # <<>> /\ Moved(r, p, q) # <<>> /\ Moved(r, p, q) # q
           /\ Front(r) \in Seq(S) /\ IsPrefix(p, Front(r))
           /\ Front(Moved(r, p, q)) = Moved(Front(r), p, q)
           /\ Last(Moved(r, p, q)) = Last(r)
<1> DEFINE t == Moved(r, p, q)
           f == Front(r)
           g == Front(t)
           u == Moved(f, p, q)
<1>0. /\ Len(p) \in Nat /\ Len(q) \in Nat /\ Len(r) \in Nat /\ Len(p) <= Len(r)
      /\ \A i \in 1..Len(p) : p[i] = r[i]
  BY PrefixIs
<1>1. Len(p) < Len(r)
  BY <1>0, SeqEqual
<1>2. r # <<>>
  BY <1>0, <1>1
<1>a. t \in Seq(S) /\ MovedIs(t, r, p, q)
  BY MovedFacts
<1> HIDE DEF t
<1>3. /\ t \in Seq(S) /\ Len(t) = Len(q) + Len(r) - Len(p) /\ \A i \in 1..Len(q) : t[i] = q[i]
      /\ \A i \in 1..Len(r) - Len(p) : t[Len(q) + i] = r[Len(p) + i]
  BY <1>a DEF MovedIs
<1>4. /\ f \in Seq(S) /\ Len(f) = Len(r) - 1 /\ \A i \in 1..Len(r) - 1 : f[i] = r[i]
      /\ Last(r) = r[Len(r)]
  BY <1>2, FrontLast
<1>5. IsPrefix(p, f)
  BY <1>2, PrefixStep
<1> HIDE DEF f
<1>6. t # <<>> /\ t # q
  BY <1>0, <1>1, <1>3
<1>7. /\ g \in Seq(S) /\ Len(g) = Len(t) - 1 /\ \A i \in 1..Len(t) - 1 : g[i] = t[i]
      /\ Last(t) = t[Len(t)]
  BY <1>3, <1>6, FrontLast
<1>b. u \in Seq(S) /\ MovedIs(u, f, p, q)
  BY <1>4, <1>5, MovedFacts
<1> HIDE DEF g, u
<1>8. /\ u \in Seq(S) /\ Len(u) = Len(q) + Len(f) - Len(p) /\ \A i \in 1..Len(q) : u[i] = q[i]
      /\ \A i \in 1..Len(f) - Len(p) : u[Len(q) + i] = f[Len(p) + i]
  BY <1>b DEF MovedIs
<1>9. Len(u) = Len(g)
  BY <1>0, <1>3, <1>4, <1>7, <1>8
<1>10. ASSUME NEW i \in 1..Len(u) PROVE u[i] = g[i]
  <2>1. i \in 1..Len(t) - 1 /\ i \in Nat
    BY <1>0, <1>7, <1>9
  <2>2. CASE i <= Len(q)
    <3>1. i \in 1..Len(q)
      BY <1>0, <2>1, <2>2
    <3>2. u[i] = q[i] /\ t[i] = q[i] /\ g[i] = t[i]
      BY <1>3, <1>7, <1>8, <2>1, <3>1
    <3> QED
      BY <3>2
  <2>3. CASE ~(i <= Len(q))
    <3> DEFINE j == i - Len(q)
    <3>1. /\ j \in 1..Len(f) - Len(p) /\ j \in 1..Len(r) - Len(p) /\ Len(q) + j = i
          /\ Len(p) + j \in 1..Len(r) - 1
      BY <1>0, <1>4, <1>8, <2>3
    <3> HIDE DEF j
    <3>2. u[Len(q) + j] = f[Len(p) + j] /\ t[Len(q) + j] = r[Len(p) + j]
      BY <1>3, <1>8, <3>1
    <3>3. f[Len(p) + j] = r[Len(p) + j]
      BY <1>4, <3>1
    <3>4. g[i] = t[i]
      BY <1>7, <2>1
    <3> QED
      BY <3>1, <3>2, <3>3, <3>4
  <2> QED
    BY <2>2, <2>3
<1>11. u = g
  BY <1>7, <1>8, <1>9, <1>10, SeqEqual
<1>12. Last(t) = Last(r)
  <2> DEFINE j == Len(r) - Len(p)
  <2>1. j \in 1..Len(r) - Len(p) /\ Len(q) + j = Len(t) /\ Len(p) + j = Len(r)
    BY <1>0, <1>1, <1>3
  <2> HIDE DEF j
  <2> QED
    BY <1>3, <1>4, <1>7, <2>1
<1> QED
  BY <1>2, <1>4, <1>5, <1>6, <1>11, <1>12 DEF t, f, g, u

(* A set of paths with the parent of each holds everything above them. *)
LEMMA Closure ==
    ASSUME NEW S, NEW T, T \subseteq Seq(S), \A p \in T : p # <<>> => Front(p) \in T,
           NEW p \in T, NEW q \in Seq(S), IsPrefix(q, p)
    PROVE  q \in T
<1>1. SUFFICES ASSUME q \notin T PROVE FALSE
  OBVIOUS
<1> DEFINE B == {n \in Nat : \E r \in T : Len(r) = n /\ IsPrefix(q, r)}
<1>2. Len(p) \in B
  OBVIOUS
<1>3. PICK n \in B : \A m \in B : n <= m
  <2>1. B \in SUBSET Nat /\ B # {}
    BY <1>2
  <2> HIDE DEF B
  <2> QED
    BY <2>1, LeastNumber
<1>4. PICK r \in T : Len(r) = n /\ IsPrefix(q, r)
  BY <1>3
<1>5. r \in Seq(S) /\ r # q
  BY <1>1, <1>4
<1>6. r # <<>>
  <2>1. ASSUME r = <<>> PROVE FALSE
    <3>1. IsPrefix(r, q)
      BY <2>1, PrefixOrder
    <3>2. Len(q) <= Len(r) /\ Len(r) <= Len(q) /\ Len(q) \in Nat /\ Len(r) \in Nat
      BY <1>4, <1>5, <3>1, PrefixIs
    <3> QED
      BY <1>4, <1>5, <3>2, PrefixOrder
  <2> QED
    BY <2>1
<1>7. Front(r) \in T /\ IsPrefix(q, Front(r))
  BY <1>4, <1>5, <1>6, PrefixStep
<1>8. Len(Front(r)) = n - 1 /\ Len(Front(r)) \in Nat
  <2>1. Front(r) \in Seq(S) /\ Len(Front(r)) = Len(r) - 1
    BY <1>5, <1>6, FrontLast
  <2> QED
    BY <1>4, <2>1
<1>9. n - 1 \in B
  BY <1>7, <1>8
<1> QED
  BY <1>3, <1>9

(* A list of the members of a finite set. *)
LEMMA Enumeration ==
    ASSUME NEW S, IsFiniteSet(S)
    PROVE  /\ SetToSeq(S) \in Seq(S) /\ Cardinality(S) \in Nat
           /\ DOMAIN SetToSeq(S) = 1..Cardinality(S)
           /\ \A x \in S : \E i \in DOMAIN SetToSeq(S) : SetToSeq(S)[i] = x
<1> DEFINE n == Cardinality(S)
           P(f) == f \in [1..n -> S] /\ IsInjective(f)
           c == SetToSeq(S)
<1>1. n \in Nat /\ ExistsBijection(1..n, S)
  BY FS_CardinalityType
<1>2. \E f : P(f)
  <2>1. PICK f : f \in Bijection(1..n, S)
    BY <1>1 DEF ExistsBijection
  <2>2. f \in [1..n -> S] /\ IsInjective(f)
    BY <2>1 DEF Bijection, Injection
  <2> QED
    BY <2>2
<1>3. P(c)
  <2>1. c = CHOOSE f : P(f)
    BY DEF SetToSeq
  <2> HIDE DEF P, c
  <2> QED
    BY <1>2, <2>1, Zenon
<1> HIDE DEF c
<1>4. c \in Injection(1..n, S)
  BY <1>3 DEF Injection
<1>5. IsFiniteSet(1..n) /\ Cardinality(1..n) = n
  BY <1>1, FS_Interval
<1>6. c \in Surjection(1..n, S)
  BY <1>4, <1>5, FS_Injection
<1>7. \A x \in S : \E i \in 1..n : c[i] = x
  BY <1>6 DEF Surjection
<1>8. c \in Seq(S) /\ DOMAIN c = 1..n
  BY <1>1, <1>3, SeqDef
<1> QED
  BY <1>1, <1>7, <1>8 DEF c

-----------------------------------------------------------------------------
(* The types.                                                              *)

LEMMA Constants ==
    /\ Batch \in Nat \ {0} /\ Capacity \in Nat \ {0} /\ Limit \in Nat /\ QueueMax \in Nat
    /\ MaxDepth \in Nat /\ MaxOps \in Nat /\ Starts \subseteq {"boot", "add"}
  BY TreeMarksAssumption

LEMMA TypesImplied == TInv => TypeOK
  BY DEF TInv, TreeType, NumberType, CacheType, QueueType, WalkType, FlagType, TypeOK, Event

LEMMA TreeFacts ==
    ASSUME TreeType
    PROVE  /\ DOMAIN at \subseteq Seq(Name) /\ \A p \in DOMAIN at : Len(p) <= MaxDepth
           /\ \A p \in DOMAIN at : \A q \in Seq(Name) : IsPrefix(q, p) => q \in DOMAIN at
           /\ \A p \in DOMAIN at : p # Root =>
                 Front(p) \in DOMAIN at /\ Last(p) \in Name /\ Append(Front(p), Last(p)) = p
<1>1. DOMAIN at \subseteq Seq(Name) /\ \A p \in DOMAIN at : Len(p) <= MaxDepth
  BY Constants, PathIs DEF TreeType
<1>2. \A p \in DOMAIN at : p # <<>> => Front(p) \in DOMAIN at
  BY DEF TreeType, Root
<1>3. ASSUME NEW p \in DOMAIN at, NEW q \in Seq(Name), IsPrefix(q, p) PROVE q \in DOMAIN at
  BY <1>1, <1>2, <1>3, Closure
<1>4. ASSUME NEW p \in DOMAIN at, p # Root
      PROVE  Front(p) \in DOMAIN at /\ Last(p) \in Name /\ Append(Front(p), Last(p)) = p
  BY <1>1, <1>2, <1>4, FrontLast, FrontAppend DEF Root
<1> QED
  BY <1>1, <1>3, <1>4

LEMMA RecordOf ==
    ASSUME TInv, NEW q \in Path, q # Root, Front(q) \in DOMAIN at
    PROVE  Rec(q) \in Record /\ at[Front(q)] \in Dir /\ Last(q) \in Name
<1>1. at[Front(q)] \in Nat
  BY DEF TInv, TreeType
<1>2. q \in Seq(Name)
  BY Constants, PathIs
<1>3. Last(q) \in Name
  BY <1>2, FrontLast DEF Root
<1>4. <<at[Front(q)], Last(q)>> \in Dir \X Name
  BY <1>1, <1>3 DEF Dir
<1> QED
  BY <1>1, <1>3, <1>4 DEF Rec, Record, Dir

LEMMA NotifyTypes ==
    ASSUME TInv, NEW e \in Event, NEW q \in Path, q # Root, Front(q) \in DOMAIN at, NEW tree,
           Notify(e, q, tree)
    PROVE  /\ fanq' \in Seq(Event) /\ Len(fanq') <= QueueMax /\ inoq' \in Seq(Dir \X Name)
           /\ lost' \in {lost, lost \cup tree}
<1>1. fanq \in Seq(Event) /\ Len(fanq) \in Nat /\ Len(fanq) <= QueueMax /\ inoq \in Seq(Dir \X Name)
  BY DEF TInv, QueueType
<1>2. at[Front(q)] \in Dir /\ Last(q) \in Name
  BY RecordOf
<1>3. /\ fanq' \in {fanq} \/ (Len(fanq) < QueueMax /\ fanq' = Append(fanq, e))
      /\ inoq' \in {inoq, Append(inoq, <<at[Front(q)], Last(q)>>)}
      /\ lost' \in {lost, lost \cup tree}
  BY Zenon DEF Notify
<1>4. fanq' \in Seq(Event) /\ Len(fanq') <= QueueMax
  <2>1. CASE fanq' = fanq
    BY <1>1, <2>1
  <2>2. CASE Len(fanq) < QueueMax /\ fanq' = Append(fanq, e)
    BY <1>1, <2>2, Constants
  <2> QED
    BY <1>3, <2>1, <2>2
<1>5. Append(inoq, <<at[Front(q)], Last(q)>>) \in Seq(Dir \X Name)
  BY <1>1, <1>2
<1>6. inoq' \in Seq(Dir \X Name)
  BY <1>1, <1>3, <1>5
<1> QED
  BY <1>3, <1>4, <1>6

LEMMA KeepTree == TreeType /\ UNCHANGED <<at, next>> => TreeType'
  BY DEF TreeType

LEMMA KeepNumber == NumberType /\ UNCHANGED <<next, marked, cache, pending, lost>> => NumberType'
  BY DEF NumberType

LEMMA KeepCache == CacheType /\ UNCHANGED cache => CacheType'
  BY DEF CacheType

LEMMA KeepQueue == QueueType /\ UNCHANGED <<fanq, chan, watches, inoq>> => QueueType'
  BY DEF QueueType

LEMMA KeepWalk == WalkType /\ UNCHANGED <<pc, walk>> => WalkType'
  BY DEF WalkType, walk

LEMMA KeepFlag == FlagType /\ UNCHANGED <<shared, reading, ops>> => FlagType'
  BY DEF FlagType

LEMMA MkDirTypes == ASSUME TInv, NEW q \in Path, MkDir(q) PROVE TInv'
<1> DEFINE e == [dir |-> next, src |-> Rec(q), dst |-> Nil, rename |-> FALSE]
<1>1. /\ q # Root /\ q \notin DOMAIN at /\ Front(q) \in DOMAIN at /\ ops < MaxOps
      /\ Notify(e, q, {next})
      /\ at' = [r \in DOMAIN at \cup {q} |-> IF r = q THEN next ELSE at[r]] /\ next' = next + 1
      /\ ops' = ops + 1
      /\ UNCHANGED <<marked, cache, shared, reading, chan, watches, pc, walk>>
  BY DEF MkDir
<1>2. e \in Event
  <2>1. Rec(q) \in Record /\ next \in Dir /\ Nil \in Record
    BY <1>1, RecordOf DEF TInv, TreeType, Dir, Record
  <2> QED
    BY <2>1 DEF Event
<1> HIDE DEF e
<1>3. /\ fanq' \in Seq(Event) /\ Len(fanq') <= QueueMax /\ inoq' \in Seq(Dir \X Name)
      /\ lost' \in {lost, lost \cup {next}}
  BY <1>1, <1>2, NotifyTypes
<1>4. TreeType'
  <2>1. TreeType
    BY DEF TInv
  <2>2. DOMAIN at' = DOMAIN at \cup {q} /\ at'[q] = next /\ \A r \in DOMAIN at : at'[r] = at[r]
    BY <1>1
  <2>3. IsFiniteSet(DOMAIN at')
    BY <2>1, <2>2, FS_AddElement DEF TreeType
  <2>4. DOMAIN at' \subseteq Path /\ Root \in DOMAIN at'
    BY <2>1, <2>2 DEF TreeType
  <2>5. \A p \in DOMAIN at' : p # Root => Front(p) \in DOMAIN at'
    BY <1>1, <2>1, <2>2 DEF TreeType
  <2>6. next' \in Nat /\ \A p \in DOMAIN at' : at'[p] \in Nat /\ at'[p] < next'
    BY <1>1, <2>1, <2>2 DEF TreeType
  <2>7. \A p, r \in DOMAIN at' : at'[p] = at'[r] => p = r
    BY <2>1, <2>2 DEF TreeType
  <2> QED
    BY <2>3, <2>4, <2>5, <2>6, <2>7 DEF TreeType
<1>5. NumberType'
  <2>1. next \in Nat /\ 0..next \subseteq 0..next' /\ next \in 0..next'
    BY <1>1 DEF TInv, TreeType
  <2> QED
    BY <1>1, <1>3, <2>1 DEF TInv, NumberType, walk
<1>6. CacheType' /\ WalkType'
  BY <1>1, KeepCache, KeepWalk DEF TInv
<1>7. QueueType'
  BY <1>1, <1>3 DEF TInv, QueueType
<1>8. FlagType'
  BY <1>1, Constants DEF TInv, FlagType
<1> QED
  BY <1>4, <1>5, <1>6, <1>7, <1>8 DEF TInv

LEMMA RmDirTypes == ASSUME TInv, NEW p \in DOMAIN at, RmDir(p) PROVE TInv'
<1>1. /\ p # Root /\ Below(p) = {p} /\ ops < MaxOps
      /\ at' = [q \in DOMAIN at \ {p} |-> at[q]]
      /\ marked' = marked \ {at[p]}
      /\ ops' = ops + 1
      /\ UNCHANGED <<next, cache, shared, fanq, reading, chan, watches, inoq, pc, walk, lost>>
  BY DEF RmDir
<1>2. TreeType /\ DOMAIN at \subseteq Seq(Name)
  BY TreeFacts DEF TInv
<1>3. DOMAIN at' = DOMAIN at \ {p} /\ \A r \in DOMAIN at \ {p} : at'[r] = at[r]
  BY <1>1
<1>4. IsFiniteSet(DOMAIN at')
  BY <1>2, <1>3, FS_Subset DEF TreeType
<1>5. ASSUME NEW q \in DOMAIN at', q # Root PROVE Front(q) \in DOMAIN at'
  <2>1. q \in DOMAIN at /\ q # p /\ Front(q) \in DOMAIN at
    BY <1>2, <1>3, <1>5 DEF TreeType
  <2>2. Front(q) # p
    <3>1. ASSUME Front(q) = p PROVE FALSE
      <4>1. IsPrefix(Front(q), q)
        BY <1>2, <1>5, <2>1, PrefixStep DEF Root
      <4>2. q \in Below(p)
        BY <2>1, <3>1, <4>1 DEF Below
      <4> QED
        BY <1>1, <2>1, <4>2
    <3> QED
      BY <3>1
  <2> QED
    BY <1>3, <2>1, <2>2
<1>6. TreeType'
  BY <1>1, <1>2, <1>3, <1>4, <1>5 DEF TreeType
<1>7. NumberType'
  BY <1>1 DEF TInv, NumberType, walk
<1>8. CacheType' /\ WalkType' /\ QueueType'
  BY <1>1, KeepCache, KeepWalk, KeepQueue DEF TInv
<1>9. FlagType'
  BY <1>1, Constants DEF TInv, FlagType
<1> QED
  BY <1>6, <1>7, <1>8, <1>9 DEF TInv

(* The tree after a rename: what is below p is below q, and nothing else   *)
(* changes its place.                                                      *)
Here(p) == DOMAIN at \ Below(p)

LEMMA RenameFacts ==
    ASSUME TreeType, NEW p \in Path, NEW q \in Path, Rename(p, q)
    PROVE  /\ p \in DOMAIN at /\ q \notin DOMAIN at /\ Front(q) \in Here(p)
           /\ p # Root /\ q # Root /\ p \in Seq(Name) /\ q \in Seq(Name)
           /\ DOMAIN at' = {Moved(r, p, q) : r \in Below(p)} \cup Here(p)
           /\ DOMAIN at' \subseteq Path
           /\ \A r \in Here(p) : at'[r] = at[r]
           /\ \A r \in Below(p) : at'[Moved(r, p, q)] = at[r]
<1> DEFINE moved == {Moved(r, p, q) : r \in Below(p)}
<1>1. /\ p # Root /\ p \in DOMAIN at /\ q # Root /\ q \notin DOMAIN at
      /\ Front(q) \in DOMAIN at /\ ~IsPrefix(p, q) /\ moved \subseteq Path
      /\ at' = [r \in moved \cup (DOMAIN at \ Below(p)) |->
                  at[IF r \in moved THEN Moved(r, q, p) ELSE r]]
  BY DEF Rename
<1>2. p \in Seq(Name) /\ q \in Seq(Name)
  BY Constants, PathIs
<1>3. /\ DOMAIN at \subseteq Seq(Name)
      /\ \A r \in DOMAIN at : \A s \in Seq(Name) : IsPrefix(s, r) => s \in DOMAIN at
  BY TreeFacts
<1>4. Front(q) \in Here(p)
  <2>1. q # <<>> /\ Front(q) \in Seq(Name)
    BY <1>1, <1>3 DEF Root
  <2>2. ~IsPrefix(p, Front(q))
    BY <1>1, <1>2, <2>1, PrefixStep
  <2> QED
    BY <1>1, <2>2 DEF Here, Below
<1>5. ASSUME NEW r \in Below(p)
      PROVE  /\ r \in DOMAIN at /\ IsPrefix(p, r) /\ Moved(r, p, q) \notin DOMAIN at
             /\ Moved(Moved(r, p, q), q, p) = r
  <2>1. r \in DOMAIN at /\ IsPrefix(p, r) /\ r \in Seq(Name)
    BY <1>3 DEF Below
  <2>2. Moved(r, p, q) \in Seq(Name) /\ IsPrefix(q, Moved(r, p, q))
    BY <1>2, <2>1, MovedFacts
  <2>3. Moved(r, p, q) \notin DOMAIN at
    BY <1>1, <1>2, <1>3, <2>2
  <2> QED
    BY <1>2, <2>1, <2>3, MovedBack
<1>6. DOMAIN at' = moved \cup Here(p)
  BY <1>1 DEF Here
<1>7. ASSUME NEW r \in Here(p) PROVE at'[r] = at[r]
  <2>1. r \in DOMAIN at /\ r \in DOMAIN at'
    BY <1>6 DEF Here
  <2>2. r \notin moved
    BY <1>5, <2>1
  <2>3. r \in moved \cup (DOMAIN at \ Below(p))
    BY <2>1 DEF Here
  <2> HIDE DEF moved
  <2>4. at'[r] = at[IF r \in moved THEN Moved(r, q, p) ELSE r]
    BY <1>1, <2>3
  <2> QED
    BY <2>2, <2>4
<1>8. ASSUME NEW r \in Below(p) PROVE at'[Moved(r, p, q)] = at[r]
  <2> DEFINE t == Moved(r, p, q)
  <2>1. t \in moved /\ Moved(t, q, p) = r
    BY <1>5
  <2> HIDE DEF t, moved
  <2>2. at'[t] = at[IF t \in moved THEN Moved(t, q, p) ELSE t]
    BY <1>1, <2>1
  <2>3. at'[t] = at[r]
    BY <2>1, <2>2
  <2> QED
    BY <2>3 DEF t
<1>9. DOMAIN at' \subseteq Path
  <2>1. Here(p) \subseteq Path
    BY DEF Here, TreeType
  <2> HIDE DEF moved
  <2> QED
    BY <1>1, <1>6, <2>1
<1> QED
  BY <1>1, <1>2, <1>4, <1>6, <1>7, <1>8, <1>9

LEMMA RenameTree ==
    ASSUME TreeType, NEW p \in Path, NEW q \in Path, Rename(p, q)
    PROVE  TreeType'
<1> DEFINE moved == {Moved(r, p, q) : r \in Below(p)}
<1>1. /\ p \in DOMAIN at /\ q \notin DOMAIN at /\ Front(q) \in Here(p)
      /\ p # Root /\ q # Root /\ p \in Seq(Name) /\ q \in Seq(Name)
      /\ DOMAIN at' = moved \cup Here(p) /\ DOMAIN at' \subseteq Path
      /\ \A r \in Here(p) : at'[r] = at[r]
      /\ \A r \in Below(p) : at'[Moved(r, p, q)] = at[r]
  BY RenameFacts
<1>2. next' = next
  BY DEF Rename
<1>3. /\ DOMAIN at \subseteq Seq(Name)
      /\ \A r \in Below(p) : r \in DOMAIN at /\ r \in Seq(Name) /\ IsPrefix(p, r)
      /\ Here(p) \subseteq DOMAIN at /\ Below(p) \cap Here(p) = {}
  BY TreeFacts DEF Below, Here
<1>4. IsFiniteSet(DOMAIN at')
  <2>1. IsFiniteSet(Below(p)) /\ IsFiniteSet(Here(p))
    <3>1. Below(p) \in SUBSET DOMAIN at /\ Here(p) \in SUBSET DOMAIN at
      BY DEF Below, Here
    <3> QED
      BY <3>1, FS_Subset DEF TreeType
  <2> DEFINE f == [r \in Below(p) |-> Moved(r, p, q)]
  <2>2. f \in Surjection(Below(p), moved)
    BY DEF Surjection
  <2>3. IsFiniteSet(moved)
    BY <2>1, <2>2, FS_Surjection
  <2> HIDE DEF moved
  <2> QED
    BY <1>1, <2>1, <2>3, FS_Union
<1>5. Root \in DOMAIN at'
  <2>1. ~IsPrefix(p, Root)
    <3>1. p # <<>> /\ <<>> \in Seq(Name) /\ IsPrefix(<<>>, p)
      BY <1>1, PrefixOrder DEF Root
    <3>2. Len(<<>>) = 0 /\ Len(p) \in Nat \ {0}
      BY <1>1, <3>1
    <3>3. ~IsPrefix(p, <<>>)
      BY <3>2 DEF IsPrefix
    <3> QED
      BY <3>3 DEF Root
  <2>2. Root \in Here(p)
    BY <2>1 DEF Here, Below, TreeType
  <2> QED
    BY <1>1, <2>2
<1>6. ASSUME NEW t \in DOMAIN at', t # Root PROVE Front(t) \in DOMAIN at'
  <2>1. CASE t \in Here(p)
    <3>1. t \in DOMAIN at /\ t \in Seq(Name) /\ Front(t) \in DOMAIN at /\ Front(t) \in Seq(Name)
      BY <1>3, <1>6, <2>1 DEF TreeType
    <3>2. IsPrefix(Front(t), t)
      BY <1>6, <3>1, PrefixStep DEF Root
    <3>3. ~IsPrefix(p, t)
      BY <2>1, <3>1 DEF Here, Below
    <3>4. ~IsPrefix(p, Front(t))
      BY <1>1, <3>1, <3>2, <3>3, PrefixOrder
    <3>5. Front(t) \in Here(p)
      BY <3>1, <3>4 DEF Here, Below
    <3> QED
      BY <1>1, <3>5
  <2>2. ASSUME NEW r \in Below(p), t = Moved(r, p, q) PROVE Front(t) \in DOMAIN at'
    <3>1. CASE r = p
      <4>1. t = q
        BY <1>1, <2>2, <3>1, MovedTop
      <4> QED
        BY <1>1, <4>1
    <3>2. CASE r # p
      <4>1. IsPrefix(p, Front(r)) /\ Front(t) = Moved(Front(r), p, q) /\ r # <<>>
        BY <1>1, <1>3, <2>2, <3>2, MovedStep
      <4>2. Front(r) \in Below(p)
        BY <1>3, <4>1 DEF Below, TreeType, Root
      <4>3. Front(t) \in moved
        BY <4>1, <4>2
      <4> HIDE DEF moved
      <4> QED
        BY <1>1, <4>3
    <3> QED
      BY <3>1, <3>2
  <2> QED
    BY <1>1, <2>1, <2>2
<1>7. ASSUME NEW t \in DOMAIN at'
      PROVE  \E r \in DOMAIN at : /\ at'[t] = at[r]
                                  /\ r = IF t \in Here(p) THEN t ELSE Moved(t, q, p)
                                  /\ t = IF r \in Here(p) THEN r ELSE Moved(r, p, q)
  <2>1. CASE t \in Here(p)
    BY <1>1, <1>3, <2>1
  <2>2. ASSUME NEW r \in Below(p), t = Moved(r, p, q), t \notin Here(p)
        PROVE  /\ r \in DOMAIN at /\ at'[t] = at[r] /\ r = Moved(t, q, p) /\ r \notin Here(p)
    <3>1. r = Moved(t, q, p)
      BY <1>1, <1>3, <2>2, MovedBack
    <3> QED
      BY <1>1, <1>3, <2>2, <3>1
  <2>3. CASE t \notin Here(p)
    <3>1. PICK r \in Below(p) : t = Moved(r, p, q)
      BY <1>1, <2>3
    <3>2. r \in DOMAIN at /\ at'[t] = at[r] /\ r = Moved(t, q, p) /\ r \notin Here(p)
      BY <2>2, <2>3, <3>1
    <3> QED
      BY <2>3, <3>1, <3>2
  <2> QED
    BY <2>1, <2>3
<1>8. \A t \in DOMAIN at' : at'[t] \in Nat /\ at'[t] < next'
  BY <1>2, <1>7 DEF TreeType
<1>9. ASSUME NEW t \in DOMAIN at', NEW u \in DOMAIN at', at'[t] = at'[u] PROVE t = u
  <2>1. PICK r \in DOMAIN at : at'[t] = at[r] /\ t = IF r \in Here(p) THEN r ELSE Moved(r, p, q)
    BY <1>7
  <2>2. PICK s \in DOMAIN at : at'[u] = at[s] /\ u = IF s \in Here(p) THEN s ELSE Moved(s, p, q)
    BY <1>7
  <2>3. r = s
    BY <1>9, <2>1, <2>2 DEF TreeType
  <2> QED
    BY <2>1, <2>2, <2>3
<1> QED
  BY <1>1, <1>2, <1>4, <1>5, <1>6, <1>8, <1>9 DEF TreeType

LEMMA RenameTypes == ASSUME TInv, NEW p \in Path, NEW q \in Path, Rename(p, q) PROVE TInv'
<1> DEFINE e == [dir |-> at[p], src |-> Rec(p), dst |-> Rec(q), rename |-> TRUE]
<1>1. /\ ops < MaxOps /\ ops' = ops + 1 /\ Front(q) \in DOMAIN at
      /\ Notify(e, q, DirsBelow(at[p]))
      /\ UNCHANGED <<next, marked, cache, shared, reading, chan, watches, pc, walk>>
  BY DEF Rename
<1>2. TreeType /\ p \in DOMAIN at /\ p # Root /\ q # Root /\ Front(p) \in DOMAIN at
  BY RenameFacts DEF TInv, TreeType
<1>3. e \in Event
  <2>1. Rec(p) \in Record /\ Rec(q) \in Record /\ at[p] \in Dir
    BY <1>1, <1>2, RecordOf DEF TreeType, Dir
  <2> QED
    BY <2>1 DEF Event
<1> HIDE DEF e
<1>4. /\ fanq' \in Seq(Event) /\ Len(fanq') <= QueueMax /\ inoq' \in Seq(Dir \X Name)
      /\ lost' \in {lost, lost \cup DirsBelow(at[p])}
  BY <1>1, <1>2, <1>3, NotifyTypes
<1>5. TreeType'
  BY <1>2, RenameTree
<1>6. NumberType'
  <2>1. DirsBelow(at[p]) \subseteq 0..next
    BY <1>2 DEF DirsBelow, Below, TreeType
  <2> QED
    BY <1>1, <1>4, <2>1 DEF TInv, NumberType, walk
<1>7. CacheType' /\ WalkType'
  BY <1>1, KeepCache, KeepWalk DEF TInv
<1>8. QueueType'
  BY <1>1, <1>4 DEF TInv, QueueType
<1>9. FlagType'
  BY <1>1, Constants DEF TInv, FlagType
<1> QED
  BY <1>5, <1>6, <1>7, <1>8, <1>9 DEF TInv

LEMMA LostBelow ==
    ASSUME TreeType, NEW d
    PROVE  /\ DirsBelow(d) \subseteq 0..next
           /\ \A p \in DOMAIN at : at[p] = d => \A q \in DOMAIN at : IsPrefix(p, q) => at[q] \in DirsBelow(d)
<1>1. DirsBelow(d) \subseteq 0..next
  BY DEF DirsBelow, Below, TreeType
<1>2. ASSUME NEW p \in DOMAIN at, at[p] = d, NEW q \in DOMAIN at, IsPrefix(p, q)
      PROVE  at[q] \in DirsBelow(d)
  <2>1. p \in {r \in DOMAIN at : at[r] = d} /\ q \in Below(p)
    BY <1>2 DEF Below
  <2> QED
    BY <2>1 DEF DirsBelow
<1> QED
  BY <1>1, <1>2

LEMMA ExpireTypes == ASSUME TInv, NEW d \in DOMAIN cache, Expire(d) PROVE TInv'
<1>1. /\ ops < MaxOps /\ ops' = ops + 1 /\ lost' = lost \cup {d}
      /\ cache' = [x \in DOMAIN cache \ {d} |-> cache[x]]
      /\ UNCHANGED <<kernel, marked, shared, reading, chan, watches, pc, walk>>
  BY DEF Expire
<1>2. TreeType' /\ QueueType' /\ WalkType'
  BY <1>1, KeepTree, KeepQueue, KeepWalk DEF TInv, kernel
<1>3. NumberType'
  BY <1>1 DEF TInv, NumberType, kernel, walk
<1>4. CacheType'
  <2>1. IsFiniteSet(DOMAIN cache) /\ DOMAIN cache' = DOMAIN cache \ {d}
    BY <1>1 DEF TInv, CacheType
  <2>2. /\ IsFiniteSet(DOMAIN cache') /\ Cardinality(DOMAIN cache') <= Cardinality(DOMAIN cache)
        /\ Cardinality(DOMAIN cache') \in Nat /\ Cardinality(DOMAIN cache) \in Nat
    BY <2>1, FS_Subset, FS_CardinalityType
  <2>3. Cardinality(DOMAIN cache') <= Capacity
    BY <2>2, Constants DEF TInv, CacheType
  <2>4. \A x \in DOMAIN cache' : cache'[x] = cache[x]
    BY <1>1
  <2> QED
    BY <2>1, <2>2, <2>3, <2>4 DEF TInv, CacheType
<1>5. FlagType'
  BY <1>1, Constants DEF TInv, FlagType
<1> QED
  BY <1>2, <1>3, <1>4, <1>5 DEF TInv

LEMMA ReadTypes == ASSUME TInv, Read PROVE TInv'
<1> DEFINE e == Head(fanq)
<1>1. /\ fanq # <<>> /\ fanq' = Tail(fanq)
      /\ chan' = IF Decodes(e) THEN Append(chan, Resolve(NewPlace(e))) ELSE chan
      /\ lost' = IF Decodes(e) THEN lost ELSE lost \cup DirsBelow(e.dir)
      /\ UNCHANGED <<at, next, inoq, marked, cache, shared, reading, watches, pc, walk, ops>>
  BY DEF Read
<1>2. TreeType' /\ CacheType' /\ WalkType' /\ FlagType'
  BY <1>1, KeepTree, KeepCache, KeepWalk, KeepFlag DEF TInv
<1>3. e \in Event /\ Tail(fanq) \in Seq(Event) /\ Len(Tail(fanq)) <= QueueMax
  BY <1>1, Constants DEF TInv, QueueType
<1> HIDE DEF e
<1>4. Decodes(e) => Resolve(NewPlace(e)) \in Seq(Name)
  <2> DEFINE r == NewPlace(e)
  <2>1. r \in Record
    BY <1>3 DEF NewPlace, Event
  <2> HIDE DEF r
  <2>2. Known(r) => Resolve(r) \in Seq(Name)
    BY <2>1 DEF TInv, CacheType, Known, Resolve, Record
  <2> QED
    BY <2>2 DEF Decodes, r
<1>5. QueueType'
  <2>1. chan' \in Seq(Seq(Name))
    <3>1. CASE Decodes(e)
      BY <1>1, <1>4, <3>1 DEF TInv, QueueType
    <3>2. CASE ~Decodes(e)
      BY <1>1, <3>2 DEF TInv, QueueType
    <3> QED
      BY <3>1, <3>2
  <2> QED
    BY <1>1, <1>3, <2>1 DEF TInv, QueueType
<1>6. NumberType'
  <2>1. lost' \in {lost, lost \cup DirsBelow(e.dir)}
    BY <1>1
  <2>2. DirsBelow(e.dir) \subseteq 0..next
    BY LostBelow DEF TInv
  <2> QED
    BY <1>1, <2>1, <2>2 DEF TInv, NumberType, walk
<1> QED
  BY <1>2, <1>5, <1>6 DEF TInv

LEMMA NothingPending == IsFiniteSet({}) /\ Cardinality({}) = 0 /\ 0 < Batch /\ 0 <= Batch
  BY FS_EmptySet, Constants

LEMMA RootType == TreeType => Root \in Seq(Name) /\ Root \in Path /\ Root = <<>> /\ at[Root] \in 0..next
  <1> QED
    BY Constants, PathIs DEF TreeType, Root

(* A walk begins with one entry of depth 0. *)
LEMMA WalkFrom ==
    ASSUME NEW p \in Seq(Name)
    PROVE  /\ <<<<p, 0>>>> \in Seq(Seq(Name) \X Nat) /\ DOMAIN <<<<p, 0>>>> = {1}
           /\ <<<<p, 0>>>>[1] = <<p, 0>> /\ 0 <= Len(p) /\ <<<<p, 0>>>> # <<>>
  OBVIOUS

LEMMA StartTypes == ASSUME TInv, StartUp \/ AddPath PROVE TInv'
<1>1. /\ pc = "off" /\ pc' = "pop" /\ todo' = <<<<Root, 0>>>> /\ level' = 0
      /\ marked' = {at[Root]} /\ watches' \in {watches, <<<<Root, at[Root]>>>>}
      /\ UNCHANGED <<kernel, cache, shared, reading, chan, job, top, pending, lost, ops>>
  BY DEF StartUp, AddPath
<1>2. Root \in Seq(Name) /\ Root \in Path /\ at[Root] \in 0..next /\ at[Root] \in Dir
  BY RootType DEF TInv, Dir
<1>3. TreeType' /\ CacheType' /\ FlagType'
  BY <1>1, KeepTree, KeepCache, KeepFlag DEF TInv, kernel
<1>4. NumberType'
  BY <1>1, <1>2 DEF TInv, NumberType, kernel
<1>5. QueueType'
  <2>1. <<<<Root, at[Root]>>>> \in Seq(Path \X Dir)
    BY <1>2
  <2> QED
    BY <1>1, <2>1 DEF TInv, QueueType, kernel
<1>6. WalkType'
  <2>1. pending' = {} /\ job' = job /\ top' = top
    BY <1>1 DEF TInv, WalkType
  <2>2. /\ todo' \in Seq(Seq(Name) \X Nat) /\ DOMAIN todo' = {1} /\ todo'[1] = <<Root, 0>>
        /\ 0 <= Len(Root)
    BY <1>1, <1>2, WalkFrom
  <2>3. \A i \in DOMAIN todo' : todo'[i][2] <= Len(todo'[i][1])
    BY <2>2
  <2> QED
    BY <1>1, <2>1, <2>2, <2>3, NothingPending DEF TInv, WalkType
<1> QED
  BY <1>3, <1>4, <1>5, <1>6 DEF TInv

LEMMA SetupTypes == ASSUME TInv, SetupWatches PROVE TInv'
<1>1. /\ watches' = Append(watches, <<Root, at[Root]>>)
      /\ UNCHANGED <<kernel, marked, cache, shared, reading, chan, pc, walk, lost, ops>>
  BY DEF SetupWatches
<1>2. <<Root, at[Root]>> \in Path \X Dir
  BY RootType DEF TInv, Dir
<1>3. QueueType'
  BY <1>1, <1>2 DEF TInv, QueueType, kernel
<1> QED
  BY <1>1, <1>3, KeepTree, KeepNumber, KeepCache, KeepWalk, KeepFlag DEF TInv, kernel, walk

LEMMA FlushTypes ==
    ASSUME TInv, Flush, next' = next, cache' = cache
    PROVE  NumberType' /\ ops' \in 0..MaxOps /\ pending' = {}
<1>1. PICK done \in SUBSET pending :
        /\ marked' = marked \cup (done \cap {at[p] : p \in DOMAIN at})
        /\ lost' = lost \cup (pending \ done)
        /\ ops' \in {ops, IF ops < MaxOps THEN ops + 1 ELSE ops}
  <2>1. PICK done \in IF ops < MaxOps THEN SUBSET pending ELSE {pending} :
          /\ marked' = marked \cup (done \cap {at[p] : p \in DOMAIN at})
          /\ lost' = lost \cup (pending \ done)
          /\ ops' = IF done = pending THEN ops ELSE ops + 1
    BY DEF Flush
  <2>2. done \in SUBSET pending
    BY <2>1
  <2>3. ops' \in {ops, IF ops < MaxOps THEN ops + 1 ELSE ops}
    <3>1. CASE ops < MaxOps
      BY <2>1, <3>1
    <3>2. CASE ~(ops < MaxOps)
      BY <2>1, <3>2
    <3> QED
      BY <3>1, <3>2
  <2> QED
    BY <2>1, <2>2, <2>3
<1>2. pending' = {}
  BY DEF Flush
<1>3. ops' \in 0..MaxOps
  <2>1. ops \in 0..MaxOps
    BY DEF TInv, FlagType
  <2> QED
    BY <1>1, <2>1, Constants
<1>4. NumberType'
  BY <1>1, <1>2 DEF TInv, NumberType
<1> QED
  BY <1>2, <1>3, <1>4

LEMMA FlushLevelTypes == ASSUME TInv, FlushLevel PROVE TInv'
<1>1. /\ pc = "pop" /\ Flush
      /\ UNCHANGED <<kernel, cache, shared, reading, chan, watches, pc, job, top, todo, level>>
  BY DEF FlushLevel
<1>2. NumberType' /\ ops' \in 0..MaxOps /\ pending' = {}
  BY <1>1, FlushTypes DEF kernel
<1>3. TreeType' /\ CacheType' /\ QueueType'
  BY <1>1, KeepTree, KeepCache, KeepQueue DEF TInv, kernel
<1>4. WalkType'
  BY <1>1, <1>2, NothingPending DEF TInv, WalkType
<1> QED
  BY <1>1, <1>2, <1>3, <1>4 DEF TInv, FlagType

LEMMA FlushFullTypes == ASSUME TInv, FlushFull PROVE TInv'
<1>1. /\ pc = "full" /\ Flush /\ pc' = "list"
      /\ UNCHANGED <<kernel, cache, shared, reading, chan, watches, job, top, todo, level>>
  BY DEF FlushFull
<1>2. NumberType' /\ ops' \in 0..MaxOps /\ pending' = {}
  BY <1>1, FlushTypes DEF kernel
<1>3. TreeType' /\ CacheType' /\ QueueType'
  BY <1>1, KeepTree, KeepCache, KeepQueue DEF TInv, kernel
<1>4. WalkType'
  BY <1>1, <1>2, NothingPending DEF TInv, WalkType
<1> QED
  BY <1>1, <1>2, <1>3, <1>4 DEF TInv, FlagType

(* The entry that the walk is at. *)
LEMMA HeadFacts ==
    ASSUME WalkType, todo # <<>>
    PROVE  /\ Current \in Seq(Name) /\ Depth \in Nat /\ Depth <= Len(Current)
           /\ Len(todo) \in Nat \ {0} /\ todo[1] = <<Current, Depth>>
           /\ Tail(todo) \in Seq(Seq(Name) \X Nat) /\ Len(Tail(todo)) = Len(todo) - 1
           /\ \A i \in 1..Len(todo) - 1 : Tail(todo)[i] = todo[i + 1]
<1>1. todo \in Seq(Seq(Name) \X Nat)
  BY DEF WalkType
<1>2. Len(todo) \in Nat \ {0} /\ Head(todo) = todo[1] /\ 1 \in DOMAIN todo
  BY <1>1
<1>3. todo[1] \in Seq(Name) \X Nat
  BY <1>1, <1>2
<1>4. /\ Tail(todo) \in Seq(Seq(Name) \X Nat) /\ Len(Tail(todo)) = Len(todo) - 1
      /\ \A i \in 1..Len(todo) - 1 : Tail(todo)[i] = todo[i + 1]
  BY <1>1, HeadTailProperties
<1>5. todo[1][2] <= Len(todo[1][1])
  BY <1>2 DEF WalkType
<1> QED
  BY <1>2, <1>3, <1>4, <1>5 DEF Current, Depth

LEMMA SkipTypes == ASSUME TInv, Skip PROVE TInv'
<1>1. /\ pc = "pop" /\ todo # <<>> /\ level' = Depth /\ todo' = Tail(todo)
      /\ UNCHANGED <<kernel, marked, cache, shared, reading, chan, watches, pc, job, top, pending,
                     lost, ops>>
  BY DEF Skip
<1>2. TreeType' /\ CacheType' /\ QueueType' /\ NumberType' /\ FlagType'
  BY <1>1, KeepTree, KeepCache, KeepQueue, KeepNumber, KeepFlag DEF TInv, kernel
<1>3. /\ Depth \in Nat /\ Tail(todo) \in Seq(Seq(Name) \X Nat) /\ Len(Tail(todo)) = Len(todo) - 1
      /\ \A i \in 1..Len(todo) - 1 : Tail(todo)[i] = todo[i + 1] /\ i + 1 \in DOMAIN todo
      /\ DOMAIN Tail(todo) = 1..Len(todo) - 1
  BY <1>1, HeadFacts DEF TInv, WalkType
<1>4. WalkType'
  <2>1. \A i \in DOMAIN todo' : todo'[i][2] <= Len(todo'[i][1])
    BY <1>1, <1>3 DEF TInv, WalkType
  <2> QED
    BY <1>1, <1>3, <2>1 DEF TInv, WalkType
<1> QED
  BY <1>2, <1>4 DEF TInv

LEMMA InsertFacts ==
    ASSUME CacheType, NEW d, NEW p \in Seq(Name), Insert(d, p)
    PROVE  /\ CacheType' /\ DOMAIN cache' \subseteq DOMAIN cache \cup {d}
           /\ d \in DOMAIN cache' /\ cache'[d] = p
           /\ \A x \in DOMAIN cache' : x # d => cache'[x] = cache[x]
<1>1. PICK c \in IF Cardinality(DOMAIN cache) >= Capacity THEN DOMAIN cache ELSE {d} :
        cache' = [x \in {d} \cup (DOMAIN cache \ {c}) |-> IF x = d THEN p ELSE cache[x]]
  BY DEF Insert
<1> DEFINE kept == DOMAIN cache \ {c}
           n == Cardinality(DOMAIN cache)
           k == Cardinality(kept)
<1>2. /\ IsFiniteSet(DOMAIN cache) /\ n \in Nat /\ n <= Capacity
      /\ IsFiniteSet(kept) /\ k \in Nat /\ (k = n - 1 \/ (k = n /\ c \notin DOMAIN cache))
  <2>1. IsFiniteSet(DOMAIN cache) /\ n \in Nat /\ n <= Capacity
    BY FS_CardinalityType DEF CacheType
  <2>2. IsFiniteSet(kept) /\ k = IF c \in DOMAIN cache THEN n - 1 ELSE n
    BY <2>1, FS_RemoveElement
  <2>3. k \in Nat
    BY <2>2, FS_CardinalityType
  <2> HIDE DEF kept, k, n
  <2> QED
    BY <2>1, <2>2, <2>3
<1>3. k < Capacity
  <2>1. CASE n >= Capacity
    <3>1. c \in DOMAIN cache
      BY <1>1, <2>1
    <3> HIDE DEF n, k
    <3> QED
      BY <1>2, <3>1, Constants
  <2>2. CASE ~(n >= Capacity)
    <3>1. k = n - 1 \/ k = n
      BY <1>2
    <3> HIDE DEF n, k
    <3> QED
      BY <1>2, <2>2, <3>1, Constants
  <2> QED
    BY <2>1, <2>2
<1>4. DOMAIN cache' = kept \cup {d}
  BY <1>1
<1>5. IsFiniteSet(DOMAIN cache') /\ Cardinality(DOMAIN cache') <= Capacity
  <2>1. IsFiniteSet(kept \cup {d}) /\ Cardinality(kept \cup {d}) \in {k, k + 1}
    BY <1>2, FS_AddElement
  <2> HIDE DEF k, kept
  <2> QED
    BY <1>2, <1>3, <1>4, <2>1, Constants
<1>6. /\ cache'[d] = p /\ \A x \in DOMAIN cache' : x # d => cache'[x] = cache[x] /\ x \in DOMAIN cache
  BY <1>1
<1>7. \A x \in DOMAIN cache' : cache'[x] \in Seq(Name)
  BY <1>6 DEF CacheType
<1> QED
  BY <1>4, <1>5, <1>6, <1>7 DEF CacheType

LEMMA RememberTypes ==
    ASSUME TInv, NEW d \in 0..next, todo # <<>>, Remember(d)
    PROVE  CacheType' /\ DOMAIN cache' \subseteq 0..next /\ lost' \subseteq 0..next
<1>1. Current \in Seq(Name) /\ CacheType /\ DOMAIN cache \subseteq 0..next /\ lost \subseteq 0..next
  BY HeadFacts DEF TInv, NumberType
<1>2. CASE shared
  <2>1. Insert(d, Current) /\ lost' \subseteq lost \cup DOMAIN cache
    BY <1>2 DEF Remember
  <2>2. CacheType' /\ DOMAIN cache' \subseteq DOMAIN cache \cup {d}
    BY <1>1, <2>1, InsertFacts
  <2> QED
    BY <1>1, <2>1, <2>2
<1>3. CASE ~shared
  <2>1. lost' = lost \cup {d} /\ UNCHANGED cache
    BY <1>3 DEF Remember
  <2> QED
    BY <1>1, <2>1, KeepCache
<1> QED
  BY <1>2, <1>3

LEMMA OpenDirTypes == ASSUME TInv, OpenDir PROVE TInv'
<1>1. /\ pc = "pop" /\ todo # <<>> /\ Current \in DOMAIN at /\ Remember(at[Current])
      /\ level' = Depth
      /\ pending' = IF Depth > 0 THEN pending \cup {at[Current]} ELSE pending
      /\ pc' = IF Cardinality(pending') >= Batch THEN "full" ELSE "list"
      /\ UNCHANGED <<kernel, marked, shared, reading, chan, watches, job, top, todo, ops>>
  BY DEF OpenDir
<1>2. at[Current] \in 0..next /\ at[Current] \in Nat /\ next \in Nat
  BY <1>1 DEF TInv, TreeType
<1>3. CacheType' /\ DOMAIN cache' \subseteq 0..next /\ lost' \subseteq 0..next
  BY <1>1, <1>2, RememberTypes
<1>4. TreeType' /\ QueueType' /\ FlagType'
  BY <1>1, KeepTree, KeepQueue, KeepFlag DEF TInv, kernel
<1>5. pending' \in {pending, pending \cup {at[Current]}}
  BY <1>1
<1>6. NumberType'
  BY <1>1, <1>2, <1>3, <1>5 DEF TInv, NumberType, kernel
<1>7. IsFiniteSet(pending') /\ Cardinality(pending') <= Batch /\ Cardinality(pending') \in Nat
  <2>1. IsFiniteSet(pending) /\ Cardinality(pending) \in Nat /\ Cardinality(pending) < Batch
    BY <1>1, FS_CardinalityType DEF TInv, WalkType
  <2>2. /\ IsFiniteSet(pending \cup {at[Current]})
        /\ \/ Cardinality(pending \cup {at[Current]}) = Cardinality(pending)
           \/ Cardinality(pending \cup {at[Current]}) = Cardinality(pending) + 1
    BY <2>1, FS_AddElement
  <2>3. CASE pending' = pending
    BY <2>1, <2>3, Constants
  <2>4. CASE pending' = pending \cup {at[Current]}
    BY <2>1, <2>2, <2>4, Constants
  <2> QED
    BY <1>5, <2>3, <2>4
<1>8. WalkType'
  <2>1. pc' \in {"full", "list"} /\ (pc' = "list" => Cardinality(pending') < Batch)
    <3>1. CASE Cardinality(pending') >= Batch
      BY <1>1, <3>1
    <3>2. CASE ~(Cardinality(pending') >= Batch)
      BY <1>1, <1>7, <3>2, Constants
    <3> QED
      BY <3>1, <3>2
  <2>2. Depth \in Nat
    BY <1>1, HeadFacts DEF TInv
  <2> QED
    BY <1>1, <1>7, <2>1, <2>2 DEF TInv, WalkType
<1> QED
  BY <1>3, <1>4, <1>6, <1>8 DEF TInv

LEMMA CacheNewTypes == ASSUME TInv, CacheNew PROVE TInv'
<1>1. /\ pc = "cache" /\ pc' = "pop"
      /\ UNCHANGED <<kernel, marked, shared, reading, chan, watches, walk, ops>>
  BY DEF CacheNew
<1>2. todo = <<<<top, 0>>>> /\ pending = {} /\ todo # <<>>
  <2>1. todo = <<<<top, 0>>>> /\ pending = {} /\ top \in Seq(Name)
    BY <1>1 DEF TInv, WalkType
  <2> QED
    BY <2>1, WalkFrom
<1>3. CacheType' /\ DOMAIN cache' \subseteq 0..next /\ lost' \subseteq 0..next
  <2>1. CASE top \in DOMAIN at
    <3>1. Remember(at[top]) /\ at[top] \in 0..next
      BY <2>1 DEF CacheNew, TInv, TreeType
    <3> QED
      BY <1>2, <3>1, RememberTypes
  <2>2. CASE top \notin DOMAIN at
    BY <2>2, KeepCache DEF CacheNew, TInv, NumberType
  <2> QED
    BY <2>1, <2>2
<1>4. TreeType' /\ QueueType' /\ FlagType'
  BY <1>1, KeepTree, KeepQueue, KeepFlag DEF TInv, kernel
<1>5. NumberType'
  BY <1>1, <1>3 DEF TInv, NumberType, kernel, walk
<1>6. WalkType'
  BY <1>1, <1>2, NothingPending DEF TInv, WalkType, walk
<1> QED
  BY <1>3, <1>4, <1>5, <1>6 DEF TInv

LEMMA ChildrenFinite == TreeType => IsFiniteSet(Children(Current)) /\ Children(Current) \subseteq DOMAIN at
<1>1. Children(Current) \in SUBSET DOMAIN at
  BY DEF Children
<1> QED
  BY <1>1, FS_Subset DEF TreeType

(* What the walk finds in its directory is queued behind what is left. *)
LEMMA ListFacts ==
    ASSUME TInv, List
    PROVE  /\ todo' \in Seq(Seq(Name) \X Nat) /\ Len(todo') >= Len(todo) - 1
           /\ \A i \in 1..Len(todo) - 1 : todo'[i] = todo[i + 1]
           /\ \A i \in Len(todo)..Len(todo') :
                 \E c \in Children(Current) : todo'[i] = <<c, Depth + 1>>
           /\ \A c \in Children(Current) : \E i \in DOMAIN todo' : todo'[i] = <<c, Depth + 1>>
<1> DEFINE found == SetToSeq(Children(Current))
           new == [i \in DOMAIN found |-> <<found[i], Depth + 1>>]
           rest == Tail(todo)
           Entry == Seq(Name) \X Nat
<1>1. pc = "list" /\ todo' = rest \o new
  BY DEF List
<1>2. todo # <<>>
  BY <1>1 DEF TInv, WalkType
<1>3. /\ Depth \in Nat /\ Len(todo) \in Nat \ {0} /\ rest \in Seq(Entry) /\ Len(rest) = Len(todo) - 1
      /\ \A i \in 1..Len(todo) - 1 : rest[i] = todo[i + 1]
  BY <1>2, HeadFacts DEF TInv
<1>4. PICK n \in Nat : n = Cardinality(Children(Current))
  BY ChildrenFinite, FS_CardinalityType DEF TInv
<1>5. /\ found \in Seq(Children(Current)) /\ DOMAIN found = 1..n
      /\ \A c \in Children(Current) : \E i \in DOMAIN found : found[i] = c
  BY <1>4, ChildrenFinite, Enumeration DEF TInv
<1>6. \A i \in 1..n : found[i] \in Children(Current) /\ found[i] \in Seq(Name)
  <2>1. Children(Current) \subseteq Seq(Name)
    BY ChildrenFinite, TreeFacts DEF TInv
  <2>2. Len(found) = n
    BY <1>4, <1>5
  <2> HIDE DEF found
  <2> QED
    BY <1>5, <2>1, <2>2
<1> HIDE DEF found
<1>7. /\ new \in Seq(Entry) /\ Len(new) = n
      /\ \A i \in 1..n : new[i] = <<found[i], Depth + 1>>
  <2>1. new = [i \in 1..n |-> <<found[i], Depth + 1>>]
    BY <1>5
  <2>2. \A i \in 1..n : <<found[i], Depth + 1>> \in Entry
    BY <1>3, <1>6
  <2> HIDE DEF new
  <2>3. new \in [1..n -> Entry] /\ \A i \in 1..n : new[i] = <<found[i], Depth + 1>>
    BY <2>1, <2>2
  <2> HIDE DEF Entry
  <2> QED
    BY <1>4, <2>3, SeqDef
<1> HIDE DEF new, rest, Entry
<1>8. /\ todo' \in Seq(Entry) /\ Len(todo') = Len(todo) - 1 + n
      /\ \A i \in 1..Len(todo) - 1 + n : todo'[i] = IF i <= Len(todo) - 1 THEN rest[i] ELSE new[i - (Len(todo) - 1)]
  <2>1. /\ rest \o new \in Seq(Entry) /\ Len(rest \o new) = Len(rest) + Len(new)
        /\ \A i \in 1..Len(rest) + Len(new) :
              (rest \o new)[i] = IF i <= Len(rest) THEN rest[i] ELSE new[i - Len(rest)]
    BY <1>3, <1>7, ConcatProperties
  <2> QED
    BY <1>1, <1>3, <1>7, <2>1
<1>9. \A i \in 1..Len(todo) - 1 : todo'[i] = todo[i + 1]
  BY <1>3, <1>4, <1>8
<1>10. ASSUME NEW i \in 1..n PROVE Len(todo) - 1 + i \in DOMAIN todo' /\ todo'[Len(todo) - 1 + i] = <<found[i], Depth + 1>>
  <2> DEFINE j == Len(todo) - 1 + i
  <2>1. j \in 1..Len(todo) - 1 + n /\ ~(j <= Len(todo) - 1) /\ j - (Len(todo) - 1) = i /\ j \in DOMAIN todo'
    BY <1>3, <1>4, <1>8
  <2> HIDE DEF j
  <2>2. todo'[j] = new[i]
    BY <1>8, <2>1
  <2> QED
    BY <1>7, <2>1, <2>2 DEF j
<1>11. ASSUME NEW i \in Len(todo)..Len(todo')
       PROVE  \E c \in Children(Current) : todo'[i] = <<c, Depth + 1>>
  <2> DEFINE j == i - (Len(todo) - 1)
  <2>1. j \in 1..n /\ Len(todo) - 1 + j = i
    BY <1>3, <1>4, <1>8
  <2> HIDE DEF j
  <2>2. todo'[i] = <<found[j], Depth + 1>>
    BY <1>10, <2>1
  <2> QED
    BY <1>6, <2>1, <2>2
<1>12. ASSUME NEW c \in Children(Current) PROVE \E i \in DOMAIN todo' : todo'[i] = <<c, Depth + 1>>
  <2>1. PICK i \in 1..n : found[i] = c
    BY <1>5 DEF found
  <2> QED
    BY <1>10, <2>1
<1>13. todo' \in Seq(Seq(Name) \X Nat)
  BY <1>8 DEF Entry
<1>14. Len(todo') >= Len(todo) - 1
  BY <1>3, <1>4, <1>8
<1> QED
  BY <1>9, <1>11, <1>12, <1>13, <1>14

LEMMA ListTypes == ASSUME TInv, List PROVE TInv'
<1>1. /\ pc = "list" /\ pc' = "pop"
      /\ UNCHANGED <<kernel, marked, cache, shared, reading, chan, watches, job, top, pending, level, lost, ops>>
  BY DEF List
<1>2. TreeType' /\ CacheType' /\ QueueType' /\ NumberType' /\ FlagType'
  BY <1>1, KeepTree, KeepCache, KeepQueue, KeepNumber, KeepFlag DEF TInv, kernel
<1>3. todo # <<>>
  BY <1>1 DEF TInv, WalkType
<1>4. /\ Current \in Seq(Name) /\ Depth \in Nat /\ Depth <= Len(Current) /\ Len(todo) \in Nat \ {0}
      /\ todo \in Seq(Seq(Name) \X Nat)
  BY <1>3, HeadFacts DEF TInv, WalkType
<1>5. /\ todo' \in Seq(Seq(Name) \X Nat)
      /\ \A i \in 1..Len(todo) - 1 : todo'[i] = todo[i + 1]
      /\ \A i \in Len(todo)..Len(todo') : \E c \in Children(Current) : todo'[i] = <<c, Depth + 1>>
  BY ListFacts
<1>6. ASSUME NEW i \in DOMAIN todo' PROVE todo'[i][2] <= Len(todo'[i][1])
  <2>1. i \in 1..Len(todo') /\ Len(todo') \in Nat
    BY <1>5
  <2>2. CASE i <= Len(todo) - 1
    <3>1. i \in 1..Len(todo) - 1 /\ i + 1 \in 1..Len(todo)
      <4> DEFINE n == Len(todo)
      <4>1. i \in Nat \ {0} /\ n \in Nat \ {0} /\ i <= n - 1
        BY <1>4, <2>1, <2>2
      <4> HIDE DEF n
      <4>2. i \in 1..n - 1 /\ i + 1 \in 1..n
        BY <4>1
      <4> QED
        BY <4>2 DEF n
    <3>2. todo'[i] = todo[i + 1]
      <4>1. \A k \in 1..Len(todo) - 1 : todo'[k] = todo[k + 1]
        BY <1>5
      <4> QED
        BY <3>1, <4>1, Zenon
    <3>3. i + 1 \in DOMAIN todo
      BY <1>4, <3>1
    <3>4. todo[i + 1][2] <= Len(todo[i + 1][1])
      BY <3>3 DEF TInv, WalkType
    <3> QED
      BY <3>2, <3>4
  <2>3. CASE ~(i <= Len(todo) - 1)
    <3>1. i \in Len(todo)..Len(todo')
      BY <1>4, <2>1, <2>3
    <3>2. PICK c \in Children(Current) : todo'[i] = <<c, Depth + 1>>
      BY <1>5, <3>1
    <3>3. c \in Seq(Name) /\ c # <<>> /\ Front(c) = Current
      BY <3>2, TreeFacts DEF Children, TInv, Root
    <3>4. Len(c) - 1 = Len(Current) /\ Len(c) \in Nat
      BY <3>3, FrontLast
    <3> QED
      BY <1>4, <3>2, <3>4
  <2> QED
    BY <2>2, <2>3
<1>7. WalkType'
  BY <1>1, <1>5, <1>6 DEF TInv, WalkType
<1> QED
  BY <1>2, <1>7 DEF TInv

LEMMA WalkEndTypes == ASSUME TInv, WalkEnd PROVE TInv'
<1>1. /\ todo = <<>> /\ pending = {} /\ pc' \in {"watch", "idle"}
      /\ shared' = TRUE /\ reading' = TRUE
      /\ UNCHANGED <<kernel, marked, cache, chan, watches, walk, lost, ops>>
  <2>1. pc' \in {"watch", "idle"}
    BY DEF WalkEnd
  <2> QED
    BY <2>1 DEF WalkEnd
<1>2. TreeType' /\ CacheType' /\ QueueType' /\ NumberType'
  BY <1>1, KeepTree, KeepCache, KeepQueue, KeepNumber DEF TInv, kernel, walk
<1>3. WalkType'
  BY <1>1 DEF TInv, WalkType, walk
<1>4. FlagType'
  BY <1>1 DEF TInv, FlagType
<1> QED
  BY <1>2, <1>3, <1>4 DEF TInv

(* What on_new_subdirectory starts with, by the path that it is given.     *)
LEMMA MarkNewCases ==
    ASSUME NEW p, MarkNew(p)
    PROVE  \/ p \notin DOMAIN at /\ UNCHANGED <<marked, pc, job, top, todo, level, lost, ops>>
           \/ /\ p \in DOMAIN at /\ marked' = marked \cup {at[p]} /\ pc' = "cache"
              /\ job' = "new" /\ top' = p /\ todo' = <<<<p, 0>>>> /\ level' = 0
              /\ UNCHANGED <<lost, ops>>
           \/ /\ p \in DOMAIN at /\ ops < MaxOps /\ ops' = ops + 1
              /\ lost' = lost \cup DirsBelow(at[p])
              /\ UNCHANGED <<marked, pc, job, top, todo, level>>
<1>1. CASE p \in DOMAIN at
  BY <1>1 DEF MarkNew
<1>2. CASE p \notin DOMAIN at
  BY <1>2 DEF MarkNew
<1> QED
  BY <1>1, <1>2

LEMMA MarkNewTypes ==
    ASSUME TInv, NEW p, MarkNew(p), pc = "idle", next' = next, cache' = cache, pending' = pending
    PROVE  NumberType' /\ WalkType' /\ ops' \in 0..MaxOps
<1>1. CASE UNCHANGED <<marked, pc, job, top, todo, level, lost, ops>>
  BY <1>1, KeepNumber, KeepWalk DEF TInv, walk, FlagType
<1>2. CASE /\ p \in DOMAIN at /\ marked' = marked \cup {at[p]} /\ pc' = "cache"
           /\ job' = "new" /\ top' = p /\ todo' = <<<<p, 0>>>> /\ level' = 0
           /\ UNCHANGED <<lost, ops>>
  <2>1. p \in Seq(Name) /\ at[p] \in 0..next /\ ops \in 0..MaxOps
    BY <1>2, TreeFacts DEF TInv, FlagType, TreeType
  <2>2. pending' = {}
    BY DEF TInv, WalkType
  <2>3. NumberType'
    BY <1>2, <2>1 DEF TInv, NumberType
  <2>4. /\ todo' \in Seq(Seq(Name) \X Nat) /\ DOMAIN todo' = {1} /\ todo'[1] = <<p, 0>>
        /\ 0 <= Len(p) /\ todo' # <<>>
    BY <1>2, <2>1, WalkFrom
  <2>5. \A i \in DOMAIN todo' : todo'[i][2] <= Len(todo'[i][1])
    BY <2>4
  <2>6. WalkType'
    BY <1>2, <2>1, <2>2, <2>4, <2>5, NothingPending DEF TInv, WalkType
  <2> QED
    BY <1>2, <2>1, <2>3, <2>6
<1>3. CASE /\ ops < MaxOps /\ ops' = ops + 1
           /\ lost' = lost \cup DirsBelow(at[p])
           /\ UNCHANGED <<marked, pc, job, top, todo, level>>
  <2>1. ops' \in 0..MaxOps
    BY <1>3, Constants DEF TInv, FlagType
  <2>2. NumberType'
    BY <1>3, LostBelow DEF TInv, NumberType
  <2>3. WalkType'
    BY <1>3, KeepWalk DEF TInv, walk
  <2> QED
    BY <2>1, <2>2, <2>3
<1> QED
  BY <1>1, <1>2, <1>3, MarkNewCases

LEMMA TakeCases ==
    ASSUME TInv, TakeEvent \/ TakeInotify
    PROVE  /\ pc = "idle" /\ \E p : MarkNew(p) /\ (p = Head(chan) \/ chan' = chan)
           /\ \/ chan # <<>> /\ chan' = Tail(chan) /\ inoq' = inoq
              \/ inoq # <<>> /\ inoq' = Tail(inoq) /\ chan' = chan
           /\ UNCHANGED <<at, next, fanq, cache, shared, reading, watches, pending>>
<1>1. CASE TakeEvent
  BY <1>1 DEF TakeEvent, kernel
<1>2. CASE TakeInotify
  <2>1. \E p : MarkNew(p)
    BY <1>2 DEF TakeInotify
  <2>2. /\ pc = "idle" /\ inoq # <<>> /\ inoq' = Tail(inoq)
        /\ UNCHANGED <<at, next, fanq, cache, shared, reading, chan, watches, pending>>
    BY <1>2 DEF TakeInotify
  <2> QED
    BY <2>1, <2>2
<1> QED
  BY <1>1, <1>2

LEMMA TakeTypes == ASSUME TInv, TakeEvent \/ TakeInotify PROVE TInv'
<1>1. PICK p : MarkNew(p)
  BY TakeCases
<1>2. /\ pc = "idle"
      /\ \/ chan # <<>> /\ chan' = Tail(chan) /\ inoq' = inoq
         \/ inoq # <<>> /\ inoq' = Tail(inoq) /\ chan' = chan
      /\ UNCHANGED <<at, next, fanq, cache, shared, reading, watches, pending>>
  BY TakeCases
<1>3. NumberType' /\ WalkType' /\ ops' \in 0..MaxOps
  BY <1>1, <1>2, MarkNewTypes
<1>4. TreeType' /\ CacheType'
  BY <1>2, KeepTree, KeepCache DEF TInv
<1>5. QueueType'
  <2>1. CASE chan # <<>> /\ chan' = Tail(chan) /\ inoq' = inoq
    BY <1>2, <2>1 DEF TInv, QueueType
  <2>2. CASE inoq # <<>> /\ inoq' = Tail(inoq) /\ chan' = chan
    BY <1>2, <2>2 DEF TInv, QueueType
  <2> QED
    BY <1>2, <2>1, <2>2
<1>6. FlagType'
  BY <1>2, <1>3 DEF TInv, FlagType
<1> QED
  BY <1>3, <1>4, <1>5, <1>6 DEF TInv

LEMMA WatchNewTypes == ASSUME TInv, WatchNew PROVE TInv'
<1> DEFINE has == {watches[i][1] : i \in DOMAIN watches}
           new == {q \in Below(top) : \A r \in has : ~(IsPrefix(top, r) /\ IsPrefix(r, q))}
           seq == SetToSeq(new)
           more == [i \in DOMAIN seq |-> <<seq[i], at[seq[i]]>>]
<1>1. /\ pc = "watch" /\ pc' = "idle" /\ watches' = watches \o more
      /\ UNCHANGED <<kernel, marked, cache, shared, reading, chan, walk, lost, ops>>
  BY DEF WatchNew
<1>2. IsFiniteSet(new) /\ new \subseteq DOMAIN at
  <2>1. new \in SUBSET DOMAIN at
    BY DEF Below
  <2> HIDE DEF new
  <2> QED
    BY <2>1, FS_Subset DEF TInv, TreeType
<1> HIDE DEF new
<1>3. PICK n \in Nat : n = Cardinality(new)
  BY <1>2, FS_CardinalityType
<1>4. seq \in Seq(new) /\ DOMAIN seq = 1..n
  BY <1>2, <1>3, Enumeration
<1> HIDE DEF seq
<1>5. \A i \in 1..n : <<seq[i], at[seq[i]]>> \in Path \X Dir
  <2>1. Len(seq) = n
    BY <1>3, <1>4
  <2>2. \A i \in 1..n : seq[i] \in DOMAIN at
    BY <1>2, <1>4, <2>1
  <2> QED
    BY <2>2 DEF TInv, TreeType, Dir
<1>6. more \in Seq(Path \X Dir)
  <2>1. more \in [1..n -> Path \X Dir]
    BY <1>4, <1>5
  <2> HIDE DEF more
  <2> QED
    BY <1>3, <2>1, SeqDef
<1> HIDE DEF more
<1>7. QueueType'
  BY <1>1, <1>6 DEF TInv, QueueType, kernel
<1>8. TreeType' /\ CacheType' /\ NumberType' /\ FlagType'
  BY <1>1, KeepTree, KeepCache, KeepNumber, KeepFlag DEF TInv, kernel, walk
<1>9. WalkType'
  BY <1>1 DEF TInv, WalkType, walk
<1> QED
  BY <1>7, <1>8, <1>9 DEF TInv

LEMMA InitTypes == ASSUME Init PROVE TInv
<1>1. PICK t \in Trees : LET s == SetToSeq(t) IN at = [p \in t |-> CHOOSE i \in DOMAIN s : s[i] = p]
  BY DEF Init
<1> DEFINE s == SetToSeq(t)
<1>2. /\ t \subseteq Path /\ IsFiniteSet(t) /\ Root \in t
      /\ \A p \in t : p # Root => Front(p) \in t
  BY TreeMarksAssumption
<1>3. PICK n \in Nat : n = Cardinality(t)
  BY <1>2, FS_CardinalityType
<1>4. DOMAIN s = 1..n /\ \A x \in t : \E i \in DOMAIN s : s[i] = x
  BY <1>2, <1>3, Enumeration
<1>5. at = [p \in t |-> CHOOSE i \in DOMAIN s : s[i] = p]
  BY <1>1
<1> HIDE DEF s
<1>6. ASSUME NEW p \in t PROVE at[p] \in 1..n /\ s[at[p]] = p
  <2>1. \E i \in DOMAIN s : s[i] = p
    BY <1>4
  <2>2. at[p] = CHOOSE i \in DOMAIN s : s[i] = p
    BY <1>5
  <2>3. at[p] \in DOMAIN s /\ s[at[p]] = p
    BY <2>1, <2>2, Zenon
  <2> QED
    BY <1>4, <2>3
<1>7. DOMAIN at = t /\ next = n + 1
  BY <1>3, <1>5 DEF Init
<1>8. TreeType
  BY <1>2, <1>6, <1>7 DEF TreeType
<1>9. NumberType
  BY <1>7 DEF Init, NumberType
<1>10. CacheType
  <2>1. DOMAIN cache = {}
    BY DEF Init
  <2> QED
    BY <2>1, FS_EmptySet, Constants DEF CacheType
<1>11. QueueType
  BY Constants DEF Init, QueueType
<1>12. WalkType
  <2>1. job \in {"boot", "add"} /\ top \in Seq(Name)
    BY Constants, <1>2, RootType, <1>8 DEF Init
  <2>2. pc = "off" /\ todo = <<>> /\ pending = {} /\ level = 0
    BY DEF Init
  <2>3. todo \in Seq(Seq(Name) \X Nat) /\ DOMAIN todo = {}
    BY <2>2
  <2>4. pc \notin {"pop", "list", "full", "cache"}
    BY <2>2
  <2>5. IsFiniteSet(pending) /\ Cardinality(pending) <= Batch
    BY <2>2, NothingPending
  <2>6. pc \in {"off", "idle", "cache", "pop", "full", "list", "watch"} /\ level \in Nat
    BY <2>2
  <2>7. \A i \in DOMAIN todo : todo[i][2] <= Len(todo[i][1])
    BY <2>3
  <2>8. job \in {"boot", "add", "new"}
    BY <2>1
  <2>9. /\ pc \in {"pop", "list"} => Cardinality(pending) < Batch
        /\ pc \in {"full", "list"} => todo # <<>>
        /\ pc = "cache" => todo = <<<<top, 0>>>> /\ pending = {}
    BY <2>4
  <2>10. pc \in {"off", "idle", "watch"} => todo = <<>> /\ pending = {}
    BY <2>2
  <2> QED
    BY <2>1, <2>3, <2>5, <2>6, <2>7, <2>8, <2>9, <2>10 DEF WalkType
<1>13. FlagType
  <2>1. shared \in BOOLEAN
    <3>1. shared = (job = "add")
      BY DEF Init
    <3> QED
      BY <3>1, Zenon
  <2>2. reading \in BOOLEAN
    <3>1. reading = FALSE \/ reading = shared
      BY DEF Init
    <3> QED
      BY <2>1, <3>1, Zenon
  <2>3. ops \in 0..MaxOps
    BY Constants DEF Init
  <2> QED
    BY <2>1, <2>2, <2>3 DEF FlagType
<1> QED
  BY <1>8, <1>9, <1>10, <1>11, <1>12, <1>13 DEF TInv

LEMMA TypesKept == TInv /\ [Next]_vars => TInv'
<1> SUFFICES ASSUME TInv, [Next]_vars PROVE TInv'
  OBVIOUS
<1>1. CASE FileSystem
  <2>1. CASE \E q \in Path : MkDir(q)
    BY <2>1, MkDirTypes
  <2>2. CASE \E p \in DOMAIN at : RmDir(p)
    BY <2>2, RmDirTypes
  <2>3. CASE \E p, q \in Path : Rename(p, q)
    BY <2>3, RenameTypes
  <2> QED
    BY <1>1, <2>1, <2>2, <2>3 DEF FileSystem
<1>2. CASE Read
  BY <1>2, ReadTypes
<1>3. CASE \E d \in DOMAIN cache : Expire(d)
  BY <1>3, ExpireTypes
<1>4. CASE StartUp \/ AddPath
  BY <1>4, StartTypes
<1>5. CASE SetupWatches
  BY <1>5, SetupTypes
<1>6. CASE TakeEvent \/ TakeInotify
  BY <1>6, TakeTypes
<1>7. CASE CacheNew
  BY <1>7, CacheNewTypes
<1>8. CASE WatchNew
  BY <1>8, WatchNewTypes
<1>9. CASE Walk
  BY <1>9, FlushLevelTypes, SkipTypes, OpenDirTypes, FlushFullTypes, ListTypes, WalkEndTypes
     DEF Walk
<1>10. CASE UNCHANGED vars
  BY <1>10, KeepTree, KeepNumber, KeepCache, KeepQueue, KeepWalk, KeepFlag DEF TInv, vars, walk
<1> QED
  BY <1>1, <1>2, <1>3, <1>4, <1>5, <1>6, <1>7, <1>8, <1>9, <1>10 DEF Next

(* Every variable keeps its type: of the daemon's own structures, the      *)
(* cache never holds more than its capacity (DirCache::insert drops an     *)
(* entry first) and a batch of marks is flushed before it exceeds          *)
(* MAX_DIRS_PER_MARK, whatever tree is walked and however it changes.      *)
THEOREM TreeTypeCorrect == Spec => []TypeOK
<1>1. Init => TInv
  BY InitTypes
<1> QED
  BY <1>1, TypesKept, TypesImplied, PTL DEF Spec

-----------------------------------------------------------------------------
(* The tree is followed.                                                   *)

LEMMA LostDown ==
    ASSUME TreeType, NEW q \in DOMAIN at, NEW p \in DOMAIN at, IsPrefix(q, p)
    PROVE  /\ at[q] \in lost => Lost(p)
           /\ Lost(q) => Lost(p)
<1>1. DOMAIN at \subseteq Seq(Name)
  BY TreeFacts
<1>2. ASSUME NEW r \in DOMAIN at, IsPrefix(r, q) PROVE IsPrefix(r, p)
  BY <1>1, <1>2, PrefixOrder
<1> QED
  BY <1>2 DEF Lost

LEMMA LostHere == ASSUME TreeType, NEW p \in DOMAIN at, at[p] \in lost PROVE Lost(p)
<1>1. IsPrefix(p, p)
  BY TreeFacts, PrefixOrder
<1> QED
  BY <1>1 DEF Lost

LEMMA KeepLost == ASSUME at' = at, lost \subseteq lost', NEW p, Lost(p) PROVE Lost(p)'
  BY DEF Lost

LEMMA KeepPlaced ==
    ASSUME at' = at, cache' = cache, marked \cup pending \subseteq marked' \cup pending',
           NEW p, Placed(p)
    PROVE  Placed(p)'
  BY DEF Placed

LEMMA KeepTold == ASSUME at' = at, fanq' = fanq, NEW q, Told(q) PROVE Told(q)'
  BY DEF Told, ToldBy, NewPlace

LEMMA KeepCovered ==
    ASSUME UNCHANGED <<at, chan, fanq, todo>>, pc = "off" => pc' = "off", Opened' => Opened,
           marked \subseteq marked', NEW p, Covered(p)
    PROVE  Covered(p)'
<1>1. ASSUME NEW i, CoveredBy(i, p) PROVE CoveredBy(i, p)'
  BY <1>1 DEF CoveredBy
<1> QED
  BY <1>1, KeepTold DEF Covered

LEMMA ExpireFollow == ASSUME JInv, NEW d \in DOMAIN cache, Expire(d) PROVE FollowInv'
<1>1. /\ lost' = lost \cup {d}
      /\ cache' = [x \in DOMAIN cache \ {d} |-> cache[x]]
      /\ UNCHANGED <<kernel, marked, shared, reading, chan, watches, pc, walk>>
  BY DEF Expire
<1>2. UNCHANGED <<at, chan, fanq, todo, pc, marked, pending>> /\ TreeType'
  BY <1>1, ExpireTypes DEF kernel, walk, JInv, TInv
<1>3. ASSUME NEW p \in DOMAIN at, Followed(p) PROVE Followed(p)'
  <2>1. CASE Len(p) > Limit
    BY <2>1 DEF Followed
  <2>2. CASE Lost(p)
    BY <1>1, <1>2, <2>2, KeepLost DEF Followed
  <2>3. CASE Placed(p)
    <3>1. CASE at[p] = d
      <4>1. at'[p] \in lost' /\ p \in DOMAIN at'
        BY <1>1, <1>2, <3>1
      <4>2. Lost(p)'
        <5>1. IsPrefix(p, p)
          BY TreeFacts, PrefixOrder DEF JInv, TInv
        <5> QED
          BY <4>1, <5>1 DEF Lost
      <4> QED
        BY <4>2 DEF Followed
    <3>2. CASE at[p] # d
      <4>1. Placed(p)'
        BY <1>1, <1>2, <2>3, <3>2 DEF Placed
      <4> QED
        BY <4>1 DEF Followed
    <3> QED
      BY <3>1, <3>2
  <2>4. CASE Covered(p)
    <3>1. Opened' => Opened
      BY <1>2 DEF Opened
    <3>2. Covered(p)'
      BY <1>2, <2>4, <3>1, KeepCovered
    <3> QED
      BY <3>2 DEF Followed
  <2> QED
    BY <1>3, <2>1, <2>2, <2>3, <2>4 DEF Followed
<1> QED
  BY <1>2, <1>3 DEF JInv, FollowInv

(* A step that only goes on in the program. *)
LEMMA ProgressFollow ==
    ASSUME JInv, UNCHANGED <<at, chan, fanq, todo, cache, pending, lost>>,
           pc = "off" => pc' = "off", Opened' => Opened, marked' = marked
    PROVE  FollowInv'
<1>1. ASSUME NEW p \in DOMAIN at, Followed(p) PROVE Followed(p)'
  BY <1>1, KeepLost, KeepPlaced, KeepCovered DEF Followed
<1> QED
  BY <1>1 DEF JInv, FollowInv

LEMMA RestFollow ==
    ASSUME JInv, SetupWatches \/ WatchNew \/ WalkEnd \/ UNCHANGED vars
    PROVE  FollowInv'
<1>1. UNCHANGED <<at, chan, fanq, todo, cache, pending, lost, marked>>
  BY DEF SetupWatches, WatchNew, WalkEnd, kernel, walk, vars
<1>2. pc' = pc \/ (pc \in {"watch", "pop"} /\ pc' \in {"watch", "idle"})
  BY DEF SetupWatches, WatchNew, WalkEnd, vars
<1> QED
  BY <1>1, <1>2, ProgressFollow DEF Opened

LEMMA FlushFollow == ASSUME JInv, FlushLevel \/ FlushFull PROVE FollowInv'
<1>1. /\ Flush /\ UNCHANGED <<at, chan, fanq, todo, cache>>
      /\ pc' = pc \/ (pc = "full" /\ pc' = "list")
  BY DEF FlushLevel, FlushFull, kernel
<1>2. PICK done \in SUBSET pending :
        /\ marked' = marked \cup (done \cap {at[p] : p \in DOMAIN at})
        /\ lost' = lost \cup (pending \ done)
  BY <1>1 DEF Flush
<1>3. Opened' => Opened
  BY <1>1 DEF Opened
<1>4. ASSUME NEW p \in DOMAIN at, Followed(p) PROVE Followed(p)'
  <2>1. CASE Len(p) > Limit
    BY <2>1 DEF Followed
  <2>2. CASE Lost(p)
    BY <1>1, <1>2, <2>2, KeepLost DEF Followed
  <2>3. CASE Placed(p)
    <3>1. CASE at[p] \in pending \ done
      <4>1. at'[p] \in lost' /\ p \in DOMAIN at'
        BY <1>1, <1>2, <3>1
      <4>2. IsPrefix(p, p)
        BY TreeFacts, PrefixOrder DEF JInv, TInv
      <4>3. Lost(p)'
        BY <4>1, <4>2 DEF Lost
      <4> QED
        BY <4>3 DEF Followed
    <3>2. CASE at[p] \notin pending \ done
      <4>1. at[p] \in marked'
        BY <1>2, <2>3, <3>2 DEF Placed
      <4>2. Placed(p)'
        BY <1>1, <2>3, <4>1 DEF Placed
      <4> QED
        BY <4>2 DEF Followed
    <3> QED
      BY <3>1, <3>2
  <2>4. CASE Covered(p)
    <3>1. Covered(p)'
      BY <1>1, <1>2, <1>3, <2>4, KeepCovered
    <3> QED
      BY <3>1 DEF Followed
  <2> QED
    BY <1>4, <2>1, <2>2, <2>3, <2>4 DEF Followed
<1> QED
  BY <1>1, <1>4 DEF JInv, FollowInv

LEMMA StartFollow == ASSUME JInv, StartUp \/ AddPath PROVE FollowInv'
<1>1. /\ pc' = "pop" /\ todo' = <<<<Root, 0>>>> /\ marked' = {at[Root]} /\ at' = at
  BY DEF StartUp, AddPath, kernel
<1>2. ASSUME NEW p \in DOMAIN at PROVE Covered(p)'
  <2>1. p \in Seq(Name) /\ Root = <<>>
    BY TreeFacts DEF JInv, TInv, Root
  <2>2. IsPrefix(Root, p)
    BY <2>1, PrefixOrder
  <2>3. 1 \in DOMAIN todo' /\ todo'[1][1] = Root
    BY <1>1
  <2>4. Root # p \/ (~Opened' /\ at'[p] \in marked')
    BY <1>1 DEF Opened
  <2>5. CoveredBy(1, p)'
    BY <2>2, <2>3, <2>4 DEF CoveredBy
  <2> QED
    BY <2>3, <2>5 DEF Covered
<1> QED
  BY <1>1, <1>2 DEF FollowInv, Followed

LEMMA LostNow == ASSUME TreeType, at' = at, NEW p \in DOMAIN at, at[p] \in lost' PROVE Lost(p)'
<1>1. IsPrefix(p, p)
  BY TreeFacts, PrefixOrder
<1> QED
  BY <1>1 DEF Lost

(* What Remember puts in the cache, and what it drops, is accounted for.   *)
LEMMA RememberFollow ==
    ASSUME TInv, NEW c \in DOMAIN at, c = Current, todo # <<>>, Remember(at[c]),
           at' = at, marked' = marked, pending \subseteq pending', Depth > 0 => at[c] \in pending'
    PROVE  /\ \A p \in DOMAIN at : Placed(p) => Placed(p)' \/ Lost(p)'
           /\ \A p \in DOMAIN at : Lost(p) /\ ~IsPrefix(c, p) => Lost(p)'
           /\ Lost(c) => Lost(c)' \/ Placed(c)'
           /\ Depth > 0 \/ at[c] \in marked => Lost(c)' \/ Placed(c)'
<1> DEFINE d == at[c]
           Sure == Depth > 0 \/ d \in marked
<1>1. /\ TreeType /\ CacheType /\ DOMAIN at \subseteq Seq(Name)
      /\ \A p, q \in DOMAIN at : at[p] = at[q] => p = q
  BY TreeFacts DEF TInv, TreeType
<1>2. ASSUME NEW p \in DOMAIN at, at[p] \in lost' PROVE Lost(p)'
  BY <1>1, <1>2, LostNow
<1>3. CASE ~shared
  <2>1. lost' = lost \cup {d} /\ cache' = cache
    BY <1>3 DEF Remember
  <2>2. \A p \in DOMAIN at : Placed(p) => Placed(p)'
    BY <2>1 DEF Placed
  <2>3. \A p \in DOMAIN at : Lost(p) => Lost(p)'
    BY <2>1 DEF Lost
  <2>4. Lost(c)'
    BY <1>2, <2>1
  <2> QED
    BY <2>2, <2>3, <2>4
<1>4. CASE shared
  <2>1. /\ Insert(d, c)
        /\ lost' = (lost \ (IF Sure THEN {d} ELSE {})) \cup (DOMAIN cache \ DOMAIN cache')
    BY <1>4 DEF Remember
  <2>2. /\ d \in DOMAIN cache' /\ cache'[d] = c
        /\ \A x \in DOMAIN cache' : x # d => cache'[x] = cache[x]
    BY <1>1, <2>1, InsertFacts
  <2>3. Sure => Placed(c)'
    <3>1. Sure => d \in marked' \cup pending'
      OBVIOUS
    <3> QED
      BY <2>2, <3>1 DEF Placed
  <2>4. ASSUME NEW p \in DOMAIN at, Placed(p) PROVE Placed(p)' \/ Lost(p)'
    <3>1. at[p] \in marked' \cup pending' /\ at[p] \in DOMAIN cache /\ cache[at[p]] = p
      BY <2>4 DEF Placed
    <3>2. CASE at[p] = d
      <4>1. p = c
        BY <1>1, <3>2
      <4> QED
        BY <2>2, <3>1, <4>1 DEF Placed
    <3>3. CASE at[p] # d /\ at[p] \in DOMAIN cache'
      BY <2>2, <3>1, <3>3 DEF Placed
    <3>4. CASE at[p] \notin DOMAIN cache'
      BY <1>2, <2>1, <3>1, <3>4
    <3> QED
      BY <3>2, <3>3, <3>4
  <2>5. ASSUME NEW p \in DOMAIN at, Lost(p), ~IsPrefix(c, p) PROVE Lost(p)'
    <3>1. PICK q \in DOMAIN at : IsPrefix(q, p) /\ at[q] \in lost
      BY <2>5 DEF Lost
    <3>2. at[q] # d
      BY <1>1, <2>5, <3>1
    <3>3. at[q] \in lost'
      BY <2>1, <3>1, <3>2
    <3> QED
      BY <3>1, <3>3 DEF Lost
  <2>6. ASSUME ~Sure, Lost(c) PROVE Lost(c)'
    <3>1. lost \subseteq lost'
      BY <2>1, <2>6
    <3> QED
      BY <2>6, <3>1 DEF Lost
  <2> QED
    BY <2>3, <2>4, <2>5, <2>6
<1> QED
  BY <1>3, <1>4

(* Below the head of todo the walk is still to come. *)
LEMMA BelowHead ==
    ASSUME JInv, todo # <<>>, at' = at, todo' = todo, NEW p \in DOMAIN at,
           IsPrefix(Current, p), Current # p
    PROVE  Covered(p)'
<1>1. 1 \in DOMAIN todo' /\ todo'[1][1] = Current
  BY HeadFacts DEF JInv, TInv
<1>2. CoveredBy(1, p)'
  BY <1>1 DEF CoveredBy
<1> QED
  BY <1>1, <1>2 DEF Covered

LEMMA OpenDirFollow == ASSUME JInv, OpenDir PROVE FollowInv'
<1>1. PICK c \in DOMAIN at :
      /\ c = Current /\ pc = "pop" /\ todo # <<>> /\ Remember(at[c])
      /\ pending' = IF Depth > 0 THEN pending \cup {at[c]} ELSE pending
      /\ UNCHANGED <<at, fanq, marked, chan, todo>>
  BY DEF OpenDir, kernel
<1>2. TInv /\ FollowInv /\ TreeType /\ DOMAIN at \subseteq Seq(Name)
  BY TreeFacts DEF JInv, TInv
<1>3. /\ \A p \in DOMAIN at : Placed(p) => Placed(p)' \/ Lost(p)'
      /\ \A p \in DOMAIN at : Lost(p) /\ ~IsPrefix(c, p) => Lost(p)'
      /\ Lost(c) => Lost(c)' \/ Placed(c)'
      /\ Depth > 0 \/ at[c] \in marked => Lost(c)' \/ Placed(c)'
  <2>1. pending \subseteq pending' /\ (Depth > 0 => at[c] \in pending')
    BY <1>1
  <2> QED
    BY <1>1, <1>2, <2>1, RememberFollow
<1>4. todo[1] = <<c, Depth>> /\ pc # "off"
  BY <1>1, <1>2, HeadFacts DEF TInv
<1>5. ASSUME NEW p \in DOMAIN at, Covered(p), \A i \in DOMAIN todo : CoveredBy(i, p) => i # 1
      PROVE  Covered(p)'
  <2>1. ASSUME NEW i \in DOMAIN todo, CoveredBy(i, p) PROVE CoveredBy(i, p)'
    BY <1>1, <1>5, <2>1 DEF CoveredBy
  <2>2. \A q : Told(q) => Told(q)'
    BY <1>1, KeepTold
  <2>3. CASE \E i \in DOMAIN todo : CoveredBy(i, p)
    BY <1>1, <2>1, <2>3 DEF Covered
  <2>4. CASE ~\E i \in DOMAIN todo : CoveredBy(i, p)
    BY <1>1, <1>4, <1>5, <2>2, <2>4 DEF Covered
  <2> QED
    BY <2>3, <2>4
<1>6. ASSUME NEW p \in DOMAIN at PROVE Followed(p)'
  <2>1. Len(p) > Limit \/ Lost(p) \/ Placed(p) \/ Covered(p)
    BY <1>2 DEF FollowInv, Followed
  <2>2. CASE ~IsPrefix(c, p)
    <3>1. \A i \in DOMAIN todo : CoveredBy(i, p) => i # 1
      BY <1>4, <2>2 DEF CoveredBy
    <3> QED
      BY <1>3, <1>5, <2>1, <2>2, <3>1 DEF Followed
  <2>3. CASE p = c
    <3>1. CASE Depth > 0 \/ at[c] \in marked
      BY <1>3, <2>3, <3>1 DEF Followed
    <3>2. CASE ~(Depth > 0 \/ at[c] \in marked)
      <4>1. \A i \in DOMAIN todo : CoveredBy(i, p) => i # 1
        BY <1>4, <2>3, <3>2 DEF CoveredBy
      <4> QED
        BY <1>3, <1>5, <2>1, <2>3, <4>1 DEF Followed
    <3> QED
      BY <3>1, <3>2
  <2>4. CASE IsPrefix(c, p) /\ p # c
    <3>1. Covered(p)'
      BY <1>1, <2>4, BelowHead
    <3> QED
      BY <3>1 DEF Followed
  <2> QED
    BY <2>2, <2>3, <2>4
<1> QED
  BY <1>1, <1>6 DEF FollowInv

LEMMA CacheNewFollow == ASSUME JInv, CacheNew PROVE FollowInv'
<1>1. /\ pc = "cache" /\ pc' = "pop"
      /\ UNCHANGED <<at, fanq, marked, chan, todo, pending>>
  BY DEF CacheNew, kernel, walk
<1>2. TInv /\ FollowInv /\ TreeType /\ DOMAIN at \subseteq Seq(Name)
  BY TreeFacts DEF JInv, TInv
<1>3. todo = <<<<top, 0>>>> /\ todo # <<>> /\ Current = top /\ Depth = 0
  <2>1. todo = <<<<top, 0>>>> /\ top \in Seq(Name)
    BY <1>1, <1>2 DEF TInv, WalkType
  <2>2. todo # <<>> /\ todo[1] = <<top, 0>>
    BY <2>1, WalkFrom
  <2>3. todo[1] = <<Current, Depth>>
    BY <1>2, <2>2, HeadFacts DEF TInv
  <2> QED
    BY <2>1, <2>2, <2>3
<1>4. ~Opened'
  BY <1>1 DEF Opened
<1>5. CASE top \notin DOMAIN at
  <2>1. UNCHANGED <<cache, lost>>
    BY <1>5 DEF CacheNew
  <2> QED
    BY <1>1, <1>4, <2>1, ProgressFollow
<1>6. CASE top \in DOMAIN at
  <2>1. PICK c \in DOMAIN at : c = top /\ Remember(at[c])
    BY <1>6 DEF CacheNew
  <2>2. /\ \A p \in DOMAIN at : Placed(p) => Placed(p)' \/ Lost(p)'
        /\ \A p \in DOMAIN at : Lost(p) /\ ~IsPrefix(c, p) => Lost(p)'
        /\ Lost(c) => Lost(c)' \/ Placed(c)'
    <3>1. pending \subseteq pending' /\ (Depth > 0 => at[c] \in pending')
      BY <1>1, <1>3
    <3> QED
      BY <1>1, <1>2, <1>3, <1>6, <2>1, <3>1, RememberFollow
  <2>3. ASSUME NEW p \in DOMAIN at PROVE Followed(p)'
    <3>1. Len(p) > Limit \/ Lost(p) \/ Placed(p) \/ Covered(p)
      BY <1>2 DEF FollowInv, Followed
    <3>2. Covered(p) => Covered(p)'
      BY <1>1, <1>4, KeepCovered
    <3>3. CASE IsPrefix(c, p) /\ p # c
      <4>1. Covered(p)'
        BY <1>1, <1>3, <2>1, <3>3, BelowHead
      <4> QED
        BY <4>1 DEF Followed
    <3>4. CASE p = c
      BY <2>2, <3>1, <3>2, <3>4 DEF Followed
    <3>5. CASE ~IsPrefix(c, p)
      BY <2>2, <3>1, <3>2, <3>5 DEF Followed
    <3> QED
      BY <3>3, <3>4, <3>5
  <2> QED
    BY <1>1, <2>3 DEF FollowInv
<1> QED
  BY <1>5, <1>6

(* The rest of todo still covers what it covered when its head is gone. *)
LEMMA ShiftCovered ==
    ASSUME TInv, todo # <<>>, UNCHANGED <<at, chan, fanq, marked>>, ~Opened',
           todo' \in Seq(Seq(Name) \X Nat), Len(todo') >= Len(todo) - 1,
           \A i \in 1..Len(todo) - 1 : todo'[i] = todo[i + 1], pc # "off",
           NEW p, Covered(p), ~CoveredBy(1, p)
    PROVE  Covered(p)'
<1>1. /\ todo \in Seq(Seq(Name) \X Nat) /\ Len(todo) \in Nat \ {0} /\ Len(todo') \in Nat
      /\ DOMAIN todo = 1..Len(todo) /\ DOMAIN todo' = 1..Len(todo')
  BY HeadFacts DEF TInv, WalkType
<1>2. ASSUME NEW i \in DOMAIN todo, CoveredBy(i, p) PROVE \E j \in DOMAIN todo' : CoveredBy(j, p)'
  <2> DEFINE j == i - 1
  <2>1. i # 1
    BY <1>2
  <2>2. j \in 1..Len(todo) - 1 /\ j + 1 = i /\ j \in DOMAIN todo'
    <3>1. i \in 1..Len(todo)
      BY <1>1
    <3> DEFINE n == Len(todo)
               m == Len(todo')
    <3>2. n \in Nat /\ m \in Nat /\ m >= n - 1 /\ i \in 1..n /\ DOMAIN todo' = 1..m
      BY <1>1, <3>1
    <3> HIDE DEF n, m
    <3>3. j \in 1..n - 1 /\ j + 1 = i /\ j \in 1..m
      BY <2>1, <3>2
    <3> QED
      BY <3>2, <3>3 DEF n
  <2> HIDE DEF j
  <2>3. todo'[j] = todo[i]
    <3>1. todo'[j] = todo[j + 1]
      BY <2>2, Zenon
    <3> QED
      BY <2>2, <3>1
  <2>4. CoveredBy(j, p)'
    BY <1>2, <2>2, <2>3 DEF CoveredBy
  <2> QED
    BY <2>2, <2>4
<1>3. \A q : Told(q) => Told(q)'
  BY KeepTold
<1>4. CASE \E i \in DOMAIN todo : CoveredBy(i, p)
  BY <1>2, <1>4 DEF Covered
<1>5. CASE ~\E i \in DOMAIN todo : CoveredBy(i, p)
  BY <1>3, <1>5 DEF Covered
<1> QED
  BY <1>4, <1>5

LEMMA SkipFollow == ASSUME JInv, Skip PROVE FollowInv'
<1>1. /\ pc = "pop" /\ pc' = "pop" /\ todo # <<>> /\ todo' = Tail(todo)
      /\ Depth > Limit \/ Current \notin DOMAIN at
      /\ UNCHANGED <<at, fanq, marked, cache, chan, pending, lost>>
  BY DEF Skip, kernel
<1>2. /\ TInv /\ FollowInv /\ TreeType /\ DOMAIN at \subseteq Seq(Name)
      /\ \A p \in DOMAIN at : \A q \in Seq(Name) : IsPrefix(q, p) => q \in DOMAIN at
  BY TreeFacts DEF JInv, TInv
<1>3. /\ Current \in Seq(Name) /\ Depth \in Nat /\ Depth <= Len(Current) /\ Len(todo) \in Nat \ {0}
      /\ todo[1] = <<Current, Depth>>
      /\ Tail(todo) \in Seq(Seq(Name) \X Nat) /\ Len(Tail(todo)) = Len(todo) - 1
      /\ \A i \in 1..Len(todo) - 1 : Tail(todo)[i] = todo[i + 1]
  BY <1>1, <1>2, HeadFacts DEF TInv
<1>4. ~Opened' /\ pc # "off" /\ Len(todo') >= Len(todo) - 1
  BY <1>1, <1>3 DEF Opened
<1>5. ASSUME NEW p \in DOMAIN at, CoveredBy(1, p) PROVE Len(p) > Limit
  <2>1. IsPrefix(Current, p)
    BY <1>3, <1>5 DEF CoveredBy
  <2>2. Depth > Limit
    BY <1>1, <1>2, <1>3, <2>1
  <2>3. Len(Current) <= Len(p) /\ Len(p) \in Nat /\ Len(Current) \in Nat
    BY <1>2, <1>3, <2>1, PrefixIs
  <2> QED
    BY <1>3, <2>2, <2>3, Constants
<1>6. ASSUME NEW p \in DOMAIN at PROVE Followed(p)'
  <2>1. Len(p) > Limit \/ Lost(p) \/ Placed(p) \/ Covered(p)
    BY <1>2 DEF FollowInv, Followed
  <2>2. (Lost(p) => Lost(p)') /\ (Placed(p) => Placed(p)')
    BY <1>1, KeepLost, KeepPlaced
  <2>3. Covered(p) /\ ~CoveredBy(1, p) => Covered(p)'
    BY <1>1, <1>2, <1>3, <1>4, ShiftCovered
  <2> QED
    BY <1>5, <2>1, <2>2, <2>3 DEF Followed
<1> QED
  BY <1>1, <1>6 DEF FollowInv

LEMMA ListFollow == ASSUME JInv, List PROVE FollowInv'
<1>1. /\ pc = "list" /\ pc' = "pop" /\ UNCHANGED <<at, fanq, marked, cache, chan, pending, lost>>
  BY DEF List, kernel
<1>2. /\ TInv /\ FollowInv /\ TreeType /\ DOMAIN at \subseteq Seq(Name)
      /\ \A p \in DOMAIN at : \A q \in Seq(Name) : IsPrefix(q, p) => q \in DOMAIN at
  BY TreeFacts DEF JInv, TInv
<1>3. todo # <<>> /\ ~Opened' /\ pc # "off" /\ Opened
  BY <1>1, <1>2 DEF TInv, WalkType, Opened
<1>4. Current \in Seq(Name) /\ Depth \in Nat /\ todo[1] = <<Current, Depth>>
  BY <1>2, <1>3, HeadFacts DEF TInv
<1>5. /\ todo' \in Seq(Seq(Name) \X Nat) /\ Len(todo') >= Len(todo) - 1
      /\ \A i \in 1..Len(todo) - 1 : todo'[i] = todo[i + 1]
      /\ \A c \in Children(Current) : \E i \in DOMAIN todo' : todo'[i] = <<c, Depth + 1>>
  BY <1>2, ListFacts
<1>6. ASSUME NEW p \in DOMAIN at, CoveredBy(1, p) PROVE Covered(p)'
  <2>1. IsPrefix(Current, p) /\ Current # p
    BY <1>3, <1>4, <1>6 DEF CoveredBy
  <2>2. PICK c \in Seq(Name) : c # <<>> /\ Front(c) = Current /\ IsPrefix(c, p)
    BY <1>2, <1>4, <2>1, ChildAbove
  <2>3. c \in Children(Current)
    BY <1>2, <2>2 DEF Children, Root
  <2>4. PICK i \in DOMAIN todo' : todo'[i] = <<c, Depth + 1>>
    BY <1>5, <2>3
  <2>5. todo'[i][1] = c /\ todo'[i][2] > 0
    BY <1>4, <2>4
  <2>6. CoveredBy(i, p)'
    BY <1>3, <2>2, <2>5 DEF CoveredBy
  <2> QED
    BY <2>6 DEF Covered
<1>7. ASSUME NEW p \in DOMAIN at PROVE Followed(p)'
  <2>1. Len(p) > Limit \/ Lost(p) \/ Placed(p) \/ Covered(p)
    BY <1>2 DEF FollowInv, Followed
  <2>2. (Lost(p) => Lost(p)') /\ (Placed(p) => Placed(p)')
    BY <1>1, KeepLost, KeepPlaced
  <2>3. Covered(p) /\ ~CoveredBy(1, p) => Covered(p)'
    BY <1>1, <1>2, <1>3, <1>5, ShiftCovered
  <2> QED
    BY <1>6, <2>1, <2>2, <2>3 DEF Followed
<1> QED
  BY <1>1, <1>7 DEF FollowInv

LEMMA TakeFollow == ASSUME JInv, TakeEvent \/ TakeInotify PROVE FollowInv'
<1>1. TInv /\ FollowInv /\ TreeType /\ DOMAIN at \subseteq Seq(Name) /\ chan \in Seq(Seq(Name))
  BY TreeFacts DEF JInv, TInv, QueueType
<1>2. PICK t : MarkNew(t) /\ (t = Head(chan) \/ chan' = chan)
  BY <1>1, TakeCases
<1>3. /\ pc = "idle" /\ (chan' = chan \/ (chan # <<>> /\ chan' = Tail(chan)))
      /\ UNCHANGED <<at, fanq, cache, pending>>
  BY <1>1, TakeCases
<1>4. todo = <<>>
  BY <1>1, <1>3 DEF TInv, WalkType
(* The event that is taken covers what is below its path. *)
<1>5. ASSUME NEW p \in DOMAIN at, Covered(p), ~(t \in DOMAIN at /\ IsPrefix(t, p))
      PROVE  Covered(p)'
  <2>1. ASSUME NEW i \in DOMAIN chan, IsPrefix(chan[i], p) PROVE \E j \in DOMAIN chan' : IsPrefix(chan'[j], p)
    <3>1. CASE chan' = chan
      BY <2>1, <3>1
    <3>2. CASE chan' # chan
      <4>1. chan # <<>> /\ chan' = Tail(chan) /\ t = chan[1]
        BY <1>1, <1>2, <1>3, <3>2
      <4>2. i # 1
        <5>1. ASSUME i = 1 PROVE FALSE
          <6>1. t \in Seq(Name) /\ IsPrefix(t, p)
            BY <1>1, <2>1, <4>1, <5>1
          <6>2. t \in DOMAIN at
            BY <1>1, <6>1, TreeFacts
          <6> QED
            BY <1>5, <6>1, <6>2
        <5> QED
          BY <5>1
      <4> DEFINE j == i - 1
      <4>3. j \in 1..Len(chan) - 1 /\ j + 1 = i
        BY <1>1, <4>2
      <4> HIDE DEF j
      <4>4. j \in DOMAIN Tail(chan) /\ Tail(chan)[j] = chan[j + 1]
        BY <1>1, <4>1, <4>3
      <4> QED
        BY <2>1, <4>1, <4>3, <4>4
    <3> QED
      BY <3>1, <3>2
  <2>2. \A q : Told(q) => Told(q)'
    BY <1>3, KeepTold
  <2>3. \A i : ~CoveredBy(i, p)
    BY <1>4 DEF CoveredBy
  <2> QED
    BY <1>3, <1>5, <2>1, <2>2, <2>3 DEF Covered
<1>6. ASSUME NEW p \in DOMAIN at PROVE Followed(p)'
  <2>1. Len(p) > Limit \/ Lost(p) \/ Placed(p) \/ Covered(p)
    BY <1>1 DEF FollowInv, Followed
  <2>2. marked \subseteq marked' /\ lost \subseteq lost'
    BY <1>2, MarkNewCases
  <2>3. (Lost(p) => Lost(p)') /\ (Placed(p) => Placed(p)')
    BY <1>3, <2>2, KeepLost, KeepPlaced
  <2>4. CASE ~(t \in DOMAIN at /\ IsPrefix(t, p))
    BY <1>5, <2>1, <2>3, <2>4 DEF Followed
  <2>5. CASE t \in DOMAIN at /\ IsPrefix(t, p)
    <3>1. CASE marked' = marked \cup {at[t]} /\ pc' = "cache" /\ todo' = <<<<t, 0>>>>
      <4>1. 1 \in DOMAIN todo' /\ todo'[1][1] = t
        BY <3>1
      <4>2. t # p \/ (~Opened' /\ at'[p] \in marked')
        BY <1>3, <3>1 DEF Opened
      <4>3. CoveredBy(1, p)'
        BY <2>5, <4>1, <4>2 DEF CoveredBy
      <4> QED
        BY <4>1, <4>3 DEF Covered, Followed
    <3>2. CASE lost' = lost \cup DirsBelow(at[t])
      <4>1. at[p] \in lost'
        BY <1>1, <2>5, <3>2, LostBelow
      <4>2. Lost(p)'
        BY <1>1, <1>3, <4>1, LostNow
      <4> QED
        BY <4>2 DEF Followed
    <3> QED
      BY <1>2, <2>5, <3>1, <3>2, MarkNewCases
  <2> QED
    BY <2>4, <2>5
<1> QED
  BY <1>3, <1>6 DEF FollowInv

(* What covers a path of todo covers what is below it. *)
LEMMA CoveredDown ==
    ASSUME TInv, NEW r \in DOMAIN at, NEW p \in DOMAIN at, IsPrefix(r, p), r # p,
           NEW i, CoveredBy(i, r)
    PROVE  CoveredBy(i, p)
<1>1. r \in Seq(Name) /\ p \in Seq(Name)
  BY TreeFacts DEF TInv
<1>2. i \in DOMAIN todo /\ todo[i][1] \in Seq(Name) /\ IsPrefix(todo[i][1], r)
  BY DEF CoveredBy, TInv, WalkType
<1>3. IsPrefix(todo[i][1], p)
  BY <1>1, <1>2, PrefixOrder
<1>4. todo[i][1] # p
  <2>1. ASSUME todo[i][1] = p PROVE FALSE
    <3>1. Len(p) <= Len(r)
      BY <1>1, <1>2, <2>1, PrefixIs
    <3>2. r = p
      BY <1>1, <3>1, PrefixOrder
    <3> QED
      BY <3>2
  <2> QED
    BY <2>1
<1> QED
  BY <1>2, <1>3, <1>4 DEF CoveredBy

(* A path is below its parent, which is followed: what the parent's state  *)
(* says of the path.                                                       *)
LEMMA ByParent ==
    ASSUME JInv, NEW q \in DOMAIN at, q # Root, NEW p \in DOMAIN at, IsPrefix(q, p)
    PROVE  /\ Front(q) \in DOMAIN at /\ IsPrefix(Front(q), p) /\ Front(q) # p
           /\ IsPrefix(Front(q), q) /\ Front(q) # q
           /\ Len(Front(q)) > Limit => Len(p) > Limit
           /\ Lost(Front(q)) => Lost(p)
<1>1. /\ TreeType /\ DOMAIN at \subseteq Seq(Name) /\ Front(q) \in DOMAIN at
  BY TreeFacts DEF JInv, TInv
<1>2. IsPrefix(Front(q), q) /\ ~IsPrefix(q, Front(q))
  BY <1>1, PrefixStep DEF Root
<1>3. IsPrefix(Front(q), p)
  BY <1>1, <1>2, PrefixOrder
<1>4. Front(q) # p /\ Front(q) # q
  BY <1>2
<1>5. Len(Front(q)) > Limit => Len(p) > Limit
  <2>1. Len(Front(q)) \in Nat /\ Len(p) \in Nat /\ Len(Front(q)) <= Len(p)
    BY <1>1, <1>3, PrefixIs
  <2> QED
    BY <2>1, Constants
<1>6. Lost(Front(q)) => Lost(p)
  BY <1>1, <1>3, LostDown
<1> QED
  BY <1>1, <1>2, <1>3, <1>4, <1>5, <1>6

LEMMA ReadFollow == ASSUME JInv, Read PROVE FollowInv'
<1>1. PICK e \in Event :
      /\ e = fanq[1] /\ fanq # <<>> /\ fanq' = Tail(fanq)
      /\ chan' = IF Decodes(e) THEN Append(chan, Resolve(NewPlace(e))) ELSE chan
      /\ lost' = IF Decodes(e) THEN lost ELSE lost \cup DirsBelow(e.dir)
      /\ UNCHANGED <<at, marked, cache, pc, todo, pending>>
  <2>1. fanq \in Seq(Event) /\ fanq # <<>>
    BY DEF Read, JInv, TInv, QueueType
  <2>2. Head(fanq) \in Event /\ Head(fanq) = fanq[1]
    BY <2>1
  <2> QED
    BY <2>1, <2>2 DEF Read, walk
<1>2. /\ TInv /\ FollowInv /\ TreeType /\ DOMAIN at \subseteq Seq(Name)
      /\ fanq \in Seq(Event) /\ chan \in Seq(Seq(Name))
      /\ \A p, q \in DOMAIN at : at[p] = at[q] => p = q
  BY TreeFacts DEF JInv, TInv, QueueType, TreeType
<1>3. /\ lost \subseteq lost'
      /\ DOMAIN chan \subseteq DOMAIN chan' /\ \A i \in DOMAIN chan : chan'[i] = chan[i]
  <2>1. CASE Decodes(e)
    BY <1>1, <1>2, <2>1
  <2>2. CASE ~Decodes(e)
    BY <1>1, <2>2
  <2> QED
    BY <2>1, <2>2
<1>4. ASSUME NEW q, NEW i \in DOMAIN fanq, i # 1, ToldBy(fanq[i], q) PROVE Told(q)'
  <2> DEFINE j == i - 1
  <2>1. j \in 1..Len(fanq) - 1 /\ j + 1 = i
    BY <1>2, <1>4
  <2> HIDE DEF j
  <2>2. j \in DOMAIN Tail(fanq) /\ Tail(fanq)[j] = fanq[j + 1]
    BY <1>1, <1>2, <2>1
  <2>3. j \in DOMAIN fanq' /\ fanq'[j] = fanq[i]
    BY <1>1, <2>1, <2>2
  <2>4. ToldBy(fanq[j], q)'
    BY <1>1, <1>4, <2>3 DEF ToldBy, NewPlace
  <2> QED
    BY <2>3, <2>4 DEF Told
<1>5. ASSUME NEW p \in DOMAIN at, NEW i, CoveredBy(i, p) PROVE CoveredBy(i, p)'
  BY <1>1, <1>5 DEF CoveredBy, Opened
(* What the event said of the directory at q is passed on, or is lost.     *)
<1>6. ASSUME NEW q \in DOMAIN at, q # Root, ToldBy(e, q), NEW p \in DOMAIN at, IsPrefix(q, p)
      PROVE  Followed(p)'
  <2>1. CASE ~Decodes(e)
    <3>1. at[p] \in lost'
      BY <1>1, <1>2, <1>6, <2>1, LostBelow DEF ToldBy
    <3>2. Lost(p)'
      BY <1>1, <1>2, <3>1, LostNow
    <3> QED
      BY <3>2 DEF Followed
  <2>2. CASE Decodes(e)
    <3> DEFINE f == Front(q)
    <3>1. NewPlace(e) = <<at[f], Last(q)>> /\ at[f] \in DOMAIN cache
      BY <1>6, <2>2 DEF ToldBy, Decodes, Known
    <3>2. chan' = Append(chan, Append(cache[at[f]], Last(q)))
      BY <1>1, <2>2, <3>1 DEF Resolve
    <3>3. /\ f \in DOMAIN at /\ IsPrefix(f, p) /\ f # p /\ f # q /\ IsPrefix(f, q)
          /\ (Len(f) > Limit => Len(p) > Limit) /\ (Lost(f) => Lost(p))
      BY <1>6, ByParent
    <3>4. CASE cache[at[f]] = f
      <4>1. Append(f, Last(q)) = q
        BY <1>2, <1>6, TreeFacts
      <4>2. Len(chan) + 1 \in DOMAIN chan' /\ chan'[Len(chan) + 1] = q
        BY <1>2, <3>2, <3>4, <4>1
      <4>3. Covered(p)'
        BY <1>6, <4>2 DEF Covered
      <4> QED
        BY <4>3 DEF Followed
    <3>5. CASE cache[at[f]] # f
      <4>1. ~Placed(f)
        BY <3>5 DEF Placed
      <4>2. Len(f) > Limit \/ Lost(f) \/ Covered(f)
        BY <1>2, <3>3, <4>1 DEF FollowInv, Followed
      <4>3. CASE Len(f) > Limit
        BY <3>3, <4>3 DEF Followed
      <4>4. CASE Lost(f)
        BY <1>1, <1>3, <3>3, <4>4, KeepLost DEF Followed
      <4>5. CASE Covered(f)
        <5>1. CASE pc = "off"
          BY <1>1, <5>1 DEF Covered, Followed
        <5>2. ASSUME NEW i \in DOMAIN chan, IsPrefix(chan[i], f) PROVE Covered(p)'
          <6>1. chan[i] \in Seq(Name) /\ IsPrefix(chan[i], p)
            BY <1>2, <3>3, <5>2, PrefixOrder
          <6> QED
            BY <1>3, <6>1 DEF Covered
        <5>3. ASSUME NEW s \in DOMAIN at, s # Root, IsPrefix(s, f), Told(s) PROVE Covered(p)'
          <6>1. PICK i \in DOMAIN fanq : ToldBy(fanq[i], s)
            BY <5>3 DEF Told
          <6>2. s # q
            <7>1. s \in Seq(Name) /\ f \in Seq(Name) /\ q \in Seq(Name)
              BY <1>2, <3>3
            <7>2. ASSUME s = q PROVE FALSE
              <8>1. IsPrefix(q, f)
                BY <5>3, <7>2
              <8>2. Len(q) <= Len(f)
                BY <7>1, <8>1, PrefixIs
              <8>3. f = q
                BY <3>3, <7>1, <8>2, PrefixOrder
              <8> QED
                BY <3>3, <8>3
            <7> QED
              BY <7>2
          <6>3. i # 1
            BY <1>1, <1>2, <1>6, <6>1, <6>2 DEF ToldBy
          <6>4. Told(s)'
            BY <1>4, <6>1, <6>3
          <6>5. IsPrefix(s, p)
            BY <1>2, <3>3, <5>3, PrefixOrder
          <6> QED
            BY <1>1, <5>3, <6>4, <6>5 DEF Covered
        <5>4. ASSUME NEW i \in DOMAIN todo, CoveredBy(i, f) PROVE Covered(p)'
          <6>1. CoveredBy(i, p)'
            BY <1>2, <1>5, <3>3, <5>4, CoveredDown
          <6> QED
            BY <1>1, <6>1 DEF Covered
        <5> QED
          BY <4>5, <5>1, <5>2, <5>3, <5>4 DEF Covered, Followed
      <4> QED
        BY <4>2, <4>3, <4>4, <4>5
    <3> QED
      BY <3>4, <3>5
  <2> QED
    BY <2>1, <2>2
<1>7. ASSUME NEW p \in DOMAIN at PROVE Followed(p)'
  <2>1. Len(p) > Limit \/ Lost(p) \/ Placed(p) \/ Covered(p)
    BY <1>2 DEF FollowInv, Followed
  <2>2. (Lost(p) => Lost(p)') /\ (Placed(p) => Placed(p)')
    BY <1>1, <1>3, KeepLost, KeepPlaced
  <2>3. CASE Covered(p)
    <3>1. CASE pc = "off"
      BY <1>1, <3>1 DEF Covered, Followed
    <3>2. CASE \E i \in DOMAIN chan : IsPrefix(chan[i], p)
      BY <1>3, <3>2 DEF Covered, Followed
    <3>3. ASSUME NEW q \in DOMAIN at, q # Root, IsPrefix(q, p), Told(q) PROVE Followed(p)'
      <4>1. PICK i \in DOMAIN fanq : ToldBy(fanq[i], q)
        BY <3>3 DEF Told
      <4>2. CASE i = 1
        BY <1>1, <1>6, <3>3, <4>1, <4>2
      <4>3. CASE i # 1
        BY <1>1, <1>4, <3>3, <4>1, <4>3 DEF Covered, Followed
      <4> QED
        BY <4>2, <4>3
    <3>4. CASE \E i \in DOMAIN todo : CoveredBy(i, p)
      BY <1>1, <1>5, <3>4 DEF Covered, Followed
    <3> QED
      BY <2>3, <3>1, <3>2, <3>3, <3>4 DEF Covered
  <2> QED
    BY <2>1, <2>2, <2>3 DEF Followed
<1> QED
  BY <1>1, <1>7 DEF FollowInv

(* A queue that grew, and a tree that is the same at a path and above it.  *)
Extends(s, t)      == \A i \in DOMAIN s : i \in DOMAIN t /\ t[i] = s[i]
SameAbove(f, g, p) == \A r \in DOMAIN f : IsPrefix(r, p) => r \in DOMAIN g /\ g[r] = f[r]

LEMMA SameTold ==
    ASSUME TreeType, NEW q \in DOMAIN at, q # Root, Told(q),
           Extends(fanq, fanq'), SameAbove(at, at', q)
    PROVE  Told(q)'
<1>1. Front(q) \in DOMAIN at /\ IsPrefix(Front(q), q) /\ IsPrefix(q, q)
  BY TreeFacts, PrefixStep, PrefixOrder DEF Root
<1>2. at'[q] = at[q] /\ at'[Front(q)] = at[Front(q)]
  BY <1>1 DEF SameAbove
<1>3. PICK i \in DOMAIN fanq : ToldBy(fanq[i], q)
  BY DEF Told
<1>4. i \in DOMAIN fanq' /\ fanq'[i] = fanq[i]
  BY DEF Extends
<1>5. ToldBy(fanq[i], q)'
  BY <1>2, <1>3, <1>4 DEF ToldBy, NewPlace
<1> QED
  BY <1>4, <1>5 DEF Told

LEMMA SameLost ==
    ASSUME NEW p, Lost(p), lost \subseteq lost', SameAbove(at, at', p)
    PROVE  Lost(p)'
<1>1. PICK q \in DOMAIN at : IsPrefix(q, p) /\ at[q] \in lost
  BY DEF Lost
<1>2. q \in DOMAIN at' /\ at'[q] = at[q]
  BY <1>1 DEF SameAbove
<1> QED
  BY <1>1, <1>2 DEF Lost

LEMMA SameAboveDown ==
    ASSUME TreeType, NEW p \in DOMAIN at, NEW q \in DOMAIN at, IsPrefix(q, p),
           SameAbove(at, at', p)
    PROVE  SameAbove(at, at', q)
<1>1. DOMAIN at \subseteq Seq(Name)
  BY TreeFacts
<1>2. \A r \in DOMAIN at : IsPrefix(r, q) => IsPrefix(r, p)
  BY <1>1, PrefixOrder
<1> QED
  BY <1>2 DEF SameAbove

(* A directory whose place, and those above it, stay. *)
LEMMA StayFollows ==
    ASSUME JInv, NEW p \in DOMAIN at, SameAbove(at, at', p), Extends(fanq, fanq'),
           lost \subseteq lost', UNCHANGED <<chan, todo, pc, pending, cache>>,
           at[p] \in marked => at[p] \in marked'
    PROVE  Followed(p)'
<1>1. TreeType /\ DOMAIN at \subseteq Seq(Name) /\ (Len(p) > Limit \/ Lost(p) \/ Placed(p) \/ Covered(p))
  BY TreeFacts DEF JInv, TInv, FollowInv, Followed
<1>2. p \in DOMAIN at' /\ at'[p] = at[p]
  BY <1>1, PrefixOrder DEF SameAbove
<1>3. CASE Len(p) > Limit
  BY <1>3 DEF Followed
<1>4. CASE Lost(p)
  BY <1>4, SameLost DEF Followed
<1>5. CASE Placed(p)
  <2>1. Placed(p)'
    BY <1>2, <1>5 DEF Placed
  <2> QED
    BY <2>1 DEF Followed
<1>6. CASE Covered(p)
  <2>1. ASSUME NEW q \in DOMAIN at, q # Root, IsPrefix(q, p), Told(q) PROVE Covered(p)'
    <3>1. Told(q)' /\ q \in DOMAIN at'
      BY <1>1, <2>1, SameAboveDown, SameTold DEF SameAbove
    <3> QED
      BY <2>1, <3>1 DEF Covered
  <2>2. ASSUME NEW i \in DOMAIN todo, CoveredBy(i, p) PROVE Covered(p)'
    <3>1. CoveredBy(i, p)'
      BY <1>2, <2>2 DEF CoveredBy, Opened
    <3> QED
      BY <3>1 DEF Covered
  <2> QED
    BY <1>6, <2>1, <2>2 DEF Covered, Followed
<1> QED
  BY <1>1, <1>3, <1>4, <1>5, <1>6

(* What appears below a directory that the walk is still to list, or that  *)
(* is lost or out of reach.                                                *)
Awaited(f) == Len(f) > Limit \/ Lost(f) \/ Covered(f) \/ (Opened /\ todo # <<>> /\ Current = f)

LEMMA AwaitedFollows ==
    ASSUME JInv, NEW f \in DOMAIN at, Awaited(f), NEW t \in Seq(Name), IsPrefix(f, t), f # t,
           SameAbove(at, at', f), Extends(fanq, fanq'), lost \subseteq lost',
           UNCHANGED <<chan, todo, pc>>
    PROVE  Followed(t)'
<1>1. /\ TreeType /\ DOMAIN at \subseteq Seq(Name) /\ f \in Seq(Name)
      /\ chan \in Seq(Seq(Name)) /\ todo \in Seq(Seq(Name) \X Nat)
  BY TreeFacts DEF JInv, TInv, QueueType, WalkType
<1>2. ASSUME NEW r \in Seq(Name), IsPrefix(r, f) PROVE IsPrefix(r, t) /\ r # t
  <2>1. IsPrefix(r, t)
    BY <1>1, <1>2, PrefixOrder
  <2>2. ASSUME r = t PROVE FALSE
    <3>1. Len(t) <= Len(f)
      BY <1>1, <1>2, <2>2, PrefixIs
    <3>2. f = t
      BY <1>1, <3>1, PrefixOrder
    <3> QED
      BY <3>2
  <2> QED
    BY <2>1, <2>2
<1>3. CASE Len(f) > Limit
  <2>1. Len(f) \in Nat /\ Len(t) \in Nat /\ Len(f) <= Len(t)
    BY <1>1, PrefixIs
  <2>2. Len(t) > Limit
    BY <1>3, <2>1, Constants
  <2> QED
    BY <2>2 DEF Followed
<1>4. CASE Lost(f)
  <2>1. PICK q \in DOMAIN at : IsPrefix(q, f) /\ at[q] \in lost
    BY <1>4 DEF Lost
  <2>2. q \in DOMAIN at' /\ at'[q] \in lost' /\ IsPrefix(q, t)
    BY <1>1, <1>2, <2>1 DEF SameAbove
  <2> QED
    BY <2>2 DEF Lost, Followed
<1>5. ASSUME NEW i \in DOMAIN todo, IsPrefix(todo[i][1], f) PROVE Covered(t)'
  <2>1. todo[i][1] \in Seq(Name)
    BY <1>1
  <2>2. IsPrefix(todo[i][1], t) /\ todo[i][1] # t
    BY <1>2, <1>5, <2>1
  <2>3. CoveredBy(i, t)'
    BY <2>2 DEF CoveredBy
  <2> QED
    BY <2>3 DEF Covered
<1>6. CASE Opened /\ todo # <<>> /\ Current = f
  <2>1. 1 \in DOMAIN todo /\ todo[1][1] = f
    BY <1>6, HeadFacts DEF JInv, TInv
  <2>2. IsPrefix(todo[1][1], f)
    BY <1>1, <2>1, PrefixOrder
  <2> QED
    BY <1>5, <2>1, <2>2 DEF Followed
<1>7. CASE Covered(f)
  <2>1. CASE pc = "off"
    BY <2>1 DEF Covered, Followed
  <2>2. ASSUME NEW i \in DOMAIN chan, IsPrefix(chan[i], f) PROVE Covered(t)'
    <3>1. IsPrefix(chan[i], t)
      BY <1>1, <1>2, <2>2
    <3> QED
      BY <3>1 DEF Covered
  <2>3. ASSUME NEW q \in DOMAIN at, q # Root, IsPrefix(q, f), Told(q) PROVE Covered(t)'
    <3>1. Told(q)' /\ q \in DOMAIN at'
      BY <1>1, <2>3, SameAboveDown, SameTold DEF SameAbove
    <3>2. IsPrefix(q, t)
      BY <1>1, <1>2, <2>3
    <3> QED
      BY <2>3, <3>1, <3>2 DEF Covered
  <2>4. ASSUME NEW i \in DOMAIN todo, CoveredBy(i, f) PROVE Covered(t)'
    BY <1>5, <2>4 DEF CoveredBy
  <2> QED
    BY <1>7, <2>1, <2>2, <2>3, <2>4 DEF Covered, Followed
<1> QED
  BY <1>3, <1>4, <1>6, <1>7 DEF Awaited

(* An event about a new place is queued, or what is there is lost, or the  *)
(* directory that it is in is followed without it.                         *)
LEMMA NotifyFollows ==
    ASSUME JInv, NEW q \in Path, q # Root, Front(q) \in DOMAIN at, NEW e \in Event,
           NewPlace(e) = Rec(q), NEW tree, Notify(e, q, tree)
    PROVE  /\ Extends(fanq, fanq') /\ lost \subseteq lost'
           /\ \/ \E i \in DOMAIN fanq' : fanq'[i] = e
              \/ tree \subseteq lost'
              \/ Awaited(Front(q))
<1> DEFINE f == Front(q)
           told == e.src # Nil \/ e.dst # Nil
<1>1. /\ fanq' = IF told /\ Len(fanq) < QueueMax THEN Append(fanq, e) ELSE fanq
      /\ lost' = IF Overlooked(at[f]) \/ (told /\ Len(fanq) = QueueMax) THEN lost \cup tree ELSE lost
  BY Zenon DEF Notify
<1>2. /\ fanq \in Seq(Event) /\ Len(fanq) \in Nat /\ Len(fanq) <= QueueMax
      /\ \A p, r \in DOMAIN at : at[p] = at[r] => p = r
  BY DEF JInv, TInv, QueueType, TreeType
<1>3. Len(f) > Limit \/ Lost(f) \/ Placed(f) \/ Covered(f)
  BY DEF JInv, FollowInv, Followed
<1>4. ~told => at[f] \notin marked
  <2>1. ~told => NewPlace(e) = Nil
    BY DEF NewPlace
  <2>2. <<at[f], Last(q)>> # Nil
    BY DEF Nil
  <2> QED
    BY <2>1, <2>2 DEF Rec
<1>5. ~Overlooked(at[f]) /\ Placed(f) /\ at[f] \notin marked => Awaited(f)
  <2>1. ASSUME at[f] \in pending, pc \in {"full", "list"}, Head(todo)[1] \in DOMAIN at,
               at[Head(todo)[1]] = at[f]
        PROVE  Awaited(f)
    <3>1. Current = f
      BY <1>2, <2>1 DEF Current
    <3>2. todo # <<>> /\ Opened
      BY <2>1 DEF JInv, TInv, WalkType, Opened
    <3> QED
      BY <3>1, <3>2 DEF Awaited
  <2> QED
    BY <2>1 DEF Overlooked, Placed
<1>6. CASE told /\ Len(fanq) < QueueMax
  <2>1. fanq' = Append(fanq, e) /\ lost \subseteq lost'
    BY <1>1, <1>6
  <2>2. Extends(fanq, fanq') /\ Len(fanq) + 1 \in DOMAIN fanq' /\ fanq'[Len(fanq) + 1] = e
    BY <1>2, <2>1 DEF Extends
  <2> QED
    BY <2>1, <2>2
<1>7. CASE told /\ ~(Len(fanq) < QueueMax)
  <2>1. Len(fanq) = QueueMax
    BY <1>2, <1>7, Constants
  <2>2. fanq' = fanq /\ lost' = lost \cup tree
    BY <1>1, <1>7, <2>1
  <2> QED
    BY <2>2 DEF Extends
<1>8. CASE ~told
  <2>1. fanq' = fanq /\ Extends(fanq, fanq')
    BY <1>1, <1>8 DEF Extends
  <2>2. CASE Overlooked(at[f])
    BY <1>1, <2>1, <2>2
  <2>3. CASE ~Overlooked(at[f])
    <3>1. lost' = lost
      BY <1>1, <1>8, <2>3
    <3>2. Awaited(f)
      BY <1>3, <1>4, <1>5, <1>8, <2>3 DEF Awaited
    <3> QED
      BY <2>1, <3>1, <3>2
  <2> QED
    BY <2>2, <2>3
<1> QED
  BY <1>6, <1>7, <1>8

LEMMA MkDirFollow == ASSUME JInv, NEW q \in Path, MkDir(q) PROVE FollowInv'
<1>1. PICK e : /\ e = [dir |-> next, src |-> Rec(q), dst |-> Nil, rename |-> FALSE]
               /\ Notify(e, q, {next})
  BY DEF MkDir
<1>2. /\ q # Root /\ q \notin DOMAIN at /\ Front(q) \in DOMAIN at
      /\ at' = [r \in DOMAIN at \cup {q} |-> IF r = q THEN next ELSE at[r]]
      /\ UNCHANGED <<marked, cache, chan, pc, todo, pending>>
  BY DEF MkDir, walk
<1>3. /\ TInv /\ DOMAIN at \subseteq Seq(Name) /\ q \in Seq(Name) /\ q # <<>>
  BY <1>2, Constants, PathIs, TreeFacts DEF JInv, TInv, Root
<1>4. e \in Event /\ e.dir = next /\ NewPlace(e) = Rec(q)
  <2>1. Rec(q) \in Record /\ next \in Dir /\ Nil \in Record
    BY <1>2, <1>3, RecordOf DEF TInv, TreeType, Dir, Record
  <2> QED
    BY <1>1, <2>1 DEF Event, NewPlace
<1>5. /\ Extends(fanq, fanq') /\ lost \subseteq lost'
      /\ \/ \E i \in DOMAIN fanq' : fanq'[i] = e
         \/ {next} \subseteq lost'
         \/ Awaited(Front(q))
  BY <1>1, <1>2, <1>4, NotifyFollows
<1>6. /\ DOMAIN at' = DOMAIN at \cup {q} /\ at'[q] = next /\ \A r \in DOMAIN at : at'[r] = at[r]
  BY <1>2
<1>7. \A p : SameAbove(at, at', p)
  BY <1>6 DEF SameAbove
<1>8. ASSUME NEW p \in DOMAIN at PROVE Followed(p)'
  BY <1>2, <1>5, <1>7, StayFollows
<1>9. Followed(q)'
  <2>1. IsPrefix(q, q) /\ IsPrefix(Front(q), q) /\ Front(q) # q
    BY <1>3, PrefixOrder, PrefixStep
  <2>2. CASE \E i \in DOMAIN fanq' : fanq'[i] = e
    <3>1. PICK i \in DOMAIN fanq' : fanq'[i] = e
      BY <2>2
    <3>2. NewPlace(e) \in {Nil, <<at'[Front(q)], Last(q)>>} /\ e.dir = at'[q]
      BY <1>2, <1>4, <1>6 DEF Rec
    <3>3. ToldBy(fanq[i], q)'
      BY <3>1, <3>2 DEF ToldBy, NewPlace
    <3>4. Told(q)'
      BY <3>1, <3>3 DEF Told
    <3> QED
      BY <1>2, <1>6, <2>1, <3>4 DEF Covered, Followed
  <2>3. CASE {next} \subseteq lost'
    BY <1>6, <2>1, <2>3 DEF Lost, Followed
  <2>4. CASE Awaited(Front(q))
    BY <1>2, <1>3, <1>5, <1>7, <2>1, <2>4, AwaitedFollows
  <2> QED
    BY <1>5, <2>2, <2>3, <2>4
<1> QED
  BY <1>6, <1>8, <1>9 DEF FollowInv

LEMMA RmDirFollow == ASSUME JInv, NEW d \in DOMAIN at, RmDir(d) PROVE FollowInv'
<1>1. /\ Below(d) = {d} /\ at' = [q \in DOMAIN at \ {d} |-> at[q]]
      /\ marked' = marked \ {at[d]}
      /\ UNCHANGED <<cache, fanq, chan, pc, todo, pending, lost>>
  BY DEF RmDir, walk
<1>2. /\ DOMAIN at' = DOMAIN at \ {d} /\ \A r \in DOMAIN at \ {d} : at'[r] = at[r]
      /\ \A p, r \in DOMAIN at : at[p] = at[r] => p = r
  BY <1>1 DEF JInv, TInv, TreeType
<1>3. ASSUME NEW p \in DOMAIN at', NEW r \in DOMAIN at, IsPrefix(r, p)
      PROVE  r \in DOMAIN at' /\ at'[r] = at[r]
  <2>1. p \in DOMAIN at /\ p # d
    BY <1>2
  <2>2. r # d
    <3>1. ASSUME r = d PROVE FALSE
      <4>1. p \in Below(d)
        BY <1>3, <2>1, <3>1 DEF Below
      <4> QED
        BY <1>1, <2>1, <4>1
    <3> QED
      BY <3>1
  <2> QED
    BY <1>2, <2>2
<1>4. ASSUME NEW p \in DOMAIN at' PROVE Followed(p)'
  <2>1. p \in DOMAIN at /\ SameAbove(at, at', p)
    BY <1>2, <1>3 DEF SameAbove
  <2>2. Extends(fanq, fanq') /\ lost \subseteq lost'
    BY <1>1 DEF Extends
  <2>3. at[p] \in marked => at[p] \in marked'
    BY <1>1, <1>2, <2>1
  <2> QED
    BY <1>1, <2>1, <2>2, <2>3, StayFollows
<1> QED
  BY <1>4 DEF FollowInv

LEMMA RenameFollow == ASSUME JInv, NEW p \in Path, NEW q \in Path, Rename(p, q) PROVE FollowInv'
<1>1. PICK e : /\ e = [dir |-> at[p], src |-> Rec(p), dst |-> Rec(q), rename |-> TRUE]
               /\ Notify(e, q, DirsBelow(at[p]))
  BY DEF Rename
<1>2. UNCHANGED <<marked, cache, chan, pc, todo, pending>>
  BY DEF Rename, walk
<1>3. /\ p \in DOMAIN at /\ q \notin DOMAIN at /\ Front(q) \in Here(p)
      /\ p # Root /\ q # Root /\ p \in Seq(Name) /\ q \in Seq(Name)
      /\ DOMAIN at' = {Moved(r, p, q) : r \in Below(p)} \cup Here(p)
      /\ \A r \in Here(p) : at'[r] = at[r]
      /\ \A r \in Below(p) : at'[Moved(r, p, q)] = at[r]
  BY RenameFacts DEF JInv, TInv
<1>4. /\ TInv /\ TreeType /\ DOMAIN at \subseteq Seq(Name) /\ q # <<>>
      /\ Front(p) \in DOMAIN at /\ Front(q) \in DOMAIN at
  BY <1>3, TreeFacts DEF JInv, TInv, Root, Here
<1>5. e \in Event /\ e.dir = at[p] /\ NewPlace(e) = Rec(q)
  <2>1. Rec(p) \in Record /\ Rec(q) \in Record /\ at[p] \in Dir
    BY <1>3, <1>4, RecordOf DEF TreeType, Dir
  <2> QED
    BY <1>1, <2>1 DEF Event, NewPlace
<1>6. /\ Extends(fanq, fanq') /\ lost \subseteq lost'
      /\ \/ \E i \in DOMAIN fanq' : fanq'[i] = e
         \/ DirsBelow(at[p]) \subseteq lost'
         \/ Awaited(Front(q))
  BY <1>1, <1>3, <1>4, <1>5, NotifyFollows
<1>7. ASSUME NEW s \in Here(p) PROVE SameAbove(at, at', s)
  <2>1. s \in DOMAIN at /\ ~IsPrefix(p, s)
    BY DEF Here, Below
  <2>2. ASSUME NEW r \in DOMAIN at, IsPrefix(r, s) PROVE r \in Here(p)
    <3>1. ~IsPrefix(p, r)
      BY <1>3, <1>4, <2>1, <2>2, PrefixOrder
    <3> QED
      BY <3>1 DEF Here, Below
  <2>3. Here(p) \subseteq DOMAIN at'
    BY <1>3
  <2> QED
    BY <1>3, <2>2, <2>3 DEF SameAbove
<1>8. ASSUME NEW s \in Here(p) PROVE Followed(s)'
  <2>1. s \in DOMAIN at /\ SameAbove(at, at', s)
    BY <1>7 DEF Here
  <2> QED
    BY <1>2, <1>6, <2>1, StayFollows
<1>9. ASSUME NEW r \in Below(p) PROVE Followed(Moved(r, p, q))'
  <2> DEFINE t == Moved(r, p, q)
  <2>1. t \in Seq(Name) /\ IsPrefix(q, t)
    BY <1>3, <1>4, MovedFacts DEF Below
  <2>2. q \in DOMAIN at' /\ at'[q] = at[p]
    <3>1. p \in Below(p)
      BY <1>3, PrefixOrder DEF Below
    <3>2. Moved(p, p, q) = q
      BY <1>3, MovedTop
    <3> QED
      BY <1>3, <3>1, <3>2
  <2> HIDE DEF t
  <2>3. CASE \E i \in DOMAIN fanq' : fanq'[i] = e
    <3>1. PICK i \in DOMAIN fanq' : fanq'[i] = e
      BY <2>3
    <3>2. NewPlace(e) \in {Nil, <<at'[Front(q)], Last(q)>>} /\ e.dir = at'[q]
      BY <1>3, <1>5, <2>2 DEF Rec
    <3>3. ToldBy(fanq[i], q)'
      BY <3>1, <3>2 DEF ToldBy, NewPlace
    <3>4. Told(q)'
      BY <3>1, <3>3 DEF Told
    <3>5. Followed(t)'
      BY <1>3, <2>1, <2>2, <3>4 DEF Covered, Followed
    <3> QED
      BY <3>5 DEF t
  <2>4. CASE DirsBelow(at[p]) \subseteq lost'
    <3>1. at[p] \in DirsBelow(at[p])
      BY <1>3, <1>4, LostBelow, PrefixOrder
    <3>2. Followed(t)'
      BY <2>1, <2>2, <2>4, <3>1 DEF Lost, Followed
    <3> QED
      BY <3>2 DEF t
  <2>5. CASE Awaited(Front(q))
    <3>1. IsPrefix(Front(q), q) /\ ~IsPrefix(q, Front(q)) /\ Front(q) \in Seq(Name)
      BY <1>3, <1>4, PrefixStep
    <3>2. IsPrefix(Front(q), t) /\ Front(q) # t
      BY <1>3, <2>1, <3>1, PrefixOrder
    <3>3. SameAbove(at, at', Front(q))
      BY <1>3, <1>7
    <3>4. Followed(t)'
      BY <1>2, <1>4, <1>6, <2>1, <2>5, <3>2, <3>3, AwaitedFollows
    <3> QED
      BY <3>4 DEF t
  <2> QED
    BY <1>6, <2>3, <2>4, <2>5
<1> QED
  BY <1>3, <1>8, <1>9 DEF FollowInv

LEMMA FollowKept == JInv /\ [Next]_vars => JInv'
<1> SUFFICES ASSUME JInv, [Next]_vars PROVE JInv'
  OBVIOUS
<1>1. TInv'
  BY TypesKept DEF JInv
<1>2. FollowInv'
  <2>1. CASE FileSystem
    <3>1. CASE \E q \in Path : MkDir(q)
      BY <3>1, MkDirFollow
    <3>2. CASE \E p \in DOMAIN at : RmDir(p)
      BY <3>2, RmDirFollow
    <3>3. CASE \E p, q \in Path : Rename(p, q)
      BY <3>3, RenameFollow
    <3> QED
      BY <2>1, <3>1, <3>2, <3>3 DEF FileSystem
  <2>2. CASE Read
    BY <2>2, ReadFollow
  <2>3. CASE \E d \in DOMAIN cache : Expire(d)
    BY <2>3, ExpireFollow
  <2>4. CASE StartUp \/ AddPath
    BY <2>4, StartFollow
  <2>5. CASE TakeEvent \/ TakeInotify
    BY <2>5, TakeFollow
  <2>6. CASE CacheNew
    BY <2>6, CacheNewFollow
  <2>7. CASE FlushLevel \/ FlushFull
    BY <2>7, FlushFollow
  <2>8. CASE Skip
    BY <2>8, SkipFollow
  <2>9. CASE OpenDir
    BY <2>9, OpenDirFollow
  <2>10. CASE List
    BY <2>10, ListFollow
  <2>11. CASE SetupWatches \/ WatchNew \/ WalkEnd \/ UNCHANGED vars
    BY <2>11, RestFollow
  <2> QED
    BY <2>1, <2>2, <2>3, <2>4, <2>5, <2>6, <2>7, <2>8, <2>9, <2>10, <2>11 DEF Next, Walk
<1> QED
  BY <1>1, <1>2 DEF JInv

(* The daemon keeps up with the tree: when it has nothing left to do,      *)
(* every directory within max_depth has its mark and is in the cache at    *)
(* the place where it is now, except those that it lost sight of in one    *)
(* of the ways that TreeFollowed names, and those below them.              *)
THEOREM TreeIsFollowed == Spec => []TreeFollowed
<1>1. Init => JInv
  <2>1. Init => \A p \in DOMAIN at : Covered(p)
    BY DEF Init, Covered
  <2> QED
    BY <2>1, InitTypes DEF JInv, FollowInv, Followed
<1>2. JInv => TreeFollowed
  <2> SUFFICES ASSUME JInv, AtRest, NEW p \in DOMAIN at
               PROVE  \/ Len(p) > Limit
                      \/ \E q \in DOMAIN at : IsPrefix(q, p) /\ at[q] \in lost
                      \/ at[p] \in marked /\ at[p] \in DOMAIN cache /\ cache[at[p]] = p
    BY DEF TreeFollowed
  <2>1. todo = <<>> /\ pending = {}
    BY DEF JInv, TInv, WalkType, AtRest
  <2>2. fanq = <<>> /\ chan = <<>> /\ pc # "off"
    BY DEF AtRest
  <2>3. ~Covered(p)
    BY <2>1, <2>2 DEF Covered, Told
  <2> QED
    BY <2>1, <2>3 DEF JInv, FollowInv, Followed, Lost, Placed
<1> QED
  BY <1>1, <1>2, FollowKept, PTL DEF Spec
=============================================================================
