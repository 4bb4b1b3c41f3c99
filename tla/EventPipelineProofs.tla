------------------------ MODULE EventPipelineProofs ------------------------
(***************************************************************************)
(* No file event that the decoder can place is missed on its way to the    *)
(* stream, and the events of a group keep their order (IInv, in which the  *)
(* tracker plays no part); the descendants of a cmd are included and the   *)
(* topology is known (KInv, which adds the tracker).  For every number of  *)
(* groups, processes and events, and every capacity of the channel and the *)
(* socket.                                                                 *)
(***************************************************************************)
EXTENDS EventPipeline, SequenceTheorems, WellFoundedInduction, TLAPS

(* The order of a sequence, and of two sets, in a relation R. *)
Chain(s, R)     == \A i, j \in 1..Len(s) : i < j => <<s[i], s[j]>> \in R
Before(A, B, R) == \A a \in A, b \in B : <<a, b>> \in R

(* The order of the events v of one group, and of their records. *)
Older(v) ==
    {p \in Event \X Event : v[p[1]].group = v[p[2]].group => p[1] < p[2]}
Follows(v, a, b) ==
    a.entry = b.entry /\ v[a.id].group = v[b.id].group =>
      a.id < b.id \/ (a.id = b.id /\ a.side = "from" /\ b.side = "to")
Following(v) == {p \in Record \X Record : Follows(v, p[1], p[2])}

-----------------------------------------------------------------------------
(* The inductive invariant.                                                *)

Happening == [group : Group, by : Proc, kind : Kind, of : SUBSET Proc]

FlowType ==
    /\ running \subseteq Proc /\ named \subseteq Proc
    /\ ev \in Seq(Happening) /\ Len(ev) <= MaxEvents
    /\ kq \in [Group -> Seq(Event)] /\ hand \in [Group -> Seq(Event)]
    /\ chan \in Seq(Seq(Event)) /\ batch \in Seq(Event)
    /\ pend \in Seq(Record) /\ stream \in Seq(Record)

(* Between two batches nothing is left of one. *)
LoopInv == pc # "process" => batch = <<>> /\ pend = <<>>

(* The stages on an event's way. *)
Queued  == UNION {Range(kq[g]) : g \in Group}
Held    == UNION {Range(hand[g]) : g \in Group}
InChan  == UNION {Range(c) : c \in Range(chan)}
Waiting == Range(batch) \cup InChan \cup Held \cup Queued
Rec     == Range(pend) \cup Range(stream)
Ids     == {r.id : r \in Rec}

HomeInv ==
    /\ Waiting \cup Ids \subseteq 1..Len(ev)
    /\ \A g \in Group : \A e \in Range(kq[g]) \cup Range(hand[g]) : ev[e].group = g

(* The events of a group are in order within each stage, and those of a    *)
(* later stage are older.                                                  *)
InOrder(s) == Chain(s, Older(ev))
Ahead(A, B) == Before(A, B, Older(ev))
StagesInv ==
    /\ \A g \in Group : InOrder(kq[g]) /\ InOrder(hand[g])
    /\ \A i \in 1..Len(chan) : InOrder(chan[i])
    /\ \A i, j \in 1..Len(chan) : i < j => Ahead(Range(chan[i]), Range(chan[j]))
    /\ InOrder(batch)
    /\ Ahead(Held, Queued)
    /\ Ahead(InChan, Held \cup Queued)
    /\ Ahead(Range(batch), InChan \cup Held \cup Queued)
    /\ Ahead(Ids, Waiting)

(* The same of their records. *)
RecordInv ==
    /\ Chain(stream, Following(ev)) /\ Chain(pend, Following(ev))
    /\ Before(Range(stream), Range(pend), Following(ev))

(* An event that has left the stages is recorded, or was windowed. *)
Has(R, e, s)    == \E r \in R : r.id = e /\ r.side = s /\ r.entry = "_global"
HasCmd(R, e, s) == \E r \in R : r.id = e /\ r.side = s /\ r.entry = "cmd"
MissInv ==
    \A e \in 1..Len(ev) :
      e \in Waiting \cup windowed \/ \A s \in Sides(e) : Has(Rec, e, s)

IInv == FlowType /\ LoopInv /\ HomeInv /\ StagesInv /\ RecordInv /\ MissInv

-----------------------------------------------------------------------------
(* Sequences.                                                              *)

LEMMA InRange ==
    ASSUME NEW S, NEW s \in Seq(S), NEW x
    PROVE  /\ x \in Range(s) <=> \E i \in 1..Len(s) : s[i] = x
           /\ Range(s) \subseteq S
           /\ \A i \in 1..Len(s) : s[i] \in Range(s)
<1>1. Range(s) = {s[i] : i \in 1..Len(s)}
  BY RangeEquality
<1>2. \A i \in 1..Len(s) : s[i] \in S
  BY ElementOfSeq
<1> QED
  BY <1>1, <1>2

LEMMA NoElement ==
    /\ Range(<<>>) = {} /\ Len(<<>>) = 0
    /\ \A R : Chain(<<>>, R)
<1>1. Len(<<>>) = 0 /\ <<>> \in Seq({})
  BY EmptySeq
<1>2. Range(<<>>) = {}
  <2>1. DOMAIN <<>> = {}
    OBVIOUS
  <2> QED
    BY <2>1, Zenon DEF Range
<1> QED
  BY <1>1, <1>2 DEF Chain

LEMMA AppendedRange ==
    ASSUME NEW S, NEW s \in Seq(S), NEW e \in S
    PROVE  Append(s, e) \in Seq(S) /\ Range(Append(s, e)) = Range(s) \cup {e}
<1> DEFINE t == Append(s, e)
           n == Len(s)
<1>1. /\ t \in Seq(S) /\ Len(t) = n + 1 /\ n \in Nat
      /\ \A i \in 1..n : t[i] = s[i]
      /\ t[n + 1] = e
  BY AppendProperties, LenProperties
<1>2. \A i \in 1..n + 1 : i \in 1..n \/ i = n + 1
  BY <1>1
<1>3. 1..n \subseteq 1..n + 1 /\ n + 1 \in 1..n + 1
  BY <1>1
<1> HIDE DEF t, n
<1>4. \A x : x \in Range(s) <=> \E i \in 1..n : s[i] = x
  BY InRange DEF n
<1>5. \A x : x \in Range(t) <=> \E i \in 1..n + 1 : t[i] = x
  BY <1>1, InRange
<1>6. \A x : x \in Range(t) <=> x \in Range(s) \/ x = e
  BY <1>1, <1>2, <1>3, <1>4, <1>5
<1> QED
  BY <1>1, <1>6 DEF t

LEMMA AppendedChain ==
    ASSUME NEW S, NEW s \in Seq(S), NEW e \in S, NEW R,
           Chain(s, R), Before(Range(s), {e}, R)
    PROVE  Chain(Append(s, e), R)
<1> DEFINE t == Append(s, e)
           n == Len(s)
<1>1. /\ Len(t) = n + 1 /\ n \in Nat
      /\ \A i \in 1..n : t[i] = s[i]
      /\ t[n + 1] = e
  BY AppendProperties, LenProperties
<1>2. \A i \in 1..n + 1 : i \in 1..n \/ i = n + 1
  BY <1>1
<1> HIDE DEF t, n
<1>3. \A i \in 1..n : <<s[i], e>> \in R
  BY InRange DEF Before, n
<1>4. ASSUME NEW i \in 1..n + 1, NEW j \in 1..n + 1, i < j
      PROVE  <<t[i], t[j]>> \in R
  <2>1. i \in 1..n
    BY <1>1, <1>4
  <2>2. CASE j \in 1..n
    BY <1>1, <1>4, <2>1, <2>2 DEF Chain, n
  <2>3. CASE j = n + 1
    BY <1>1, <1>3, <2>1, <2>3
  <2> QED
    BY <1>2, <2>2, <2>3
<1> QED
  BY <1>1, <1>4 DEF Chain, t

LEMMA Taken ==
    ASSUME NEW S, NEW s \in Seq(S), s # <<>>
    PROVE  /\ Tail(s) \in Seq(S) /\ Head(s) \in S
           /\ Range(s) = Range(Tail(s)) \cup {Head(s)}
           /\ \A R : Chain(s, R) => Chain(Tail(s), R) /\ Before({Head(s)}, Range(Tail(s)), R)
<1> DEFINE t == Tail(s)
           n == Len(s)
<1>1. /\ t \in Seq(S) /\ Len(t) = n - 1 /\ n \in Nat \ {0} /\ Head(s) = s[1]
      /\ \A i \in 1..n - 1 : t[i] = s[i + 1]
  BY HeadTailProperties, EmptySeq
<1>2. \A i \in 1..n : i = 1 \/ (i - 1 \in 1..n - 1 /\ (i - 1) + 1 = i)
  BY <1>1
<1>3. 1 \in 1..n /\ \A i \in 1..n - 1 : i + 1 \in 1..n /\ 1 < i + 1
  BY <1>1
<1> HIDE DEF t, n
<1>4. \A x : /\ x \in Range(s) <=> \E i \in 1..n : s[i] = x
             /\ x \in Range(t) <=> \E i \in 1..n - 1 : t[i] = x
  BY <1>1, InRange DEF n
<1>5. s[1] \in S
  BY <1>3, ElementOfSeq DEF n
<1>6. Range(s) = Range(t) \cup {s[1]}
  <2>1. ASSUME NEW x \in Range(t) PROVE x \in Range(s)
    <3>1. PICK i \in 1..n - 1 : t[i] = x
      BY <1>4
    <3>2. i + 1 \in 1..n /\ s[i + 1] = x
      BY <1>1, <1>3, <3>1
    <3> QED
      BY <1>4, <3>2
  <2>2. ASSUME NEW x \in Range(s), x # s[1] PROVE x \in Range(t)
    <3>1. PICK i \in 1..n : s[i] = x
      BY <1>4
    <3>2. i - 1 \in 1..n - 1 /\ t[i - 1] = x
      BY <1>1, <1>2, <2>2, <3>1
    <3> QED
      BY <1>4, <3>2
  <2>3. s[1] \in Range(s)
    BY <1>3, <1>4
  <2> QED
    BY <2>1, <2>2, <2>3
<1>7. ASSUME NEW R, Chain(s, R) PROVE Chain(t, R) /\ Before({s[1]}, Range(t), R)
  <2>1. \A i, j \in 1..n : i < j => <<s[i], s[j]>> \in R
    BY <1>7 DEF Chain, n
  <2>2. ASSUME NEW i \in 1..n - 1, NEW j \in 1..n - 1, i < j PROVE <<t[i], t[j]>> \in R
    <3>1. i + 1 < j + 1 /\ i + 1 \in 1..n /\ j + 1 \in 1..n
      BY <1>3, <2>2
    <3> QED
      BY <1>1, <2>1, <3>1
  <2>3. ASSUME NEW x \in Range(t) PROVE <<s[1], x>> \in R
    <3>1. PICK i \in 1..n - 1 : t[i] = x
      BY <1>4
    <3>2. i + 1 \in 1..n /\ 1 < i + 1 /\ s[i + 1] = x
      BY <1>1, <1>3, <3>1
    <3> QED
      BY <1>3, <2>1, <3>2
  <2> QED
    BY <1>1, <2>2, <2>3 DEF Chain, Before
<1> QED
  BY <1>1, <1>5, <1>6, <1>7 DEF t

LEMMA Split ==
    ASSUME NEW S, NEW s \in Seq(S), NEW n \in 0..Len(s)
    PROVE  LET w == SubSeq(s, 1, n)
               u == SubSeq(s, n + 1, Len(s))
           IN  /\ w \in Seq(S) /\ u \in Seq(S)
               /\ Range(w) \cup Range(u) = Range(s)
               /\ \A R : Chain(s, R) => /\ Chain(w, R) /\ Chain(u, R)
                                        /\ Before(Range(w), Range(u), R)
<1> DEFINE w == SubSeq(s, 1, n)
           u == SubSeq(s, n + 1, Len(s))
           m == Len(s)
<1>1. m \in Nat /\ n \in Nat /\ n <= m /\ \A i \in 1..m : s[i] \in S
  BY LenProperties, ElementOfSeq
<1>2. w \in Seq(S) /\ Len(w) = n /\ \A i \in 1..n : w[i] = s[i]
  <2>1. \A i \in 1..n : s[i] \in S
    BY <1>1
  <2>2. /\ w \in Seq(S) /\ Len(w) = (IF 1 <= n THEN n - 1 + 1 ELSE 0)
        /\ \A i \in 1..n - 1 + 1 : w[i] = s[1 + i - 1]
    BY <1>1, <2>1, SubSeqProperties
  <2>3. n - 1 + 1 = n /\ \A i \in 1..n : 1 + i - 1 = i
    BY <1>1
  <2> QED
    BY <1>1, <2>2, <2>3
<1>3. u \in Seq(S) /\ Len(u) = m - n /\ \A i \in 1..m - n : u[i] = s[n + i]
  <2>1. \A i \in n + 1..m : s[i] \in S
    BY <1>1
  <2>2. n + 1 \in Int /\ m \in Int
    BY <1>1
  <2>3. /\ u \in Seq(S) /\ Len(u) = (IF n + 1 <= m THEN m - (n + 1) + 1 ELSE 0)
        /\ \A i \in 1..m - (n + 1) + 1 : u[i] = s[(n + 1) + i - 1]
    BY <2>1, <2>2, SubSeqProperties
  <2>4. m - (n + 1) + 1 = m - n /\ \A i \in 1..m - n : (n + 1) + i - 1 = n + i
    BY <1>1
  <2>5. Len(u) = m - n
    BY <1>1, <2>3
  <2>6. \A i \in 1..m - n : u[i] = s[n + i]
    BY <2>3, <2>4
  <2> QED
    BY <2>3, <2>5, <2>6
<1> HIDE DEF w, u, m
<1>4. \A x : /\ x \in Range(s) <=> \E i \in 1..m : s[i] = x
             /\ x \in Range(w) <=> \E i \in 1..n : w[i] = x
             /\ x \in Range(u) <=> \E i \in 1..m - n : u[i] = x
  <2>1. \A x : x \in Range(s) <=> \E i \in 1..m : s[i] = x
    BY InRange DEF m
  <2>2. \A x : x \in Range(w) <=> \E i \in 1..n : w[i] = x
    BY <1>2, InRange
  <2>3. \A x : x \in Range(u) <=> \E i \in 1..m - n : u[i] = x
    BY <1>3, InRange
  <2> QED
    BY <2>1, <2>2, <2>3
<1>5. /\ \A i \in 1..n : i \in 1..m
      /\ \A i \in 1..m - n : n + i \in 1..m /\ n < n + i
      /\ \A i \in 1..m : i \in 1..n \/ (i - n \in 1..m - n /\ n + (i - n) = i)
  BY <1>1
<1>6. Range(w) \cup Range(u) = Range(s)
  <2>1. \A x : x \in Range(w) \/ x \in Range(u) => x \in Range(s)
    <3>1. ASSUME NEW x \in Range(w) PROVE x \in Range(s)
      BY <1>2, <1>4, <1>5
    <3>2. ASSUME NEW x \in Range(u) PROVE x \in Range(s)
      BY <1>3, <1>4, <1>5
    <3> QED
      BY <3>1, <3>2
  <2>2. \A x : x \in Range(s) => x \in Range(w) \/ x \in Range(u)
    <3> SUFFICES ASSUME NEW x \in Range(s) PROVE x \in Range(w) \/ x \in Range(u)
      OBVIOUS
    <3>1. PICK i \in 1..m : s[i] = x
      BY <1>4
    <3>2. CASE i \in 1..n
      BY <1>2, <1>4, <3>1, <3>2
    <3>3. CASE i - n \in 1..m - n /\ n + (i - n) = i
      BY <1>3, <1>4, <3>1, <3>3
    <3> QED
      BY <1>5, <3>2, <3>3
  <2> QED
    BY <2>1, <2>2
<1>8. ASSUME NEW R, Chain(s, R)
      PROVE  Chain(w, R) /\ Chain(u, R) /\ Before(Range(w), Range(u), R)
  <2>1. \A i, j \in 1..m : i < j => <<s[i], s[j]>> \in R
    BY <1>8 DEF Chain, m
  <2>2. Chain(w, R)
    BY <1>2, <1>5, <2>1 DEF Chain
  <2>3. Chain(u, R)
    <3>1. ASSUME NEW i \in 1..m - n, NEW j \in 1..m - n, i < j PROVE <<u[i], u[j]>> \in R
      <4>1. n + i < n + j
        BY <1>1, <3>1
      <4> QED
        BY <1>3, <1>5, <2>1, <4>1
    <3> QED
      BY <1>3, <3>1 DEF Chain
  <2>4. ASSUME NEW a \in Range(w), NEW b \in Range(u) PROVE <<a, b>> \in R
    <3>1. PICK i \in 1..n : s[i] = a
      BY <1>2, <1>4
    <3>2. PICK j \in 1..m - n : s[n + j] = b
      BY <1>3, <1>4
    <3>3. i \in 1..m /\ n + j \in 1..m /\ i < n + j
      BY <1>1, <1>5
    <3> QED
      BY <2>1, <3>1, <3>2, <3>3
  <2> QED
    BY <2>2, <2>3, <2>4 DEF Before
<1> QED
  BY <1>2, <1>3, <1>6, <1>8 DEF w, u, m

LEMMA Joined ==
    ASSUME NEW S, NEW s \in Seq(S), NEW t \in Seq(S)
    PROVE  /\ s \o t \in Seq(S) /\ Range(s \o t) = Range(s) \cup Range(t)
           /\ \A R : Chain(s, R) /\ Chain(t, R) /\ Before(Range(s), Range(t), R)
                    => Chain(s \o t, R)
<1> DEFINE v == s \o t
           m == Len(s)
           n == Len(t)
<1>1. /\ v \in Seq(S) /\ Len(v) = m + n /\ m \in Nat /\ n \in Nat
      /\ \A i \in 1..m + n : v[i] = IF i <= m THEN s[i] ELSE t[i - m]
  BY ConcatProperties, LenProperties
<1>2. Range(v) = Range(s) \cup Range(t)
  BY RangeConcatenation
<1> HIDE DEF v, m, n
<1>3. \A i \in 1..m + n : \/ i \in 1..m /\ v[i] = s[i]
                          \/ i > m /\ i - m \in 1..n /\ v[i] = t[i - m]
  BY <1>1
<1>4. /\ \A i \in 1..m : s[i] \in Range(s)
      /\ \A i \in 1..n : t[i] \in Range(t)
  BY InRange DEF m, n
<1>6. ASSUME NEW R, Chain(s, R), Chain(t, R), Before(Range(s), Range(t), R) PROVE Chain(v, R)
  <2>1. ASSUME NEW i \in 1..m + n, NEW j \in 1..m + n, i < j
        PROVE  <<v[i], v[j]>> \in R
    <3>1. CASE i \in 1..m /\ v[i] = s[i] /\ j \in 1..m /\ v[j] = s[j]
      BY <1>6, <2>1, <3>1 DEF Chain, m
    <3>2. CASE i > m /\ i - m \in 1..n /\ v[i] = t[i - m] /\ j - m \in 1..n /\ v[j] = t[j - m]
      <4>1. i - m < j - m
        BY <1>1, <2>1
      <4> QED
        BY <1>6, <3>2, <4>1 DEF Chain, n
    <3>3. CASE i \in 1..m /\ v[i] = s[i] /\ j - m \in 1..n /\ v[j] = t[j - m]
      BY <1>4, <1>6, <3>3 DEF Before
    <3>4. CASE i > m /\ j \in 1..m
      BY <1>1, <2>1, <3>4
    <3> QED
      BY <1>3, <3>1, <3>2, <3>3, <3>4
  <2> QED
    BY <1>1, <2>1 DEF Chain
<1> QED
  BY <1>1, <1>2, <1>6 DEF v

(* A chain in another relation that orders its elements alike. *)
LEMMA ChainAlike ==
    ASSUME NEW S, NEW s \in Seq(S), NEW R, NEW Q, Chain(s, R),
           \A a, b \in Range(s) : <<a, b>> \in R => <<a, b>> \in Q
    PROVE  Chain(s, Q)
<1>1. \A i \in 1..Len(s) : s[i] \in Range(s)
  BY InRange
<1> QED
  BY <1>1 DEF Chain

-----------------------------------------------------------------------------
(* What is decoded of a batch, by induction on the number of its events.   *)

LEMMA LeastNumber ==
    ASSUME NEW T \in SUBSET Nat, T # {}
    PROVE  \E x \in T : \A y \in T : x <= y
<1> DEFINE R == OpToRel(<, Nat)
<1>1. IsWellFoundedOn(R, Nat)
  BY NatLessThanWellFounded
<1>2. \A x, y \in Nat : <<y, x>> \in R <=> y < x
  BY DEF OpToRel
<1> HIDE DEF R
<1>3. PICK x \in T : \A y \in T : ~(<<y, x>> \in R)
  BY <1>1, WFMin
<1>4. \A y \in T : ~(y < x)
  BY <1>2, <1>3
<1>5. \A y \in T : x <= y
  BY <1>4
<1> QED
  BY <1>5

LEMMA SetInduction ==
    ASSUME NEW T \in SUBSET Nat, 0 \in T, \A n \in T : n + 1 \in T
    PROVE  T = Nat
<1>1. SUFFICES ASSUME Nat \ T # {} PROVE FALSE
  OBVIOUS
<1>2. PICK x \in Nat \ T : \A y \in Nat \ T : x <= y
  BY <1>1, LeastNumber
<1>3. x # 0 /\ x - 1 \in Nat
  BY <1>2
<1>4. x - 1 \in T
  BY <1>2, <1>3
<1> QED
  BY <1>2, <1>3, <1>4

(* f is what Decoded's upTo is after 0, 1, ... N events of s. *)
Place(w, x) == IF ev[x].kind = "unplaced" THEN w ELSE Append(w, x)
Decodes(f, s, N) == f = [n \in 0..N |-> IF n = 0 THEN <<>> ELSE Place(f[n - 1], s[n])]

LEMMA DecodesExists ==
    ASSUME NEW s, NEW N \in Nat
    PROVE  \E f : Decodes(f, s, N)
<1> DEFINE T == {n \in Nat : \E f : Decodes(f, s, n)}
<1>1. 0 \in T
  <2> DEFINE f == [n \in 0..0 |-> <<>>]
  <2>1. \A n \in 0..0 : n = 0
    OBVIOUS
  <2>2. Decodes(f, s, 0)
    BY <2>1 DEF Decodes
  <2> QED
    BY <2>2
<1>2. ASSUME NEW m \in T PROVE m + 1 \in T
  <2>1. PICK f : Decodes(f, s, m)
    OBVIOUS
  <2> DEFINE g == [n \in 0..m + 1 |-> IF n = m + 1 THEN Place(f[m], s[m + 1]) ELSE f[n]]
  <2>2. m \in Nat
    OBVIOUS
  <2> HIDE DEF T
  <2>3. \A n \in 0..m + 1 : n \in 0..m \/ n = m + 1
    BY <2>2
  <2>4. /\ \A n \in 0..m : n # m + 1 /\ n \in 0..m + 1
        /\ \A n \in 0..m : n # 0 => n - 1 \in 0..m
    BY <2>2
  <2>5. \A n \in 0..m : g[n] = f[n]
    BY <2>4
  <2>6. g[m + 1] = Place(f[m], s[m + 1])
    BY <2>2
  <2>7. \A n \in 0..m : f[n] = IF n = 0 THEN <<>> ELSE Place(f[n - 1], s[n])
    BY <2>1 DEF Decodes
  <2>8. g = [n \in 0..m + 1 |-> g[n]]
    OBVIOUS
  <2> HIDE DEF g
  <2>9. ASSUME NEW n \in 0..m + 1 PROVE g[n] = IF n = 0 THEN <<>> ELSE Place(g[n - 1], s[n])
    <3>1. CASE n \in 0..m
      BY <2>4, <2>5, <2>7, <3>1
    <3>2. CASE n = m + 1
      <4>1. n # 0 /\ n - 1 = m /\ m \in 0..m
        BY <2>2, <3>2
      <4> QED
        BY <2>5, <2>6, <3>2, <4>1
    <3> QED
      BY <2>3, <3>1, <3>2
  <2>10. Decodes(g, s, m + 1)
    BY <2>8, <2>9 DEF Decodes
  <2> QED
    BY <2>2, <2>10 DEF T
<1>3. T = Nat
  <2> HIDE DEF T
  <2>1. T \subseteq Nat
    BY DEF T
  <2> QED
    BY <1>1, <1>2, <2>1, SetInduction
<1> QED
  BY <1>3

LEMMA DecodedDef ==
    ASSUME NEW s, Len(s) \in Nat
    PROVE  \E f : /\ Decoded(s) = f[Len(s)] /\ f[0] = <<>>
                  /\ \A n \in 1..Len(s) : f[n] = Place(f[n - 1], s[n])
<1> DEFINE upTo == CHOOSE f : Decodes(f, s, Len(s))
<1>1. Decodes(upTo, s, Len(s))
  BY DecodesExists
<1>2. Decoded(s) = upTo[Len(s)]
  BY DEF Decoded, Decodes, Place
<1> HIDE DEF upTo
<1>3. \A n \in 0..Len(s) : upTo[n] = IF n = 0 THEN <<>> ELSE Place(upTo[n - 1], s[n])
  BY <1>1 DEF Decodes
<1>4. 0 \in 0..Len(s) /\ \A n \in 1..Len(s) : n \in 0..Len(s) /\ n # 0
  OBVIOUS
<1>5. upTo[0] = <<>> /\ \A n \in 1..Len(s) : upTo[n] = Place(upTo[n - 1], s[n])
  BY <1>3, <1>4
<1> QED
  BY <1>2, <1>5

(* The events that can be placed, in their order. *)
LEMMA DecodedFacts ==
    ASSUME NEW S, NEW s \in Seq(S), NEW R, Chain(s, R)
    PROVE  /\ Decoded(s) \in Seq(S) /\ Range(Decoded(s)) \subseteq Range(s)
           /\ \A x \in Range(s) : x \in Range(Decoded(s)) \/ ev[x].kind = "unplaced"
           /\ Chain(Decoded(s), R)
<1> DEFINE N == Len(s)
<1>1. N \in Nat /\ \A i \in 1..N : s[i] \in S
  BY LenProperties, ElementOfSeq
<1>2. PICK f : /\ Decoded(s) = f[N] /\ f[0] = <<>>
               /\ \A n \in 1..N : f[n] = Place(f[n - 1], s[n])
  BY <1>1, DecodedDef
<1>3. \A i, j \in 1..N : i < j => <<s[i], s[j]>> \in R
  BY DEF Chain
<1>4. \A x : x \in Range(s) <=> \E i \in 1..N : s[i] = x
  BY InRange
<1> HIDE DEF N
<1> DEFINE P(n) == /\ f[n] \in Seq(S) /\ Chain(f[n], R)
                   /\ \A x \in Range(f[n]) : \E i \in 1..n : s[i] = x
                   /\ \A i \in 1..n : s[i] \in Range(f[n]) \/ ev[s[i]].kind = "unplaced"
           T == {n \in Nat : n <= N => P(n)}
<1>5. 0 \in T
  <2>1. P(0)
    BY <1>2, EmptySeq, NoElement
  <2> QED
    BY <2>1
<1>6. ASSUME NEW n \in T PROVE n + 1 \in T
  <2>1. n \in Nat /\ (n <= N => P(n))
    OBVIOUS
  <2> HIDE DEF T
  <2> SUFFICES ASSUME n + 1 <= N PROVE P(n + 1)
    BY <2>1 DEF T
  <2>2. /\ n <= N /\ n + 1 \in 1..N /\ (n + 1) - 1 = n
        /\ \A i \in 1..n : i \in 1..N /\ i < n + 1 /\ i \in 1..n + 1
        /\ \A i \in 1..n + 1 : i \in 1..n \/ i = n + 1
        /\ n + 1 \in 1..n + 1
    BY <1>1, <2>1
  <2>3. P(n) /\ f[n + 1] = Place(f[n], s[n + 1]) /\ s[n + 1] \in S
    BY <1>1, <1>2, <2>1, <2>2
  <2>4. CASE ev[s[n + 1]].kind = "unplaced"
    <3>1. f[n + 1] = f[n]
      BY <2>3, <2>4 DEF Place
    <3> QED
      BY <2>2, <2>3, <2>4, <3>1
  <2>5. CASE ev[s[n + 1]].kind # "unplaced"
    <3>1. f[n + 1] = Append(f[n], s[n + 1])
      BY <2>3, <2>5 DEF Place
    <3>2. f[n + 1] \in Seq(S) /\ Range(f[n + 1]) = Range(f[n]) \cup {s[n + 1]}
      BY <2>3, <3>1, AppendedRange
    <3>3. ASSUME NEW x \in Range(f[n]) PROVE <<x, s[n + 1]>> \in R
      BY <1>3, <2>2, <2>3
    <3>4. Chain(f[n + 1], R)
      BY <2>3, <3>1, <3>3, AppendedChain DEF Before
    <3>5. \A x \in Range(f[n + 1]) : \E i \in 1..n + 1 : s[i] = x
      BY <2>2, <2>3, <3>2
    <3>6. \A i \in 1..n + 1 : s[i] \in Range(f[n + 1]) \/ ev[s[i]].kind = "unplaced"
      BY <2>2, <2>3, <3>2
    <3> QED
      BY <3>2, <3>4, <3>5, <3>6
  <2> QED
    BY <2>4, <2>5
<1>7. T = Nat
  <2> HIDE DEF T
  <2>1. T \subseteq Nat
    BY DEF T
  <2> QED
    BY <1>5, <1>6, <2>1, SetInduction
<1>8. P(N)
  <2> HIDE DEF P
  <2> QED
    BY <1>1, <1>7
<1> QED
  BY <1>2, <1>4, <1>8

-----------------------------------------------------------------------------
(* The stages.                                                             *)

LEMMA Stages ==
    ASSUME FlowType
    PROVE  /\ Queued \subseteq Event /\ Held \subseteq Event /\ InChan \subseteq Event
           /\ Range(batch) \subseteq Event
           /\ \A x : x \in Queued <=> \E g \in Group : x \in Range(kq[g])
           /\ \A x : x \in Held <=> \E g \in Group : x \in Range(hand[g])
           /\ \A x : x \in InChan <=> \E i \in 1..Len(chan) : x \in Range(chan[i])
           /\ \A g \in Group : Range(kq[g]) \subseteq Queued /\ Range(hand[g]) \subseteq Held
           /\ \A i \in 1..Len(chan) : Range(chan[i]) \subseteq InChan
<1>1. \A g \in Group : kq[g] \in Seq(Event) /\ hand[g] \in Seq(Event)
  BY DEF FlowType
<1>2. \A c \in Seq(Event) : Range(c) \subseteq Event
  BY InRange
<1>3. Range(chan) \subseteq Seq(Event) /\ \A c : c \in Range(chan) <=> \E i \in 1..Len(chan) : chan[i] = c
  BY InRange DEF FlowType
<1>4. /\ \A x : x \in Queued <=> \E g \in Group : x \in Range(kq[g])
      /\ \A x : x \in Held <=> \E g \in Group : x \in Range(hand[g])
  BY DEF Queued, Held
<1>5. \A x : x \in InChan <=> \E i \in 1..Len(chan) : x \in Range(chan[i])
  BY <1>3 DEF InChan
<1>6. Queued \subseteq Event /\ Held \subseteq Event
  BY <1>1, <1>2, <1>4
<1>7. InChan \subseteq Event
  BY <1>2, <1>3 DEF InChan
<1>8. Range(batch) \subseteq Event
  BY <1>2 DEF FlowType
<1> QED
  BY <1>4, <1>5, <1>6, <1>7, <1>8

LEMMA RecFacts ==
    ASSUME FlowType
    PROVE  /\ Rec \subseteq Record /\ Range(pend) \subseteq Rec /\ Range(stream) \subseteq Rec
           /\ \A r \in Rec : r.id \in Ids
           /\ Ids \subseteq Event
<1>1. Range(pend) \subseteq Record /\ Range(stream) \subseteq Record
  BY InRange DEF FlowType
<1>2. Rec \subseteq Record
  BY <1>1 DEF Rec
<1>3. \A r \in Record : r.id \in Event
  BY DEF Record
<1> QED
  BY <1>2, <1>3 DEF Rec, Ids

(* A new event changes nothing in the order of those before it. *)
LEMMA OrderKept ==
    ASSUME NEW v \in Seq(Happening), NEW x \in Happening
    PROVE  /\ \A a, b \in 1..Len(v) : <<a, b>> \in Older(v) => <<a, b>> \in Older(Append(v, x))
           /\ \A a, b \in Record :
                a.id \in 1..Len(v) /\ b.id \in 1..Len(v) /\ <<a, b>> \in Following(v)
                => <<a, b>> \in Following(Append(v, x))
<1> DEFINE w == Append(v, x)
<1>1. \A i \in 1..Len(v) : w[i] = v[i]
  BY AppendProperties
<1> HIDE DEF w
<1>2. ASSUME NEW a \in 1..Len(v), NEW b \in 1..Len(v), <<a, b>> \in Older(v)
      PROVE  <<a, b>> \in Older(w)
  BY <1>1, <1>2 DEF Older
<1>3. ASSUME NEW a \in Record, NEW b \in Record, a.id \in 1..Len(v), b.id \in 1..Len(v),
             <<a, b>> \in Following(v)
      PROVE  <<a, b>> \in Following(w)
  <2>1. Follows(v, a, b)
    BY <1>3 DEF Following
  <2>2. Follows(w, a, b)
    BY <1>1, <1>3, <2>1 DEF Follows
  <2> QED
    BY <2>2 DEF Following
<1> QED
  BY <1>2, <1>3 DEF w

(* The steps that touch no event. *)
flowVars == <<ev, kq, hand, chan, batch, pend, stream, windowed>>

LEMMA FlowUnchanged ==
    ASSUME IInv, UNCHANGED flowVars, (running \subseteq Proc)', (named \subseteq Proc)',
           pc' # "process" => batch = <<>> /\ pend = <<>>
    PROVE  IInv'
<1>1. FlowType'
  BY DEF IInv, FlowType, flowVars
<1>2. LoopInv'
  BY DEF IInv, LoopInv, flowVars
<1>3. Queued' = Queued /\ Held' = Held /\ InChan' = InChan /\ Rec' = Rec
  BY DEF flowVars, Queued, Held, InChan, Rec
<1>4. Waiting' = Waiting /\ Ids' = Ids
  BY <1>3 DEF flowVars, Waiting, Ids
<1>5. HomeInv'
  BY <1>4 DEF IInv, HomeInv, flowVars
<1>6. StagesInv'
  BY <1>3, <1>4 DEF IInv, StagesInv, flowVars, InOrder, Ahead
<1>7. RecordInv'
  BY DEF IInv, RecordInv, flowVars
<1>8. MissInv'
  BY <1>3, <1>4 DEF IInv, MissInv, flowVars, Sides
<1> QED
  BY <1>1, <1>2, <1>5, <1>6, <1>7, <1>8 DEF IInv

LEMMA EmitKeeps ==
    ASSUME IInv, NEW p \in Proc, NEW g \in Group, NEW kind \in Kind, Emit(p, g, kind)
    PROVE  IInv' /\ Waiting' = Waiting \cup {Len(ev) + 1} /\ Rec' = Rec
<1> DEFINE n == Len(ev) + 1
           x == [group |-> g, by |-> p, kind |-> kind, of |-> line[p] \cap running \cap named]
<1>1. /\ FlowType /\ LoopInv /\ HomeInv /\ StagesInv /\ RecordInv /\ MissInv
  BY DEF IInv
<1>2. /\ ev' = Append(ev, x) /\ Len(ev) < MaxEvents
      /\ kq' = [kq EXCEPT ![g] = Append(kq[g], n)]
      /\ hand' = hand /\ chan' = chan /\ batch' = batch /\ pend' = pend /\ stream' = stream
      /\ windowed' = windowed /\ pc' = pc /\ running' = running /\ named' = named
  BY DEF Emit, mainVars, procVars
<1>3. x \in Happening
  BY <1>1 DEF FlowType, Happening
<1>4. ev \in Seq(Happening) /\ Len(ev) \in Nat /\ MaxEvents \in Nat
  BY <1>1, LenProperties, PipelineAssumption DEF FlowType
<1>5. /\ ev' \in Seq(Happening) /\ Len(ev') = n
      /\ \A i \in 1..Len(ev) : ev'[i] = ev[i]
      /\ ev'[n] = x
  BY <1>2, <1>3, <1>4, AppendProperties
<1>6. n \in Event /\ n \notin 1..Len(ev) /\ n \in 1..n /\ 1..Len(ev) \subseteq 1..n /\ 1..Len(ev) \subseteq Event
  BY <1>2, <1>4 DEF Event
<1>6a. 1..n = 1..Len(ev) \cup {n}
  BY <1>4
<1>6b. \A i \in 1..Len(ev) : i < n
  BY <1>4
<1>7. kq[g] \in Seq(Event) /\ \A h \in Group : kq[h] \in Seq(Event) /\ hand[h] \in Seq(Event)
  BY <1>1 DEF FlowType
<1>8. /\ kq'[g] = Append(kq[g], n) /\ \A h \in Group \ {g} : kq'[h] = kq[h]
      /\ kq'[g] \in Seq(Event)
      /\ Range(kq'[g]) = Range(kq[g]) \cup {n}
  <2>1. kq'[g] = Append(kq[g], n) /\ \A h \in Group \ {g} : kq'[h] = kq[h]
    BY <1>1, <1>2 DEF FlowType
  <2>2. /\ Append(kq[g], n) \in Seq(Event)
        /\ Range(Append(kq[g], n)) = Range(kq[g]) \cup {n}
    BY <1>6, <1>7, AppendedRange
  <2> QED
    BY <2>1, <2>2
<1>9. FlowType'
  <2>1. kq' \in [Group -> Seq(Event)]
    BY <1>1, <1>2, <1>8 DEF FlowType
  <2>2. Len(ev') <= MaxEvents
    BY <1>2, <1>4, <1>5
  <2> QED
    BY <1>1, <1>2, <1>5, <2>1, <2>2 DEF FlowType
<1>10. LoopInv'
  BY <1>1, <1>2 DEF LoopInv
<1> HIDE DEF n, x
<1>11. /\ Held' = Held /\ InChan' = InChan /\ Rec' = Rec /\ Ids' = Ids
       /\ Queued' = Queued \cup {n} /\ Waiting' = Waiting \cup {n}
  <2>1. Held' = Held /\ InChan' = InChan /\ Rec' = Rec /\ Ids' = Ids
    BY <1>2 DEF Held, InChan, Rec, Ids
  <2>2. Queued' = Queued \cup {n}
    BY <1>8 DEF Queued
  <2> QED
    BY <1>2, <2>1, <2>2 DEF Waiting
<1>12. Waiting \subseteq 1..Len(ev) /\ Ids \subseteq 1..Len(ev)
  BY <1>1 DEF HomeInv
<1>12a. /\ Queued \subseteq 1..Len(ev) /\ Held \subseteq 1..Len(ev)
        /\ InChan \subseteq 1..Len(ev) /\ Range(batch) \subseteq 1..Len(ev)
  BY <1>12 DEF Waiting
<1>13. /\ \A h \in Group : Range(kq[h]) \subseteq 1..Len(ev) /\ Range(hand[h]) \subseteq 1..Len(ev)
       /\ \A i \in 1..Len(chan) : Range(chan[i]) \subseteq 1..Len(ev)
  BY <1>1, <1>12a, Stages
<1>14. HomeInv'
  <2>1. (Waiting \cup Ids)' \subseteq 1..Len(ev')
    BY <1>5, <1>6, <1>11, <1>12
  <2>2. ASSUME NEW h \in Group, NEW e \in Range(kq'[h]) \cup Range(hand'[h])
        PROVE  ev'[e].group = h
    <3>1. CASE e = n /\ h = g
      BY <1>5, <3>1 DEF x
    <3>2. CASE e \in Range(kq[h]) \cup Range(hand[h])
      BY <1>1, <1>5, <1>13, <3>2 DEF HomeInv
    <3> QED
      BY <1>2, <1>8, <2>2, <3>1, <3>2
  <2> QED
    BY <2>1, <2>2 DEF HomeInv
<1>15. /\ \A a, b \in 1..Len(ev) : <<a, b>> \in Older(ev) => <<a, b>> \in Older(ev')
       /\ \A a, b \in Record : a.id \in 1..Len(ev) /\ b.id \in 1..Len(ev)
            /\ <<a, b>> \in Following(ev) => <<a, b>> \in Following(ev')
  BY <1>2, <1>3, <1>4, OrderKept
<1>16. \A a \in 1..Len(ev) : <<a, n>> \in Older(ev')
  BY <1>6, <1>6b DEF Older
<1>17. ASSUME NEW s \in Seq(Event), Range(s) \subseteq 1..Len(ev), InOrder(s)
       PROVE  Chain(s, Older(ev'))
  BY <1>15, <1>17, ChainAlike DEF InOrder
<1>18. ASSUME NEW A \in SUBSET (1..Len(ev)), NEW B \in SUBSET (1..Len(ev)), Ahead(A, B)
       PROVE  Before(A, B, Older(ev')) /\ Before(A, B \cup {n}, Older(ev'))
  BY <1>15, <1>16, <1>18 DEF Ahead, Before
<1>19. StagesInv'
  <2>1. ASSUME NEW h \in Group PROVE Chain(kq'[h], Older(ev')) /\ Chain(hand'[h], Older(ev'))
    <3>1. Chain(hand[h], Older(ev')) /\ Chain(kq[h], Older(ev'))
      BY <1>1, <1>7, <1>13, <1>17 DEF StagesInv
    <3>2. CASE h = g
      <4>1. Before(Range(kq[g]), {n}, Older(ev'))
        BY <1>13, <1>16 DEF Before
      <4>2. Chain(Append(kq[g], n), Older(ev'))
        BY <1>6, <1>7, <3>1, <3>2, <4>1, AppendedChain
      <4> QED
        BY <1>2, <1>8, <3>1, <3>2, <4>2
    <3> QED
      BY <1>2, <1>8, <3>1, <3>2
  <2>2. ASSUME NEW i \in 1..Len(chan) PROVE Chain(chan[i], Older(ev'))
    <3>1. chan[i] \in Seq(Event)
      BY <1>1, ElementOfSeq DEF FlowType
    <3> QED
      BY <1>1, <1>13, <1>17, <3>1 DEF StagesInv
  <2>3. ASSUME NEW i \in 1..Len(chan), NEW j \in 1..Len(chan), i < j
        PROVE  Before(Range(chan[i]), Range(chan[j]), Older(ev'))
    BY <1>1, <1>13, <1>18, <2>3 DEF StagesInv
  <2>4. Chain(batch, Older(ev'))
    BY <1>1, <1>12a, <1>17 DEF StagesInv, FlowType
  <2>5. Before(Held, Queued \cup {n}, Older(ev'))
    BY <1>1, <1>12a, <1>18 DEF StagesInv
  <2>6. Before(InChan, Held \cup Queued \cup {n}, Older(ev'))
    <3>1. Held \cup Queued \in SUBSET (1..Len(ev))
      BY <1>12a
    <3> QED
      BY <1>1, <1>12a, <1>18, <3>1 DEF StagesInv
  <2>7. Before(Range(batch), InChan \cup Held \cup Queued \cup {n}, Older(ev'))
    <3>1. InChan \cup Held \cup Queued \in SUBSET (1..Len(ev))
      BY <1>12a
    <3> QED
      BY <1>1, <1>12a, <1>18, <3>1 DEF StagesInv
  <2>8. Before(Ids, Waiting \cup {n}, Older(ev'))
    BY <1>1, <1>12, <1>18 DEF StagesInv
  <2>9. /\ Held' \cup Queued' = Held \cup Queued \cup {n}
        /\ InChan' \cup Held' \cup Queued' = InChan \cup Held \cup Queued \cup {n}
    BY <1>11
  <2> QED
    BY <1>2, <1>11, <2>1, <2>2, <2>3, <2>4, <2>5, <2>6, <2>7, <2>8, <2>9
    DEF StagesInv, InOrder, Ahead
<1>20. RecordInv'
  <2>1. /\ Range(pend) \subseteq Record /\ Range(stream) \subseteq Record
        /\ \A r \in Range(pend) \cup Range(stream) : r.id \in 1..Len(ev)
    BY <1>1, <1>12, RecFacts
  <2>2. Chain(stream, Following(ev'))
    BY <1>1, <1>15, <2>1, ChainAlike DEF RecordInv, FlowType
  <2>3. Chain(pend, Following(ev'))
    BY <1>1, <1>15, <2>1, ChainAlike DEF RecordInv, FlowType
  <2>4. Before(Range(stream), Range(pend), Following(ev'))
    BY <1>1, <1>15, <2>1 DEF RecordInv, Before
  <2> QED
    BY <1>2, <2>2, <2>3, <2>4 DEF RecordInv
<1>21. MissInv'
  <2>1. ASSUME NEW e \in 1..Len(ev) PROVE Sides(e)' = Sides(e)
    BY <1>5 DEF Sides
  <2>2. ASSUME NEW e \in 1..Len(ev')
        PROVE  e \in Waiting' \cup windowed' \/ \A s \in Sides(e)' : Has(Rec', e, s)
    <3>1. CASE e = n
      BY <1>11, <3>1
    <3>2. CASE e \in 1..Len(ev)
      BY <1>1, <1>2, <1>11, <2>1, <3>2 DEF MissInv
    <3> QED
      BY <1>5, <1>6a, <3>1, <3>2
  <2> QED
    BY <2>2 DEF MissInv
<1> QED
  BY <1>9, <1>10, <1>11, <1>14, <1>19, <1>20, <1>21 DEF IInv, n

(* A step that moves events from one stage to another, or drops some that  *)
(* leave no record.                                                        *)
LEMMA Moved ==
    ASSUME IInv, UNCHANGED <<ev, pend, stream, windowed>>, Waiting' \subseteq Waiting,
           \A e \in Waiting : e \in Waiting' \/ Sides(e) = {}
    PROVE  /\ RecordInv' /\ MissInv' /\ Ahead(Ids, Waiting)'
           /\ (Waiting \cup Ids \subseteq 1..Len(ev))'
<1>1. Rec' = Rec /\ Ids' = Ids
  BY DEF Rec, Ids
<1>2. MissInv'
  <2>1. \A e : Sides(e)' = Sides(e)
    BY DEF Sides
  <2>2. ASSUME NEW e \in 1..Len(ev)
        PROVE  e \in Waiting' \cup windowed \/ \A x \in Sides(e) : Has(Rec, e, x)
    BY DEF IInv, MissInv
  <2> QED
    BY <1>1, <2>1, <2>2 DEF MissInv
<1>3. RecordInv'
  BY DEF IInv, RecordInv
<1>4. Ahead(Ids, Waiting)'
  BY <1>1 DEF IInv, StagesInv, Ahead, Before
<1> QED
  BY <1>1, <1>2, <1>3, <1>4 DEF IInv, HomeInv

(* Events of two groups have no order. *)
LEMMA Apart ==
    ASSUME FlowType, HomeInv, NEW g \in Group, NEW h \in Group, g # h,
           NEW a \in Range(kq[g]) \cup Range(hand[g]), NEW b \in Range(kq[h]) \cup Range(hand[h])
    PROVE  <<a, b>> \in Older(ev)
<1>1. ev[a].group = g /\ ev[b].group = h
  BY DEF HomeInv
<1>2. a \in Event /\ b \in Event
  BY Stages
<1> QED
  BY <1>1, <1>2 DEF Older

LEMMA ReadEventsKeeps ==
    ASSUME IInv, NEW g \in Group, ReadEvents(g)
    PROVE  /\ IInv' /\ Waiting' \subseteq Waiting
           /\ \A e \in Waiting : e \in Waiting' \/ Sides(e) = {}
<1>1. /\ FlowType /\ LoopInv /\ HomeInv /\ StagesInv /\ RecordInv /\ MissInv
  BY DEF IInv
<1>2. PICK n \in 0..Len(kq[g]) :
        /\ hand' = [hand EXCEPT ![g] = Decoded(SubSeq(kq[g], 1, n))]
        /\ kq' = [kq EXCEPT ![g] = SubSeq(kq[g], n + 1, Len(kq[g]))]
  BY DEF ReadEvents
<1>3. /\ hand[g] = <<>> /\ ev' = ev /\ chan' = chan /\ batch' = batch /\ pend' = pend
      /\ stream' = stream /\ windowed' = windowed /\ pc' = pc /\ running' = running
      /\ named' = named
  BY DEF ReadEvents, mainVars, procVars
<1> DEFINE v == SubSeq(kq[g], 1, n)
           w == Decoded(v)
           u == SubSeq(kq[g], n + 1, Len(kq[g]))
<1>4. kq[g] \in Seq(Event)
  BY <1>1 DEF FlowType
<1>5a. v \in Seq(Event) /\ u \in Seq(Event) /\ Range(v) \cup Range(u) = Range(kq[g])
  BY <1>4, Split
<1>6a. Chain(v, Older(ev)) /\ Chain(u, Older(ev)) /\ Before(Range(v), Range(u), Older(ev))
  BY <1>1, <1>4, Split DEF StagesInv, InOrder
<1> HIDE DEF v, u
<1>5b. /\ w \in Seq(Event) /\ Range(w) \subseteq Range(v) /\ Chain(w, Older(ev))
       /\ \A x \in Range(v) : x \in Range(w) \/ ev[x].kind = "unplaced"
  BY <1>5a, <1>6a, DecodedFacts
<1> HIDE DEF w
<1>5. /\ w \in Seq(Event) /\ u \in Seq(Event) /\ Range(w) \cup Range(u) \subseteq Range(kq[g])
      /\ \A x \in Range(kq[g]) : x \in Range(w) \cup Range(u) \/ ev[x].kind = "unplaced"
  BY <1>5a, <1>5b
<1>6. Chain(w, Older(ev)) /\ Chain(u, Older(ev)) /\ Before(Range(w), Range(u), Older(ev))
  BY <1>5b, <1>6a DEF Before
<1>7. /\ hand'[g] = w /\ kq'[g] = u
      /\ \A h \in Group \ {g} : hand'[h] = hand[h] /\ kq'[h] = kq[h]
  BY <1>1, <1>2 DEF FlowType, w, v, u
<1>8. FlowType'
  <2>1. kq' \in [Group -> Seq(Event)] /\ hand' \in [Group -> Seq(Event)]
    BY <1>1, <1>2, <1>5 DEF FlowType, w, v, u
  <2> QED
    BY <1>1, <1>3, <2>1 DEF FlowType
<1>9. LoopInv'
  BY <1>1, <1>3 DEF LoopInv
<1>10. Range(hand[g]) = {}
  BY <1>3, NoElement
<1>11. InChan' = InChan
  BY <1>3 DEF InChan
<1>12. /\ \A x : x \in Held' <=> x \in Held \/ x \in Range(w)
       /\ \A x : x \in Queued' \/ x \in Range(w) => x \in Queued
       /\ \A x \in Queued : x \in Queued' \/ x \in Range(w) \/ ev[x].kind = "unplaced"
  <2>1. /\ \A x : x \in Held' <=> \E h \in Group : x \in Range(hand'[h])
        /\ \A x : x \in Queued' <=> \E h \in Group : x \in Range(kq'[h])
        /\ \A x : x \in Held <=> \E h \in Group : x \in Range(hand[h])
        /\ \A x : x \in Queued <=> \E h \in Group : x \in Range(kq[h])
    BY DEF Held, Queued
  <2> QED
    BY <1>5, <1>7, <1>10, <2>1
<1>13. /\ Waiting' \subseteq Waiting
       /\ \A e \in Waiting : e \in Waiting' \/ Sides(e) = {}
  <2>1. \A e : ev[e].kind = "unplaced" => Sides(e) = {}
    BY Zenon DEF Sides
  <2> QED
    BY <1>3, <1>11, <1>12, <2>1 DEF Waiting
<1>14. RecordInv' /\ MissInv' /\ Ahead(Ids, Waiting)' /\ (Waiting \cup Ids \subseteq 1..Len(ev))'
  BY <1>3, <1>13, Moved
<1>15. \A h \in Group : Range(kq'[h]) \cup Range(hand'[h]) \subseteq Range(kq[h]) \cup Range(hand[h])
  BY <1>5, <1>7
<1>16. HomeInv'
  BY <1>1, <1>3, <1>14, <1>15 DEF HomeInv
<1>17. Ahead(Held, Queued)'
  <2> SUFFICES ASSUME NEW a \in Held', NEW b \in Queued' PROVE <<a, b>> \in Older(ev)
    BY <1>3 DEF Ahead, Before
  <2>1. CASE a \in Held
    BY <1>1, <1>12, <2>1 DEF StagesInv, Ahead, Before
  <2>2. CASE a \in Range(w)
    <3>1. PICK h \in Group : b \in Range(kq'[h])
      BY DEF Queued
    <3>2. CASE h = g
      BY <1>6, <1>7, <2>2, <3>1, <3>2 DEF Before
    <3>3. CASE h # g
      BY <1>1, <1>5, <1>7, <2>2, <3>1, <3>3, Apart
    <3> QED
      BY <3>2, <3>3
  <2> QED
    BY <1>12, <2>1, <2>2
<1>18. Held' \cup Queued' \subseteq Held \cup Queued
  BY <1>12
<1>19. StagesInv'
  <2>1. ASSUME NEW h \in Group PROVE InOrder(kq[h])' /\ InOrder(hand[h])'
    BY <1>1, <1>3, <1>6, <1>7 DEF StagesInv, InOrder
  <2>2. InChan' \cup Held' \cup Queued' \subseteq InChan \cup Held \cup Queued
    BY <1>11, <1>18
  <2>3. Ahead(InChan, Held \cup Queued)'
    BY <1>1, <1>3, <1>11, <1>18 DEF StagesInv, Ahead, Before
  <2>4. Ahead(Range(batch), InChan \cup Held \cup Queued)'
    BY <1>1, <1>3, <2>2 DEF StagesInv, Ahead, Before
  <2> QED
    BY <1>1, <1>3, <1>14, <1>17, <2>1, <2>3, <2>4 DEF StagesInv, InOrder, Ahead
<1> QED
  BY <1>8, <1>9, <1>13, <1>14, <1>16, <1>19 DEF IInv

LEMMA ReaderSendsKeeps ==
    ASSUME IInv, NEW g \in Group, ReaderSends(g)
    PROVE  IInv' /\ Waiting' = Waiting
<1>1. /\ FlowType /\ LoopInv /\ HomeInv /\ StagesInv /\ RecordInv /\ MissInv
  BY DEF IInv
<1>2. /\ chan' = Append(chan, hand[g]) /\ hand' = [hand EXCEPT ![g] = <<>>]
      /\ ev' = ev /\ kq' = kq /\ batch' = batch /\ pend' = pend
      /\ stream' = stream /\ windowed' = windowed /\ pc' = pc /\ running' = running
      /\ named' = named
  BY DEF ReaderSends, SendBatch, mainVars, procVars
<1> DEFINE b == hand[g]
           n == Len(chan)
<1>3. b \in Seq(Event) /\ chan \in Seq(Seq(Event)) /\ n \in Nat
  BY <1>1, LenProperties DEF FlowType
<1>4. /\ chan' \in Seq(Seq(Event)) /\ Len(chan') = n + 1
      /\ \A i \in 1..n : chan'[i] = chan[i]
      /\ chan'[n + 1] = b
  BY <1>2, <1>3, AppendProperties
<1>4a. Range(chan') = Range(chan) \cup {b}
  <2> HIDE DEF n, b
  <2>1. Range(Append(chan, b)) = Range(chan) \cup {b}
    BY <1>3, AppendedRange
  <2> QED
    BY <1>2, <2>1 DEF b
<1>5. \A i \in 1..n + 1 : i \in 1..n \/ i = n + 1
  BY <1>3
<1>6. \A i, j \in 1..n + 1 : i < j => i \in 1..n
  BY <1>3
<1> HIDE DEF n, b
<1>7. hand'[g] = <<>> /\ \A h \in Group \ {g} : hand'[h] = hand[h]
  BY <1>1, <1>2 DEF FlowType
<1>8. FlowType'
  <2>1. <<>> \in Seq(Event)
    BY EmptySeq
  <2>2. hand' \in [Group -> Seq(Event)]
    BY <1>1, <1>2, <2>1 DEF FlowType
  <2> QED
    BY <1>1, <1>2, <1>4, <2>2 DEF FlowType
<1>9. LoopInv'
  BY <1>1, <1>2 DEF LoopInv
<1>10. Queued' = Queued
  BY <1>2 DEF Queued
<1>11. /\ InChan' = InChan \cup Range(b)
       /\ \A x : x \in Held <=> x \in Held' \/ x \in Range(b)
  <2>1. InChan' = InChan \cup Range(b)
    BY <1>4a DEF InChan
  <2>2. /\ \A x : x \in Held' <=> \E h \in Group : x \in Range(hand'[h])
        /\ \A x : x \in Held <=> \E h \in Group : x \in Range(hand[h])
    BY DEF Held
  <2>3. Range(hand'[g]) = {}
    BY <1>7, NoElement
  <2> QED
    BY <1>7, <2>1, <2>2, <2>3 DEF b
<1>12. Waiting' = Waiting
  BY <1>2, <1>10, <1>11 DEF Waiting
<1>13. RecordInv' /\ MissInv' /\ Ahead(Ids, Waiting)' /\ (Waiting \cup Ids \subseteq 1..Len(ev))'
  BY <1>2, <1>12, Moved
<1>14. \A h \in Group : Range(hand'[h]) \subseteq Range(hand[h])
  BY <1>7, NoElement
<1>15. HomeInv'
  BY <1>1, <1>2, <1>13, <1>14 DEF HomeInv
<1>16. Ahead(Held, Queued)'
  BY <1>1, <1>2, <1>10, <1>11 DEF StagesInv, Ahead, Before
<1>17. Ahead(InChan, Held \cup Queued)'
  <2> SUFFICES ASSUME NEW x \in InChan', NEW y \in Held' \cup Queued' PROVE <<x, y>> \in Older(ev)
    BY <1>2 DEF Ahead, Before
  <2>1. CASE x \in InChan
    BY <1>1, <1>10, <1>11, <2>1 DEF StagesInv, Ahead, Before
  <2>2. CASE x \in Range(b) /\ y \in Queued
    BY <1>1, <1>11, <2>2 DEF StagesInv, Ahead, Before
  <2>3. CASE x \in Range(b) /\ y \in Held'
    <3>1. PICK h \in Group : y \in Range(hand'[h])
      BY <2>3 DEF Held
    <3>2. h # g /\ y \in Range(hand[h])
      BY <1>7, <3>1, NoElement
    <3> QED
      BY <1>1, <2>3, <3>2, Apart DEF b
  <2> QED
    BY <1>10, <1>11, <2>1, <2>2, <2>3
<1>18. Ahead(Range(batch), InChan \cup Held \cup Queued)'
  <2>1. InChan' \cup Held' \cup Queued' = InChan \cup Held \cup Queued
    BY <1>10, <1>11
  <2> QED
    BY <1>1, <1>2, <2>1 DEF StagesInv, Ahead
<1>19. ASSUME NEW i \in 1..Len(chan') PROVE InOrder(chan[i])'
  BY <1>1, <1>2, <1>4, <1>5, <1>19 DEF StagesInv, InOrder, b, n
<1>20. ASSUME NEW i \in 1..Len(chan'), NEW j \in 1..Len(chan'), i < j
       PROVE  Ahead(Range(chan[i]), Range(chan[j]))'
  <2>1. i \in 1..n /\ chan'[i] = chan[i]
    BY <1>4, <1>6, <1>20
  <2>2. CASE j \in 1..n
    BY <1>1, <1>2, <1>4, <1>20, <2>1, <2>2 DEF StagesInv, Ahead, n
  <2>3. CASE j = n + 1
    <3>1. chan'[j] = b /\ Range(chan[i]) \subseteq InChan /\ Range(b) \subseteq Held
      BY <1>1, <1>4, <1>11, <2>1, <2>3, Stages DEF n
    <3> QED
      BY <1>1, <1>2, <2>1, <3>1 DEF StagesInv, Ahead, Before
  <2> QED
    BY <1>4, <1>5, <2>2, <2>3
<1>21. StagesInv'
  <2>1. ASSUME NEW h \in Group PROVE InOrder(kq[h])' /\ InOrder(hand[h])'
    BY <1>1, <1>2, <1>7, NoElement DEF StagesInv, InOrder
  <2>2. InOrder(batch)'
    BY <1>1, <1>2 DEF StagesInv, InOrder
  <2> QED
    BY <1>13, <1>16, <1>17, <1>18, <1>19, <1>20, <2>1, <2>2 DEF StagesInv
<1> QED
  BY <1>8, <1>9, <1>12, <1>13, <1>15, <1>21 DEF IInv

LEMMA RecvBatchKeeps ==
    ASSUME IInv, RecvBatch
    PROVE  IInv' /\ Waiting' = Waiting
<1>1. /\ FlowType /\ LoopInv /\ HomeInv /\ StagesInv /\ RecordInv /\ MissInv
  BY DEF IInv
<1>2. /\ pc = "select" /\ chan # <<>> /\ batch' = Head(chan) /\ chan' = Tail(chan)
      /\ pc' = "process"
      /\ ev' = ev /\ kq' = kq /\ hand' = hand /\ pend' = pend
      /\ stream' = stream /\ windowed' = windowed /\ running' = running
      /\ named' = named
  BY DEF RecvBatch, readVars, procVars
<1> DEFINE n == Len(chan)
<1>3. batch = <<>>
  BY <1>1, <1>2 DEF LoopInv
<1>4. /\ chan \in Seq(Seq(Event)) /\ n \in Nat \ {0} /\ chan' \in Seq(Seq(Event))
      /\ Len(chan') = n - 1 /\ batch' = chan[1]
      /\ \A i \in 1..n - 1 : chan'[i] = chan[i + 1]
  <2>1. chan \in Seq(Seq(Event))
    BY <1>1 DEF FlowType
  <2> QED
    BY <1>2, <2>1, HeadTailProperties, EmptySeq
<1>5. 1 \in 1..n /\ \A i \in 1..n - 1 : i + 1 \in 1..n /\ 1 < i + 1
  BY <1>4
<1>6. \A i, j \in 1..n - 1 : i < j => i + 1 < j + 1
  BY <1>4
<1> HIDE DEF n
<1>7. batch' \in Seq(Event)
  BY <1>4, <1>5, ElementOfSeq DEF n
<1>8. FlowType'
  BY <1>1, <1>2, <1>4, <1>7 DEF FlowType
<1>9. LoopInv'
  BY <1>2 DEF LoopInv
<1>10. Held' = Held /\ Queued' = Queued
  BY <1>2 DEF Held, Queued
<1>11. InChan = InChan' \cup Range(batch')
  <2>1. Range(chan) = Range(chan') \cup {batch'}
    BY <1>2, <1>4, Taken
  <2> QED
    BY <2>1 DEF InChan
<1>12. Waiting' = Waiting
  <2>1. Range(batch) = {}
    BY <1>3, NoElement
  <2> QED
    BY <1>10, <1>11, <2>1 DEF Waiting
<1>13. RecordInv' /\ MissInv' /\ Ahead(Ids, Waiting)' /\ (Waiting \cup Ids \subseteq 1..Len(ev))'
  BY <1>2, <1>12, Moved
<1>14. HomeInv'
  BY <1>1, <1>2, <1>13 DEF HomeInv
<1>15. \A i \in 1..n - 1 : InOrder(chan[i])'
  BY <1>1, <1>2, <1>4, <1>5 DEF StagesInv, InOrder, n
<1>16. ASSUME NEW i \in 1..n - 1, NEW j \in 1..n - 1, i < j
       PROVE  Ahead(Range(chan[i]), Range(chan[j]))'
  <2>1. i + 1 \in 1..n /\ j + 1 \in 1..n /\ i + 1 < j + 1
    BY <1>5, <1>6, <1>16
  <2>2. Before(Range(chan[i + 1]), Range(chan[j + 1]), Older(ev))
    BY <1>1, <2>1 DEF StagesInv, Ahead, n
  <2> QED
    BY <1>2, <1>4, <2>2 DEF Ahead
<1>17. InOrder(batch)'
  BY <1>1, <1>2, <1>4, <1>5 DEF StagesInv, InOrder, n
<1>18. Ahead(InChan, Held \cup Queued)'
  BY <1>1, <1>2, <1>10, <1>11 DEF StagesInv, Ahead, Before
<1>19. Ahead(Range(batch), InChan \cup Held \cup Queued)'
  <2> SUFFICES ASSUME NEW x \in Range(batch'), NEW y \in InChan' \cup Held' \cup Queued'
               PROVE  <<x, y>> \in Older(ev)
    BY <1>2 DEF Ahead, Before
  <2>1. CASE y \in Held \cup Queued
    BY <1>1, <1>11, <2>1 DEF StagesInv, Ahead, Before
  <2>2. CASE y \in InChan'
    <3>1. PICK j \in 1..n - 1 : y \in Range(chan'[j])
      <4>1. \A c : c \in Range(chan') <=> \E i \in 1..n - 1 : chan'[i] = c
        BY <1>4, InRange
      <4> QED
        BY <2>2, <4>1 DEF InChan
    <3>2. y \in Range(chan[j + 1]) /\ 1 < j + 1 /\ j + 1 \in 1..n
      BY <1>4, <1>5, <3>1
    <3> QED
      BY <1>1, <1>4, <1>5, <3>2 DEF StagesInv, Ahead, Before, n
  <2> QED
    BY <1>10, <2>1, <2>2
<1>20. StagesInv'
  <2>1. ASSUME NEW h \in Group PROVE InOrder(kq[h])' /\ InOrder(hand[h])'
    BY <1>1, <1>2 DEF StagesInv, InOrder
  <2>2. Ahead(Held, Queued)'
    BY <1>1, <1>2, <1>10 DEF StagesInv, Ahead
  <2> QED
    BY <1>4, <1>13, <1>15, <1>16, <1>17, <1>18, <1>19, <2>1, <2>2 DEF StagesInv
<1> QED
  BY <1>8, <1>9, <1>12, <1>13, <1>14, <1>20 DEF IInv

-----------------------------------------------------------------------------
(* What one event is recorded as.                                          *)

Pairs == {<<>>, <<"_global">>, <<"_global", "cmd">>}

For(e, side, E, known) ==
    [i \in 1..Len(E) |-> [id |-> e, side |-> side, entry |-> E[i], known |-> known]]

LEMMA ForFacts ==
    ASSUME NEW e \in Event, NEW side \in {"at", "from", "to"}, NEW E \in Pairs,
           NEW known \in BOOLEAN
    PROVE  /\ For(e, side, E, known) \in Seq(Record)
           /\ \A r \in Range(For(e, side, E, known)) : r.id = e /\ r.side = side
           /\ \A v : Chain(For(e, side, E, known), Following(v))
           /\ E # <<>> => Has(Range(For(e, side, E, known)), e, side)
           /\ E = <<"_global", "cmd">> => HasCmd(Range(For(e, side, E, known)), e, side)
<1> DEFINE f == For(e, side, E, known)
<1>1. /\ Len(E) \in Nat /\ Len(E) <= 2
      /\ \A i \in 1..Len(E) : E[i] \in Entry
      /\ \A i, j \in 1..Len(E) : i < j => E[i] # E[j]
      /\ E # <<>> => 1 \in 1..Len(E) /\ E[1] = "_global"
  <2>1. CASE E = <<>>
    BY <2>1
  <2>2. CASE E = <<"_global">>
    <3>1. Len(E) = 1 /\ E[1] = "_global"
      BY <2>2
    <3> QED
      BY <3>1 DEF Entry
  <2>3. CASE E = <<"_global", "cmd">>
    <3>1. Len(E) = 2 /\ E[1] = "_global" /\ E[2] = "cmd"
      BY <2>3
    <3>2. \A i \in 1..2 : i = 1 \/ i = 2
      OBVIOUS
    <3> QED
      BY <3>1, <3>2 DEF Entry
  <2> QED
    BY <2>1, <2>2, <2>3 DEF Pairs
<1>2. \A i \in 1..Len(E) : /\ f[i].id = e /\ f[i].side = side /\ f[i].entry = E[i]
  BY DEF For
<1>3. \A i \in 1..Len(E) : f[i] \in Record
  <2>1. \A i \in 1..Len(E) : f[i] = [id |-> e, side |-> side, entry |-> E[i], known |-> known]
    BY DEF For
  <2>2. \A n \in Entry : [id |-> e, side |-> side, entry |-> n, known |-> known] \in Record
    BY Zenon DEF Record
  <2> HIDE DEF f
  <2> QED
    BY <1>1, <2>1, <2>2
<1>4. f \in Seq(Record) /\ Len(f) = Len(E)
  <2>1. f = [i \in 1..Len(E) |-> f[i]]
    BY DEF For
  <2> HIDE DEF f
  <2>2. f \in [1..Len(E) -> Record]
    BY <1>3, <2>1
  <2> QED
    BY <1>1, <2>2, SeqDef, LenProperties
<1> HIDE DEF f
<1>5. \A x : x \in Range(f) <=> \E i \in 1..Len(E) : f[i] = x
  BY <1>4, InRange
<1>6. \A r \in Range(f) : r.id = e /\ r.side = side
  BY <1>2, <1>5
<1>7. ASSUME NEW v PROVE Chain(f, Following(v))
  <2>1. ASSUME NEW i \in 1..Len(E), NEW j \in 1..Len(E), i < j PROVE <<f[i], f[j]>> \in Following(v)
    <3>1. f[i].entry # f[j].entry
      BY <1>1, <1>2, <2>1
    <3> QED
      BY <1>3, <3>1 DEF Following, Follows
  <2> QED
    BY <1>4, <2>1 DEF Chain
<1>8. ASSUME E # <<>> PROVE Has(Range(f), e, side)
  BY <1>1, <1>2, <1>5, <1>8 DEF Has
<1>9. ASSUME E = <<"_global", "cmd">> PROVE HasCmd(Range(f), e, side)
  <2>1. 2 \in 1..Len(E) /\ E[2] = "cmd"
    BY <1>9
  <2> QED
    BY <1>2, <1>5, <2>1 DEF HasCmd
<1> QED
  BY <1>4, <1>6, <1>7, <1>8, <1>9 DEF f

LEMMA HalvesFacts ==
    ASSUME NEW kind \in Kind
    PROVE  /\ kind = "rename" => Halves(kind) = <<"from", "to">>
           /\ kind = "skip" => Halves(kind) = <<>>
           /\ kind # "rename" /\ kind # "skip" => Halves(kind) = <<"at">>
<1>1. CASE kind = "rename"
  BY <1>1, Zenon DEF Halves
<1>2. CASE kind = "skip"
  BY <1>2, Zenon DEF Halves
<1>3. CASE kind # "rename" /\ kind # "skip"
  BY <1>3, Zenon DEF Halves
<1> QED
  BY <1>1, <1>2, <1>3

LEMMA RecordsUnfold ==
    ASSUME NEW e, NEW E, E = Entries(ev[e]), NEW k, k = (ev[e].by \in Current)
    PROVE  /\ Halves(ev[e].kind) = <<>> => Records(e) = <<>>
           /\ Halves(ev[e].kind) = <<"at">> => Records(e) = For(e, "at", E, k)
           /\ Halves(ev[e].kind) = <<"from", "to">> =>
                Records(e) = For(e, "from", E, k) \o For(e, "to", E, k)
<1>0. /\ Len(<<>>) = 0
      /\ Len(<<"at">>) = 1 /\ <<"at">>[1] = "at"
      /\ Len(<<"from", "to">>) = 2 /\ <<"from", "to">>[1] = "from" /\ <<"from", "to">>[2] = "to"
  OBVIOUS
<1>0a. 0 # 1 /\ 0 # 2 /\ 1 # 2
  OBVIOUS
<1>1. CASE Halves(ev[e].kind) = <<>>
  BY <1>0, <1>0a, <1>1, Zenon DEF Records
<1>2. CASE Halves(ev[e].kind) = <<"at">>
  BY <1>0, <1>0a, <1>2, Zenon DEF Records, For
<1>3. CASE Halves(ev[e].kind) = <<"from", "to">>
  BY <1>0, <1>0a, <1>3, Zenon DEF Records, For
<1> QED
  BY <1>1, <1>2, <1>3

LEMMA SidesFacts ==
    ASSUME NEW e, ev[e].kind \in Kind
    PROVE  /\ ev[e].kind = "rename" => Sides(e) = {"from", "to"}
           /\ ev[e].kind = "skip" => Sides(e) = {}
           /\ ev[e].kind # "rename" /\ ev[e].kind # "skip" => Sides(e) \subseteq {"at"}
<1>1. CASE ev[e].kind = "rename"
  BY <1>1, Zenon DEF Sides
<1>2. CASE ev[e].kind = "skip"
  BY <1>2, Zenon DEF Sides
<1>3. CASE ev[e].kind = "unplaced"
  <2>1. Sides(e) = {}
    BY <1>3, Zenon DEF Sides
  <2> QED
    BY <1>3, <2>1
<1>4. CASE ev[e].kind \notin {"rename", "skip", "unplaced"}
  <2>1. Sides(e) = {"at"}
    BY <1>4, Zenon DEF Sides
  <2> QED
    BY <1>4, <2>1
<1> QED
  BY <1>1, <1>2, <1>3, <1>4

(* The registrations that match are found in a fixed order; the global one *)
(* matches whenever the root is monitored.                                 *)
LEMMA EntriesFacts ==
    ASSUME NEW x
    PROVE  /\ Entries(x) \in Pairs
           /\ InScope(x.group) => Entries(x) # <<>>
           /\ InScope(x.group) /\ MatchesTree("cmd", x.by) => Entries(x) = <<"_global", "cmd">>
<1>1. <<"_global">> # <<>> /\ <<"_global", "cmd">> # <<>>
  OBVIOUS
<1>2. CASE ~InScope(x.group)
  BY <1>2 DEF Entries, Pairs
<1>3. CASE InScope(x.group)
  <2>1. Entries(x) = <<"_global", "cmd">> \/ Entries(x) = <<"_global">>
    BY <1>3, Zenon DEF Entries
  <2>2. MatchesTree("cmd", x.by) => Entries(x) = <<"_global", "cmd">>
    BY <1>3, Zenon DEF Entries
  <2> QED
    BY <1>1, <2>1, <2>2 DEF Pairs
<1> QED
  BY <1>2, <1>3

LEMMA RecordsFacts ==
    ASSUME FlowType, NEW e \in 1..Len(ev)
    PROVE  /\ Records(e) \in Seq(Record)
           /\ \A r \in Range(Records(e)) : r.id = e
           /\ Chain(Records(e), Following(ev))
           /\ InScope(ev[e].group) => \A s \in Sides(e) : Has(Range(Records(e)), e, s)
           /\ InScope(ev[e].group) /\ MatchesTree("cmd", ev[e].by) =>
                \A s \in Sides(e) : HasCmd(Range(Records(e)), e, s)
<1> DEFINE E == Entries(ev[e])
           both == <<"_global", "cmd">>
           k == ev[e].by \in Current
           F(s) == For(e, s, E, k)
<1>1. ev[e] \in Happening
  BY ElementOfSeq DEF FlowType
<1>2. e \in Event
  BY LenProperties, PipelineAssumption DEF FlowType, Event
<1>3. ev[e].kind \in Kind
  BY <1>1 DEF Happening
<1>4. /\ E \in Pairs /\ (InScope(ev[e].group) => E # <<>>)
      /\ InScope(ev[e].group) /\ MatchesTree("cmd", ev[e].by) => E = both
  BY EntriesFacts
<1>5. k \in BOOLEAN
  OBVIOUS
<1>6. /\ Halves(ev[e].kind) = <<>> => Records(e) = <<>>
      /\ Halves(ev[e].kind) = <<"at">> => Records(e) = F("at")
      /\ Halves(ev[e].kind) = <<"from", "to">> => Records(e) = F("from") \o F("to")
  BY RecordsUnfold
<1> HIDE DEF E, k
<1>7. ASSUME NEW s \in {"at", "from", "to"}
      PROVE  /\ F(s) \in Seq(Record)
             /\ \A r \in Range(F(s)) : r.id = e /\ r.side = s
             /\ Chain(F(s), Following(ev))
             /\ E # <<>> => Has(Range(F(s)), e, s)
             /\ E = both => HasCmd(Range(F(s)), e, s)
  BY <1>2, <1>4, <1>5, ForFacts
<1> HIDE DEF F, both
<1>8. CASE ev[e].kind = "skip"
  <2>1. Records(e) = <<>> /\ Sides(e) = {}
    BY <1>3, <1>6, <1>8, HalvesFacts, SidesFacts
  <2>2. <<>> \in Seq(Record)
    BY EmptySeq
  <2> QED
    BY <2>1, <2>2, NoElement
<1>9. CASE ev[e].kind # "rename" /\ ev[e].kind # "skip"
  <2>1. Records(e) = F("at") /\ Sides(e) \subseteq {"at"}
    BY <1>3, <1>6, <1>9, HalvesFacts, SidesFacts
  <2> QED
    BY <1>4, <1>7, <2>1
<1>10. CASE ev[e].kind = "rename"
  <2>1. Records(e) = F("from") \o F("to") /\ Sides(e) = {"from", "to"}
    BY <1>3, <1>6, <1>10, HalvesFacts, SidesFacts
  <2>2. /\ F("from") \in Seq(Record) /\ F("to") \in Seq(Record)
        /\ \A r \in Range(F("from")) : r.id = e /\ r.side = "from"
        /\ \A r \in Range(F("to")) : r.id = e /\ r.side = "to"
        /\ Chain(F("from"), Following(ev)) /\ Chain(F("to"), Following(ev))
        /\ E # <<>> => Has(Range(F("from")), e, "from") /\ Has(Range(F("to")), e, "to")
        /\ E = both => HasCmd(Range(F("from")), e, "from") /\ HasCmd(Range(F("to")), e, "to")
    BY <1>7
  <2>3. Range(F("from")) \subseteq Record /\ Range(F("to")) \subseteq Record
    BY <2>2, InRange
  <2>4. Before(Range(F("from")), Range(F("to")), Following(ev))
    <3>1. ASSUME NEW a \in Range(F("from")), NEW b \in Range(F("to"))
          PROVE  <<a, b>> \in Following(ev)
      BY <2>2, <2>3 DEF Following, Follows
    <3> QED
      BY <3>1 DEF Before
  <2>5. /\ Records(e) \in Seq(Record)
        /\ Range(Records(e)) = Range(F("from")) \cup Range(F("to"))
        /\ Chain(Records(e), Following(ev))
    BY <2>1, <2>2, <2>4, Joined
  <2>6. ASSUME E # <<>> PROVE \A s \in Sides(e) : Has(Range(Records(e)), e, s)
    BY <2>1, <2>2, <2>5, <2>6 DEF Has
  <2>7. ASSUME E = both PROVE \A s \in Sides(e) : HasCmd(Range(Records(e)), e, s)
    BY <2>1, <2>2, <2>5, <2>7 DEF HasCmd
  <2> QED
    BY <1>4, <2>2, <2>5, <2>6, <2>7
<1> QED
  BY <1>8, <1>9, <1>10

LEMMA ProcessEventKeeps ==
    ASSUME IInv, ProcessEvent
    PROVE  /\ IInv' /\ Waiting = Waiting' \cup {Head(batch)}
           /\ Rec' = Rec \cup Range(Records(Head(batch)))
<1> DEFINE e == Head(batch)
           new == Records(e)
<1>1. /\ FlowType /\ LoopInv /\ HomeInv /\ StagesInv /\ RecordInv /\ MissInv
  BY DEF IInv
<1>2. /\ pc = "process" /\ batch # <<>> /\ batch' = Tail(batch) /\ pend' = pend \o new
      /\ ev' = ev /\ kq' = kq /\ hand' = hand /\ chan' = chan /\ pc' = pc
      /\ stream' = stream /\ running' = running /\ named' = named
  BY DEF ProcessEvent, readVars, procVars
<1>3. windowed' = IF InScope(ev[e].group) \/ ev[e].kind = "skip" THEN windowed
                                                                 ELSE windowed \cup {e}
  BY DEF ProcessEvent
<1>4. /\ batch \in Seq(Event) /\ pend \in Seq(Record) /\ stream \in Seq(Record)
  BY <1>1 DEF FlowType
<1>5. batch' \in Seq(Event) /\ Range(batch) = Range(batch') \cup {e}
  BY <1>2, <1>4, Taken
<1>6. Chain(batch', Older(ev)) /\ Before({e}, Range(batch'), Older(ev))
  BY <1>1, <1>2, <1>4, Taken DEF StagesInv, InOrder
<1>7. Waiting \subseteq 1..Len(ev) /\ Ids \subseteq 1..Len(ev)
  BY <1>1 DEF HomeInv
<1>8. e \in Waiting /\ e \in 1..Len(ev)
  BY <1>5, <1>7 DEF Waiting
<1>9. /\ new \in Seq(Record)
      /\ \A r \in Range(new) : r.id = e
      /\ Chain(new, Following(ev))
      /\ InScope(ev[e].group) => \A s \in Sides(e) : Has(Range(new), e, s)
  BY <1>1, <1>8, RecordsFacts
<1>9a. ev[e].kind = "skip" => Sides(e) = {}
  <2>1. ev[e] \in Happening
    BY <1>1, <1>8, ElementOfSeq DEF FlowType
  <2>2. ev[e].kind \in Kind
    BY <2>1 DEF Happening
  <2> QED
    BY <2>2, SidesFacts
<1> HIDE DEF e, new
<1>10. pend' \in Seq(Record) /\ Range(pend') = Range(pend) \cup Range(new)
  BY <1>2, <1>4, <1>9, Joined
<1>11. FlowType'
  BY <1>1, <1>2, <1>5, <1>10 DEF FlowType
<1>12. LoopInv'
  BY <1>2 DEF LoopInv
<1>13. /\ InChan' = InChan /\ Held' = Held /\ Queued' = Queued
       /\ Rec' = Rec \cup Range(new) /\ Ids' \subseteq Ids \cup {e}
  <2>1. InChan' = InChan /\ Held' = Held /\ Queued' = Queued
    BY <1>2 DEF InChan, Held, Queued
  <2>2. Rec' = Rec \cup Range(new)
    BY <1>2, <1>10 DEF Rec
  <2> QED
    BY <1>9, <2>1, <2>2 DEF Ids
<1>14. Waiting = Waiting' \cup {e}
  BY <1>5, <1>13 DEF Waiting
<1>15. HomeInv'
  BY <1>1, <1>2, <1>7, <1>8, <1>13, <1>14 DEF HomeInv
<1>16. Before({e}, Waiting', Older(ev))
  <2> SUFFICES ASSUME NEW y \in Waiting' PROVE <<e, y>> \in Older(ev)
    BY DEF Before
  <2>1. CASE y \in Range(batch')
    BY <1>6, <2>1 DEF Before
  <2>2. CASE y \in InChan \cup Held \cup Queued
    BY <1>1, <1>5, <2>2 DEF StagesInv, Ahead, Before
  <2> QED
    BY <1>13, <2>1, <2>2 DEF Waiting
<1>17. StagesInv'
  <2>1. Ahead(Range(batch), InChan \cup Held \cup Queued)'
    BY <1>1, <1>2, <1>5, <1>13 DEF StagesInv, Ahead, Before
  <2>2. Ahead(Ids, Waiting)'
    BY <1>1, <1>2, <1>13, <1>14, <1>16 DEF StagesInv, Ahead, Before
  <2> QED
    BY <1>1, <1>2, <1>6, <1>13, <2>1, <2>2 DEF StagesInv, InOrder, Ahead
<1>18. RecordInv'
  <2>1. /\ Range(pend) \subseteq Record /\ Range(stream) \subseteq Record
        /\ \A r \in Range(pend) \cup Range(stream) : r.id \in Ids
    BY <1>1, RecFacts
  <2>2. Range(new) \subseteq Record
    BY <1>9, InRange
  <2>3. ASSUME NEW a \in Range(pend) \cup Range(stream), NEW b \in Range(new)
        PROVE  <<a, b>> \in Following(ev)
    <3>1. b.id = e /\ <<a.id, e>> \in Older(ev)
      BY <1>1, <1>8, <1>9, <2>1 DEF StagesInv, Ahead, Before
    <3>2. Follows(ev, a, b)
      BY <3>1 DEF Follows, Older
    <3> QED
      BY <2>1, <2>2, <3>2 DEF Following
  <2>4. Before(Range(pend), Range(new), Following(ev))
    BY <2>3 DEF Before
  <2>5. Chain(pend', Following(ev))
    BY <1>1, <1>2, <1>4, <1>9, <2>4, Joined DEF RecordInv
  <2>6. Before(Range(stream), Range(pend'), Following(ev))
    BY <1>1, <1>10, <2>3 DEF RecordInv, Before
  <2> QED
    BY <1>1, <1>2, <2>5, <2>6 DEF RecordInv
<1>19. MissInv'
  <2>1. ASSUME NEW x \in 1..Len(ev)
        PROVE  x \in Waiting' \cup windowed' \/ \A s \in Sides(x) : Has(Rec', x, s)
    <3>1. windowed \subseteq windowed'
      BY <1>3
    <3>2. CASE x = e
      <4>1. CASE InScope(ev[e].group)
        BY <1>9, <1>13, <3>2, <4>1 DEF Has
      <4>2. CASE ev[e].kind = "skip"
        BY <1>9a, <3>2, <4>2
      <4>3. CASE ~InScope(ev[e].group) /\ ev[e].kind # "skip"
        BY <1>3, <3>2, <4>3
      <4> QED
        BY <4>1, <4>2, <4>3
    <3>3. CASE x # e
      <4>1. x \in Waiting \cup windowed \/ \A s \in Sides(x) : Has(Rec, x, s)
        BY <1>1 DEF MissInv
      <4> QED
        BY <1>13, <1>14, <3>1, <3>3, <4>1 DEF Has
    <3> QED
      BY <3>2, <3>3
  <2>2. \A x : Sides(x)' = Sides(x)
    BY <1>2 DEF Sides
  <2> QED
    BY <1>2, <2>1, <2>2 DEF MissInv
<1> QED
  BY <1>11, <1>12, <1>13, <1>14, <1>15, <1>17, <1>18, <1>19 DEF IInv, e, new

LEMMA PublishKeeps ==
    ASSUME IInv, Publish
    PROVE  IInv' /\ Waiting' = Waiting
<1> DEFINE out == [i \in 1..Len(pend) |-> Patched(pend[i])]
<1>1. /\ FlowType /\ LoopInv /\ HomeInv /\ StagesInv /\ RecordInv /\ MissInv
  BY DEF IInv
<1>2. /\ batch = <<>> /\ batch' = batch /\ pend' = <<>> /\ stream' = stream \o out
      /\ ev' = ev /\ kq' = kq /\ hand' = hand /\ chan' = chan
      /\ windowed' = windowed /\ running' = running /\ named' = named
  BY DEF Publish, readVars, procVars
<1>3. pend \in Seq(Record) /\ stream \in Seq(Record) /\ Len(pend) \in Nat
  BY <1>1, LenProperties DEF FlowType
<1>4. ASSUME NEW r \in Record
      PROVE  /\ Patched(r) \in Record
             /\ Patched(r).id = r.id /\ Patched(r).side = r.side /\ Patched(r).entry = r.entry
  <2> DEFINE k == r.known \/ ev[r.id].by \in Current'
  <2>1. k \in BOOLEAN
    OBVIOUS
  <2>2. Patched(r) = [r EXCEPT !.known = k]
    BY DEF Patched
  <2> HIDE DEF k
  <2>3. Patched(r) \in Record
    BY <2>1, <2>2 DEF Record
  <2>4. Patched(r).id = r.id /\ Patched(r).side = r.side /\ Patched(r).entry = r.entry
    BY <2>2 DEF Record
  <2> QED
    BY <2>3, <2>4
<1>5. \A i \in 1..Len(pend) :
        /\ pend[i] \in Record /\ out[i] \in Record
        /\ out[i].id = pend[i].id /\ out[i].side = pend[i].side /\ out[i].entry = pend[i].entry
  <2>1. \A i \in 1..Len(pend) : pend[i] \in Record
    BY <1>3, ElementOfSeq
  <2>2. \A i \in 1..Len(pend) : out[i] = Patched(pend[i])
    OBVIOUS
  <2> HIDE DEF out
  <2> QED
    BY <1>4, <2>1, <2>2
<1>6. out \in Seq(Record) /\ Len(out) = Len(pend)
  <2>1. out = [i \in 1..Len(pend) |-> out[i]]
    OBVIOUS
  <2> HIDE DEF out
  <2>2. out \in [1..Len(pend) -> Record]
    BY <1>5, <2>1
  <2> QED
    BY <1>3, <2>2, SeqDef, LenProperties
<1> HIDE DEF out
<1>7. /\ \A x : x \in Range(out) <=> \E i \in 1..Len(pend) : out[i] = x
      /\ \A x : x \in Range(pend) <=> \E i \in 1..Len(pend) : pend[i] = x
  BY <1>3, <1>6, InRange
<1>8. stream' \in Seq(Record) /\ Range(stream') = Range(stream) \cup Range(out)
  BY <1>2, <1>3, <1>6, Joined
<1>9. FlowType'
  <2>1. <<>> \in Seq(Record)
    BY EmptySeq
  <2> QED
    BY <1>1, <1>2, <1>8, <2>1 DEF FlowType
<1>10. LoopInv'
  BY <1>2 DEF LoopInv
<1>11. /\ \A r \in Range(out) : \E q \in Range(pend) :
            r.id = q.id /\ r.side = q.side /\ r.entry = q.entry
       /\ \A q \in Range(pend) : \E r \in Range(out) :
            r.id = q.id /\ r.side = q.side /\ r.entry = q.entry
  BY <1>5, <1>7
<1>12. /\ Queued' = Queued /\ Held' = Held /\ InChan' = InChan /\ Waiting' = Waiting
       /\ Rec' = Range(stream) \cup Range(out)
  <2>1. Queued' = Queued /\ Held' = Held /\ InChan' = InChan
    BY <1>2 DEF Queued, Held, InChan
  <2> QED
    BY <1>2, <1>8, <2>1, NoElement DEF Waiting, Rec
<1>13. Ids' = Ids
  BY <1>11, <1>12 DEF Ids, Rec
<1>14. HomeInv'
  BY <1>1, <1>2, <1>12, <1>13 DEF HomeInv
<1>15. StagesInv'
  BY <1>1, <1>2, <1>12, <1>13 DEF StagesInv, InOrder, Ahead
<1>16. RecordInv'
  <2>1. ASSUME NEW a \in Record, NEW b \in Record, NEW c \in Record, NEW d \in Record,
               c.id = a.id, c.side = a.side, c.entry = a.entry,
               d.id = b.id, d.side = b.side, d.entry = b.entry, <<a, b>> \in Following(ev)
        PROVE  <<c, d>> \in Following(ev)
    BY <2>1 DEF Following, Follows
  <2>2. Chain(out, Following(ev))
    <3>1. ASSUME NEW i \in 1..Len(pend), NEW j \in 1..Len(pend), i < j
          PROVE  <<out[i], out[j]>> \in Following(ev)
      <4>1. <<pend[i], pend[j]>> \in Following(ev)
        BY <1>1, <3>1 DEF RecordInv, Chain
      <4> QED
        BY <1>5, <2>1, <4>1
    <3> QED
      BY <1>6, <3>1 DEF Chain
  <2>3. Range(stream) \subseteq Record /\ Range(pend) \subseteq Record /\ Range(out) \subseteq Record
    BY <1>3, <1>6, InRange
  <2>4. Before(Range(stream), Range(out), Following(ev))
    <3> SUFFICES ASSUME NEW a \in Range(stream), NEW d \in Range(out)
                 PROVE  <<a, d>> \in Following(ev)
      BY DEF Before
    <3>1. PICK b \in Range(pend) : d.id = b.id /\ d.side = b.side /\ d.entry = b.entry
      BY <1>11
    <3>2. <<a, b>> \in Following(ev)
      BY <1>1 DEF RecordInv, Before
    <3> QED
      BY <2>1, <2>3, <3>1, <3>2
  <2>5. Chain(stream', Following(ev))
    BY <1>1, <1>2, <1>3, <1>6, <2>2, <2>4, Joined DEF RecordInv
  <2> QED
    BY <1>2, <2>5, NoElement DEF RecordInv, Before
<1>17. MissInv'
  <2>1. ASSUME NEW x, NEW s, Has(Rec, x, s) PROVE Has(Rec', x, s)
    BY <1>11, <1>12, <2>1 DEF Has, Rec
  <2>2. \A x : Sides(x)' = Sides(x)
    BY <1>2 DEF Sides
  <2> QED
    BY <1>1, <1>2, <1>12, <2>1, <2>2 DEF MissInv
<1> QED
  BY <1>9, <1>10, <1>12, <1>14, <1>15, <1>16, <1>17 DEF IInv

-----------------------------------------------------------------------------
LEMMA Started ==
    ASSUME Init PROVE IInv
<1>1. /\ running = Boot /\ named = BootNamed /\ ev = <<>> /\ chan = <<>>
      /\ kq = [g \in Group |-> <<>>] /\ hand = [g \in Group |-> <<>>]
      /\ batch = <<>> /\ pend = <<>> /\ stream = <<>>
  BY DEF Init
<1>2. /\ \A S : <<>> \in Seq(S)
      /\ Len(<<>>) = 0 /\ Range(<<>>) = {} /\ \A R : Chain(<<>>, R)
  BY EmptySeq, NoElement
<1>3. FlowType
  BY <1>1, <1>2, PipelineAssumption DEF FlowType
<1>4. Queued = {} /\ Held = {} /\ InChan = {} /\ Rec = {}
  BY <1>1, <1>2 DEF Queued, Held, InChan, Rec
<1>5. Waiting = {} /\ Ids = {}
  BY <1>1, <1>2, <1>4 DEF Waiting, Ids
<1>6. LoopInv
  BY <1>1 DEF LoopInv
<1>7. HomeInv
  BY <1>1, <1>2, <1>5 DEF HomeInv
<1>8. StagesInv
  BY <1>1, <1>2, <1>4, <1>5 DEF StagesInv, InOrder, Ahead, Before
<1>9. RecordInv
  BY <1>1, <1>2 DEF RecordInv, Before
<1>10. MissInv
  BY <1>1, <1>2 DEF MissInv
<1> QED
  BY <1>3, <1>6, <1>7, <1>8, <1>9, <1>10 DEF IInv

LEMMA Inductive ==
    ASSUME IInv, [Next]_vars PROVE IInv'
<1> USE DEF procVars, readVars, trackVars, mainVars, flowVars
<1>0. /\ running \subseteq Proc /\ named \subseteq Proc
      /\ pc # "process" => batch = <<>> /\ pend = <<>>
  BY DEF IInv, FlowType, LoopInv
<1>1. CASE UNCHANGED vars
  BY <1>0, <1>1, FlowUnchanged DEF vars
<1>2. CASE RecvBatch
  BY <1>2, RecvBatchKeeps
<1>3. CASE ProcessEvent
  BY <1>3, ProcessEventKeeps
<1>4. CASE Publish
  BY <1>4, PublishKeeps
<1>5. CASE Stop
  BY <1>0, <1>5, FlowUnchanged DEF Stop
<1>6. CASE ProcReadable
  BY <1>0, <1>6, FlowUnchanged DEF ProcReadable
<1>7. CASE Signal
  BY <1>0, <1>7, FlowUnchanged DEF Signal
<1>8. ASSUME NEW g \in Group, ReadEvents(g) PROVE IInv'
  BY <1>8, ReadEventsKeeps
<1>8a. ASSUME NEW g \in Group, ReadFails(g) PROVE IInv'
  BY <1>0, <1>8a, FlowUnchanged DEF ReadFails
<1>9. ASSUME NEW g \in Group, ReaderSends(g) PROVE IInv'
  BY <1>9, ReaderSendsKeeps
<1>10. ASSUME NEW g \in Group, Remonitor(g) PROVE IInv'
  BY <1>0, <1>10, FlowUnchanged DEF Remonitor
<1>11. ASSUME NEW p \in Proc, NEW q \in Proc, Fork(q, p) PROVE IInv'
  BY <1>0, <1>11, FlowUnchanged DEF Fork
<1>12. ASSUME NEW p \in Proc, SetName(p) PROVE IInv'
  BY <1>0, <1>12, FlowUnchanged DEF SetName
<1>13. ASSUME NEW p \in Proc, Exit(p) PROVE IInv'
  BY <1>0, <1>13, FlowUnchanged DEF Exit
<1>14. ASSUME NEW p \in Proc, NEW g \in Group, NEW kind \in Kind, Emit(p, g, kind) PROVE IInv'
  BY <1>14, EmitKeeps
<1> QED
  BY <1>1, <1>2, <1>3, <1>4, <1>5, <1>6, <1>7, <1>8, <1>8a, <1>9, <1>10, <1>11, <1>12, <1>13,
     <1>14
  DEF Next, MainStep, ReaderStep

LEMMA MissImplies ==
    ASSUME IInv PROVE NoneMissed
<1>1. FlowType /\ MissInv
  BY DEF IInv
<1>2. /\ pend \in Seq(Record) /\ stream \in Seq(Record) /\ DOMAIN ev = 1..Len(ev)
      /\ DOMAIN chan = 1..Len(chan)
  BY <1>1, LenProperties DEF FlowType
<1>3. Range(pend \o stream) = Rec
  BY <1>2, Joined DEF Rec
<1>4. ASSUME NEW e \in Waiting PROVE InFlight(e)
  <2>1. /\ e \in Queued => \E g \in Group : e \in Range(kq[g])
        /\ e \in Held => \E g \in Group : e \in Range(hand[g])
        /\ e \in InChan => \E i \in 1..Len(chan) : e \in Range(chan[i])
    BY <1>1, Stages
  <2> QED
    BY <1>2, <2>1 DEF Waiting, InFlight
<1>5. ASSUME NEW e \in Processed \ windowed, NEW s \in Sides(e)
      PROVE  Recorded(e, s, "_global")
  <2>1. e \in 1..Len(ev) /\ e \notin Waiting \cup windowed
    BY <1>2, <1>4 DEF Processed
  <2>2. Has(Rec, e, s)
    BY <1>1, <2>1 DEF MissInv
  <2> QED
    BY <1>3, <2>2 DEF Has, Recorded
<1> QED
  BY <1>5 DEF NoneMissed

LEMMA OrderImplies ==
    ASSUME IInv PROVE OnceInOrder
<1>1. /\ stream \in Seq(Record) /\ Chain(stream, Following(ev))
  BY DEF IInv, FlowType, RecordInv
<1>2. DOMAIN stream = 1..Len(stream) /\ Len(stream) \in Nat
  BY <1>1, LenProperties
<1>3. ASSUME NEW j \in DOMAIN stream, NEW i \in 1..(j - 1)
      PROVE  Follows(ev, stream[i], stream[j])
  <2>1. i \in 1..Len(stream) /\ j \in 1..Len(stream) /\ i < j
    BY <1>2
  <2>2. <<stream[i], stream[j]>> \in Following(ev)
    BY <1>1, <2>1 DEF Chain
  <2> QED
    BY <2>2 DEF Following
<1> QED
  BY <1>3 DEF OnceInOrder, Follows

(* For every number of groups and every capacity of the channel: of the    *)
(* file events that have left the kernel's queue, the readers' batches,    *)
(* the channel and the batch of the main loop, each is recorded for the    *)
(* global cmd, unless the decoder dropped it because its directory is not  *)
(* in the cache (fid_parser.rs, decode_events), or its root was gone when  *)
(* it was processed (monitor.rs, reader.rs, monitor/events.rs).            *)
THEOREM NoEventMissed == Spec => []NoneMissed
<1>1. Init => IInv
  BY Started
<1>2. IInv /\ [Next]_vars => IInv'
  BY Inductive
<1>3. IInv => NoneMissed
  BY MissImplies
<1> QED
  BY <1>1, <1>2, <1>3, PTL DEF Spec

(* The stream has the events of each group in the order of the kernel and  *)
(* each of them once per entry, however the readers, the channel and the   *)
(* main loop interleave.                                                   *)
THEOREM StreamInOrder == Spec => []OnceInOrder
<1>1. Init => IInv
  BY Started
<1>2. IInv /\ [Next]_vars => IInv'
  BY Inductive
<1>3. IInv => OnceInOrder
  BY OrderImplies
<1> QED
  BY <1>1, <1>2, <1>3, PTL DEF Spec


-----------------------------------------------------------------------------
(* The tracker.  What the socket still holds, applied to what the tracker  *)
(* knows, is the state of the processes, until a message is lost.          *)

Ran == {p \in Proc : line[p] # {}}

RestType ==
    /\ tdead \subseteq Proc /\ tnamed \subseteq Proc
    /\ line \in [Proc -> SUBSET Proc] /\ tline \in [Proc -> SUBSET Proc]
    /\ conn \in Seq(Message) /\ Len(conn) <= ConnCap /\ overrun \in BOOLEAN
    /\ ready \in [Group -> BOOLEAN] /\ stranded \subseteq Group
    /\ Len(chan) <= ChanCap
    /\ root \in [Group -> {"monitored", "pending"}]
    /\ pc \in {"select", "process", "stopped"} /\ stopping \in BOOLEAN
    /\ windowed \subseteq Event /\ atSignal \subseteq Event

LineInv ==
    /\ running \subseteq Ran /\ named \subseteq Ran
    /\ \A p \in Ran : p \in line[p] /\ line[p] \subseteq Ran
    /\ \A e \in 1..Len(ev) :
         /\ ev[e].by \in Ran
         /\ ev[e].of \subseteq line[ev[e].by] /\ ev[e].of \subseteq named

TrackInv ==
    ~overrun => /\ Applied = line
                /\ tdead \cup Of("exit") = Ran \ running
                /\ tnamed \cup Of("comm") = named

(* The drain before a batch is enough for all its events, also for those   *)
(* that are patched after the signal without a second drain.               *)
InBatch == Range(batch) \cup {r.id : r \in Range(pend)}
BatchInv ==
    pc = "process" /\ ~overrun =>
      \A e \in InBatch : tline[ev[e].by] = line[ev[e].by] /\ ev[e].of \subseteq tnamed

(* Some cmd among the ancestors runs, with all that is between. *)
Alive(e) == \E a \in ev[e].of : {x \in line[ev[e].by] : a \in line[x]} \subseteq running
CmdInv ==
    \A e \in 1..Len(ev) :
      \/ e \in Waiting \cup windowed
      \/ ~overrun /\ Alive(e) => \A s \in Sides(e) : HasCmd(Rec, e, s)

KnownInv ==
    \A r \in Range(stream) : ~overrun /\ ev[r.id].by \in running => r.known

KInv == IInv /\ RestType /\ LineInv /\ TrackInv /\ BatchInv /\ CmdInv /\ KnownInv

-----------------------------------------------------------------------------
(* What a sequence of messages does to the tracker, by induction on the    *)
(* number of messages applied.                                             *)

(* f is what AttachAll's upTo is after 0, 1, ... N messages. *)
UpTo(f, t, s, N) == f = [n \in 0..N |-> IF n = 0 THEN t ELSE Attach(f[n - 1], s[n])]

LEMMA UpToExists ==
    ASSUME NEW t, NEW s, NEW N \in Nat
    PROVE  \E f : UpTo(f, t, s, N)
<1> DEFINE T == {n \in Nat : \E f : UpTo(f, t, s, n)}
<1>1. 0 \in T
  <2> DEFINE f == [n \in 0..0 |-> t]
  <2>1. \A n \in 0..0 : n = 0
    OBVIOUS
  <2>2. UpTo(f, t, s, 0)
    BY <2>1 DEF UpTo
  <2> QED
    BY <2>2
<1>2. ASSUME NEW m \in T PROVE m + 1 \in T
  <2>1. PICK f : UpTo(f, t, s, m)
    OBVIOUS
  <2> DEFINE g == [n \in 0..m + 1 |-> IF n = m + 1 THEN Attach(f[m], s[m + 1]) ELSE f[n]]
  <2>2. m \in Nat
    OBVIOUS
  <2> HIDE DEF T
  <2>3. \A n \in 0..m + 1 : n \in 0..m \/ n = m + 1
    BY <2>2
  <2>4. /\ \A n \in 0..m : n # m + 1 /\ n \in 0..m + 1
        /\ \A n \in 0..m : n # 0 => n - 1 \in 0..m
    BY <2>2
  <2>5. \A n \in 0..m : g[n] = f[n]
    BY <2>4
  <2>6. g[m + 1] = Attach(f[m], s[m + 1])
    BY <2>2
  <2>7. \A n \in 0..m : f[n] = IF n = 0 THEN t ELSE Attach(f[n - 1], s[n])
    BY <2>1 DEF UpTo
  <2>8. g = [n \in 0..m + 1 |-> g[n]]
    OBVIOUS
  <2> HIDE DEF g
  <2>9. ASSUME NEW n \in 0..m + 1 PROVE g[n] = IF n = 0 THEN t ELSE Attach(g[n - 1], s[n])
    <3>1. CASE n \in 0..m
      BY <2>4, <2>5, <2>7, <3>1
    <3>2. CASE n = m + 1
      <4>1. n # 0 /\ n - 1 = m /\ m \in 0..m
        BY <2>2, <3>2
      <4> QED
        BY <2>5, <2>6, <3>2, <4>1
    <3> QED
      BY <2>3, <3>1, <3>2
  <2>10. UpTo(g, t, s, m + 1)
    BY <2>8, <2>9 DEF UpTo
  <2> QED
    BY <2>2, <2>10 DEF T
<1>3. T = Nat
  <2> HIDE DEF T
  <2>1. T \subseteq Nat
    BY DEF T
  <2> QED
    BY <1>1, <1>2, <2>1, SetInduction
<1> QED
  BY <1>3

LEMMA AttachAllDef ==
    ASSUME NEW t, NEW s, Len(s) \in Nat
    PROVE  \E f : /\ AttachAll(t, s) = f[Len(s)] /\ f[0] = t
                  /\ \A n \in 1..Len(s) : f[n] = Attach(f[n - 1], s[n])
<1> DEFINE upTo == CHOOSE f : UpTo(f, t, s, Len(s))
<1>1. UpTo(upTo, t, s, Len(s))
  BY UpToExists
<1>2. AttachAll(t, s) = upTo[Len(s)]
  BY DEF AttachAll, UpTo
<1> HIDE DEF upTo
<1>3. \A n \in 0..Len(s) : upTo[n] = IF n = 0 THEN t ELSE Attach(upTo[n - 1], s[n])
  BY <1>1 DEF UpTo
<1>4. 0 \in 0..Len(s) /\ \A n \in 1..Len(s) : n \in 0..Len(s) /\ n # 0
  OBVIOUS
<1>5. upTo[0] = t /\ \A n \in 1..Len(s) : upTo[n] = Attach(upTo[n - 1], s[n])
  BY <1>3, <1>4
<1> QED
  BY <1>2, <1>5

LEMMA AttachAllEmpty ==
    ASSUME NEW t PROVE AttachAll(t, <<>>) = t
<1>1. Len(<<>>) = 0
  BY EmptySeq
<1> QED
  BY <1>1, AttachAllDef

LEMMA AttachAllAppend ==
    ASSUME NEW t, NEW s \in Seq(Message), NEW x \in Message
    PROVE  AttachAll(t, Append(s, x)) = Attach(AttachAll(t, s), x)
<1> DEFINE u == Append(s, x)
           n == Len(s)
<1>1. n \in Nat /\ Len(u) = n + 1 /\ u[n + 1] = x /\ \A i \in 1..n : u[i] = s[i]
  BY AppendProperties, LenProperties
<1> HIDE DEF u, n
<1>2. PICK f : /\ AttachAll(t, s) = f[n] /\ f[0] = t
               /\ \A i \in 1..n : f[i] = Attach(f[i - 1], s[i])
  BY <1>1, AttachAllDef DEF n
<1>3. PICK g : /\ AttachAll(t, u) = g[n + 1] /\ g[0] = t
               /\ \A i \in 1..n + 1 : g[i] = Attach(g[i - 1], u[i])
  <2>1. Len(u) \in Nat
    BY <1>1
  <2>2. \E g : /\ AttachAll(t, u) = g[Len(u)] /\ g[0] = t
               /\ \A i \in 1..Len(u) : g[i] = Attach(g[i - 1], u[i])
    BY <2>1, AttachAllDef
  <2> QED
    BY <1>1, <2>2
<1> DEFINE T == {i \in Nat : i <= n => f[i] = g[i]}
<1>4. 0 \in T
  BY <1>2, <1>3
<1>5. ASSUME NEW i \in T PROVE i + 1 \in T
  <2>1. i \in Nat /\ i + 1 \in Nat
    OBVIOUS
  <2>2. CASE i + 1 <= n
    <3>1. i <= n /\ i + 1 \in 1..n /\ i + 1 \in 1..n + 1 /\ (i + 1) - 1 = i
      BY <1>1, <2>1, <2>2
    <3>2. f[i + 1] = Attach(f[i], s[i + 1]) /\ g[i + 1] = Attach(g[i], u[i + 1])
      BY <1>2, <1>3, <3>1
    <3>3. f[i + 1] = g[i + 1]
      BY <1>1, <3>1, <3>2
    <3> QED
      BY <2>1, <3>3
  <2> QED
    BY <2>1, <2>2
<1>6. T = Nat
  <2> HIDE DEF T
  <2>1. T \subseteq Nat
    BY DEF T
  <2> QED
    BY <1>4, <1>5, <2>1, SetInduction
<1>7. f[n] = g[n]
  BY <1>1, <1>6
<1>8. n + 1 \in 1..n + 1 /\ (n + 1) - 1 = n
  BY <1>1
<1> QED
  BY <1>1, <1>2, <1>3, <1>7, <1>8 DEF u

LEMMA AttachType ==
    ASSUME NEW t \in [Proc -> SUBSET Proc], NEW m \in Message
    PROVE  Attach(t, m) \in [Proc -> SUBSET Proc]
<1>1. m.proc \in Proc /\ m.from \in Proc
  BY DEF Message
<1>2. t[m.from] \cup {m.proc} \in SUBSET Proc
  BY <1>1
<1> QED
  BY <1>2 DEF Attach

LEMMA AttachAllType ==
    ASSUME NEW t \in [Proc -> SUBSET Proc], NEW s \in Seq(Message)
    PROVE  AttachAll(t, s) \in [Proc -> SUBSET Proc]
<1> DEFINE n == Len(s)
<1>1. n \in Nat /\ \A i \in 1..n : s[i] \in Message
  BY LenProperties, ElementOfSeq
<1>2. PICK f : /\ AttachAll(t, s) = f[n] /\ f[0] = t
               /\ \A i \in 1..n : f[i] = Attach(f[i - 1], s[i])
  <2>1. Len(s) \in Nat
    BY <1>1
  <2> HIDE DEF n
  <2>2. \E f : /\ AttachAll(t, s) = f[Len(s)] /\ f[0] = t
               /\ \A i \in 1..Len(s) : f[i] = Attach(f[i - 1], s[i])
    BY <2>1, AttachAllDef
  <2> QED
    BY <2>2 DEF n
<1> HIDE DEF n
<1> DEFINE T == {i \in Nat : i <= n => f[i] \in [Proc -> SUBSET Proc]}
<1>3. 0 \in T
  BY <1>2
<1>4. ASSUME NEW i \in T PROVE i + 1 \in T
  <2>1. i \in Nat /\ i + 1 \in Nat
    OBVIOUS
  <2>2. CASE i + 1 <= n
    <3>1. i <= n /\ i + 1 \in 1..n /\ (i + 1) - 1 = i
      BY <1>1, <2>1, <2>2
    <3>2. f[i + 1] = Attach(f[i], s[i + 1]) /\ f[i] \in [Proc -> SUBSET Proc]
      BY <1>2, <3>1
    <3>3. f[i + 1] \in [Proc -> SUBSET Proc]
      BY <1>1, <3>1, <3>2, AttachType
    <3> QED
      BY <2>1, <3>3
  <2> QED
    BY <2>1, <2>2
<1>5. T = Nat
  <2> HIDE DEF T
  <2>1. T \subseteq Nat
    BY DEF T
  <2> QED
    BY <1>3, <1>4, <2>1, SetInduction
<1> QED
  BY <1>1, <1>2, <1>5

-----------------------------------------------------------------------------
(* Messages sent, and messages taken.                                      *)

LEMMA OfFacts ==
    ASSUME conn \in Seq(Message)
    PROVE  /\ \A k : Of(k) \subseteq Proc
           /\ \A k, p : p \in Of(k) <=> \E m \in Range(conn) : m.is = k /\ m.proc = p
<1>1. Range(conn) \subseteq Message
  BY InRange
<1>2. \A m \in Message : m.proc \in Proc
  BY DEF Message
<1> QED
  BY <1>1, <1>2 DEF Of

LEMMA OfAppended ==
    ASSUME conn \in Seq(Message), NEW m \in Message, conn' = Append(conn, m), NEW CONSTANT k
    PROVE  /\ m.is = k => Of(k)' = Of(k) \cup {m.proc}
           /\ m.is # k => Of(k)' = Of(k)
<1>1. Range(conn') = Range(conn) \cup {m}
  BY AppendedRange
<1> QED
  BY <1>1 DEF Of

LEMMA Notified ==
    ASSUME RestType, NEW m \in Message, Notify(m)
    PROVE  /\ conn' \in Seq(Message) /\ Len(conn') <= ConnCap /\ overrun' \in BOOLEAN
           /\ overrun => overrun'
           /\ ~overrun' => conn' = Append(conn, m)
<1>1. conn \in Seq(Message) /\ Len(conn) \in Nat /\ ConnCap \in Nat /\ Len(conn) <= ConnCap
      /\ overrun \in BOOLEAN
  BY LenProperties, PipelineAssumption DEF RestType
<1>2. CASE Len(conn) < ConnCap
  <2>1. conn' = Append(conn, m) /\ overrun' = overrun
    BY <1>2 DEF Notify
  <2>2. Append(conn, m) \in Seq(Message) /\ Len(Append(conn, m)) = Len(conn) + 1
    BY <1>1, AppendProperties
  <2> QED
    BY <1>1, <1>2, <2>1, <2>2
<1>3. CASE ~(Len(conn) < ConnCap)
  <2>1. overrun' = TRUE /\ conn' = conn
    BY <1>3 DEF Notify
  <2> QED
    BY <1>1, <2>1
<1> QED
  BY <1>2, <1>3

LEMMA DrainFacts ==
    ASSUME RestType, LineInv, TrackInv, DrainConn, UNCHANGED <<line, named, running, overrun>>
    PROVE  /\ conn' \in Seq(Message) /\ Len(conn') <= ConnCap
           /\ tline' \in [Proc -> SUBSET Proc] /\ tdead' \subseteq Proc /\ tnamed' \subseteq Proc
           /\ TrackInv'
           /\ ~overrun => tline' = line /\ tdead' = Ran \ running /\ tnamed' = named
<1>1. /\ conn \in Seq(Message) /\ tline \in [Proc -> SUBSET Proc] /\ ConnCap \in Nat
      /\ tdead \subseteq Proc /\ tnamed \subseteq Proc
  BY PipelineAssumption DEF RestType
<1>2. conn' = <<>> /\ conn' \in Seq(Message) /\ Len(conn') = 0 /\ Range(conn') = {}
  BY EmptySeq, NoElement DEF DrainConn
<1>3. /\ Of("exit") \subseteq Proc /\ Of("comm") \subseteq Proc
  BY <1>1, OfFacts
<1>4. Enriched \subseteq Of("comm")
  BY DEF Enriched
<1>5. /\ tline' = Applied /\ tdead' = tdead \cup Of("exit") /\ tnamed' = tnamed \cup Enriched
  BY DEF DrainConn
<1>6. tline' \in [Proc -> SUBSET Proc]
  BY <1>1, <1>5, AttachAllType DEF Applied
<1>7. ASSUME ~overrun PROVE tline' = line /\ tdead' = Ran \ running /\ tnamed' = named
  <2>1. /\ Applied = line /\ tdead \cup Of("exit") = Ran \ running
        /\ tnamed \cup Of("comm") = named
    BY <1>7 DEF TrackInv
  <2>2. Of("comm") \subseteq Ran
    BY <2>1 DEF LineInv
  <2>3. Enriched = Of("comm")
    BY <2>1, <2>2 DEF Enriched, Ran
  <2> QED
    BY <1>5, <2>1, <2>3
<1>8. TrackInv'
  <2>1. Of("exit")' = {} /\ Of("comm")' = {}
    BY <1>2 DEF Of
  <2>2. Applied' = tline'
    BY <1>2, AttachAllEmpty DEF Applied
  <2>3. Ran' = Ran
    BY DEF Ran
  <2> QED
    BY <1>7, <2>1, <2>2, <2>3 DEF TrackInv
<1> QED
  BY <1>1, <1>2, <1>3, <1>4, <1>5, <1>6, <1>7, <1>8

(* A step of the processes does nothing to what was decided before.        *)
LEMMA Settled ==
    ASSUME KInv, ev' = ev, overrun => overrun',
           \A p \in Ran : line'[p] = line[p] /\ (p \in running' => p \in running)
    PROVE  /\ \A e \in 1..Len(ev) : line'[ev[e].by] = line[ev[e].by] /\ (Alive(e)' => Alive(e))
           /\ UNCHANGED stream => KnownInv'
           /\ UNCHANGED <<pc, batch, pend, trackVars>> => BatchInv'
           /\ (\A e \in Waiting : e \in Waiting' \/ Sides(e) = {})
              /\ windowed \subseteq windowed'
              /\ (\A e, s : HasCmd(Rec, e, s) => HasCmd(Rec', e, s)) => CmdInv'
<1>1. IInv /\ LineInv /\ BatchInv /\ CmdInv /\ KnownInv /\ FlowType /\ HomeInv
  BY DEF KInv, IInv
<1>2. ASSUME NEW e \in 1..Len(ev)
      PROVE  line'[ev[e].by] = line[ev[e].by] /\ (Alive(e)' => Alive(e))
  <2>1. ev[e].by \in Ran /\ ev[e].of \subseteq line[ev[e].by]
    BY <1>1 DEF LineInv
  <2>2. \A x \in line[ev[e].by] : x \in Ran
    BY <1>1, <2>1 DEF LineInv
  <2>3. line'[ev[e].by] = line[ev[e].by]
    BY <2>1
  <2>4. ASSUME Alive(e)' PROVE Alive(e)
    <3>1. PICK a \in ev[e].of : {x \in line'[ev[e].by] : a \in line'[x]} \subseteq running'
      BY <2>4 DEF Alive
    <3>2. \A x \in line[ev[e].by] : a \in line[x] => x \in running
      BY <2>2, <2>3, <3>1
    <3> QED
      BY <3>2 DEF Alive
  <2> QED
    BY <2>3, <2>4
<1>3. /\ InBatch \subseteq 1..Len(ev)
      /\ \A r \in Range(stream) : r.id \in 1..Len(ev)
  BY <1>1, RecFacts DEF HomeInv, InBatch, Waiting, Ids, Rec
<1>4. \A e \in 1..Len(ev) : ev[e].by \in Ran
  BY <1>1 DEF LineInv
<1>5. ASSUME UNCHANGED stream PROVE KnownInv'
  <2>1. \A r \in Range(stream) : ~overrun' /\ ev[r.id].by \in running' => r.known
    BY <1>1, <1>3, <1>4 DEF KnownInv
  <2> QED
    BY <1>5, <2>1 DEF KnownInv
<1>6. ASSUME UNCHANGED <<pc, batch, pend, trackVars>> PROVE BatchInv'
  <2>1. InBatch' = InBatch /\ tline' = tline /\ tnamed' = tnamed /\ pc' = pc
    BY <1>6 DEF InBatch, trackVars
  <2> QED
    BY <1>1, <1>2, <1>3, <2>1 DEF BatchInv
<1>7. ASSUME \A e \in Waiting : e \in Waiting' \/ Sides(e) = {}, windowed \subseteq windowed',
             \A e, s : HasCmd(Rec, e, s) => HasCmd(Rec', e, s)
      PROVE  CmdInv'
  <2>1. \A e : Sides(e)' = Sides(e)
    BY DEF Sides
  <2>2. ASSUME NEW e \in 1..Len(ev)
        PROVE  \/ e \in Waiting' \cup windowed'
               \/ ~overrun' /\ Alive(e)' => \A s \in Sides(e) : HasCmd(Rec', e, s)
    BY <1>1, <1>2, <1>7 DEF CmdInv
  <2> QED
    BY <2>1, <2>2 DEF CmdInv
<1> QED
  BY <1>2, <1>5, <1>6, <1>7

-----------------------------------------------------------------------------
(* The steps.                                                              *)

LEMMA ForkKeeps ==
    ASSUME KInv, IInv', NEW q \in Proc, NEW p \in Proc, Fork(q, p)
    PROVE  KInv'
<1> DEFINE m == [is |-> "spawn", proc |-> p, from |-> q]
<1>1. /\ IInv /\ RestType /\ LineInv /\ TrackInv
  BY DEF KInv
<1>2. /\ q \in running /\ line[p] = {} /\ running' = running \cup {p}
      /\ line' = [line EXCEPT ![p] = line[q] \cup {p}] /\ Notify(m)
      /\ UNCHANGED <<named, trackVars, ev, readVars, chan, root, mainVars>>
  BY DEF Fork
<1>3. m \in Message
  BY DEF Message
<1>4. /\ conn' \in Seq(Message) /\ Len(conn') <= ConnCap /\ overrun' \in BOOLEAN
      /\ overrun => overrun'
      /\ ~overrun' => conn' = Append(conn, m)
  BY <1>1, <1>2, <1>3, Notified
<1>5. line \in [Proc -> SUBSET Proc] /\ conn \in Seq(Message) /\ tline \in [Proc -> SUBSET Proc]
  BY <1>1 DEF RestType
<1>6. /\ line' \in [Proc -> SUBSET Proc] /\ line'[p] = line[q] \cup {p}
      /\ \A x \in Proc \ {p} : line'[x] = line[x]
  BY <1>2, <1>5
<1>7. p \notin Ran /\ Ran' = Ran \cup {p} /\ q \in Ran /\ running \subseteq Ran
  <2>1. p \notin Ran
    BY <1>2 DEF Ran
  <2>2. Ran' = Ran \cup {p}
    BY <1>6 DEF Ran
  <2> QED
    BY <1>1, <1>2, <2>1, <2>2 DEF LineInv
<1>8. m.is = "spawn" /\ m.proc = p /\ m.from = q
  OBVIOUS
<1> HIDE DEF m
<1>9. RestType'
  BY <1>1, <1>2, <1>4, <1>6 DEF RestType, trackVars, readVars, mainVars
<1>10. \A x \in Ran : line'[x] = line[x] /\ x \in Proc
  BY <1>6, <1>7 DEF Ran
<1>11. LineInv'
  <2>1. running' \subseteq Ran' /\ named' \subseteq Ran'
    BY <1>1, <1>2, <1>7 DEF LineInv
  <2>2. ASSUME NEW x \in Ran' PROVE x \in line'[x] /\ line'[x] \subseteq Ran'
    <3>1. CASE x = p
      BY <1>1, <1>6, <1>7, <3>1 DEF LineInv
    <3>2. CASE x \in Ran
      BY <1>1, <1>7, <1>10, <3>2 DEF LineInv
    <3> QED
      BY <1>7, <3>1, <3>2
  <2>3. ASSUME NEW e \in 1..Len(ev)
        PROVE  ev[e].by \in Ran' /\ ev[e].of \subseteq line'[ev[e].by] /\ ev[e].of \subseteq named'
    BY <1>1, <1>2, <1>7, <1>10 DEF LineInv
  <2> QED
    BY <1>2, <2>1, <2>2, <2>3 DEF LineInv
<1>12. TrackInv'
  <2> SUFFICES ASSUME ~overrun' PROVE /\ Applied' = line'
                                      /\ tdead' \cup Of("exit")' = Ran' \ running'
                                      /\ tnamed' \cup Of("comm")' = named'
    BY DEF TrackInv
  <2>1. conn' = Append(conn, m) /\ ~overrun
    BY <1>4
  <2>2. /\ Applied = line /\ tdead \cup Of("exit") = Ran \ running
        /\ tnamed \cup Of("comm") = named
    BY <1>1, <2>1 DEF TrackInv
  <2>3. Of("exit")' = Of("exit") /\ Of("comm")' = Of("comm")
    BY <1>3, <1>5, <1>8, <2>1, OfAppended
  <2>4. Applied' = line'
    <3>1. Applied' = Attach(line, m)
      BY <1>2, <1>3, <2>1, <2>2, AttachAllAppend, <1>5 DEF Applied, trackVars
    <3> QED
      BY <1>2, <1>8, <3>1 DEF Attach
  <2>5. Ran' \ running' = Ran \ running
    BY <1>2, <1>7
  <2> QED
    BY <1>2, <2>2, <2>3, <2>4, <2>5 DEF trackVars
<1>13. BatchInv' /\ KnownInv' /\ CmdInv'
  <2>1. \A x \in Ran : line'[x] = line[x] /\ (x \in running' => x \in running)
    BY <1>2, <1>7, <1>10
  <2>2. UNCHANGED <<ev, pc, batch, pend, stream, windowed, trackVars>>
    BY <1>2 DEF mainVars
  <2>3. Waiting' = Waiting /\ Rec' = Rec
    BY <1>2 DEF Waiting, Queued, Held, InChan, Rec, readVars, mainVars
  <2>4. BatchInv' /\ KnownInv'
    BY <1>4, <2>1, <2>2, Settled
  <2>5. CmdInv'
    BY <1>4, <2>1, <2>2, <2>3, Settled
  <2> QED
    BY <2>4, <2>5
<1> QED
  BY <1>9, <1>11, <1>12, <1>13 DEF KInv

LEMMA SetNameKeeps ==
    ASSUME KInv, IInv', NEW p \in Proc, SetName(p)
    PROVE  KInv'
<1> DEFINE m == [is |-> "comm", proc |-> p, from |-> p]
<1>1. /\ IInv /\ RestType /\ LineInv /\ TrackInv
  BY DEF KInv
<1>2. /\ p \in running /\ named' = named \cup {p} /\ Notify(m)
      /\ UNCHANGED <<running, line, trackVars, ev, readVars, chan, root, mainVars>>
  BY DEF SetName
<1>3. m \in Message
  BY DEF Message
<1>4. /\ conn' \in Seq(Message) /\ Len(conn') <= ConnCap /\ overrun' \in BOOLEAN
      /\ overrun => overrun'
      /\ ~overrun' => conn' = Append(conn, m)
  BY <1>1, <1>2, <1>3, Notified
<1>5. conn \in Seq(Message)
  BY <1>1 DEF RestType
<1>6. Ran' = Ran /\ running \subseteq Ran
  BY <1>1, <1>2 DEF Ran, LineInv
<1>7. m.is = "comm" /\ m.proc = p
  OBVIOUS
<1> HIDE DEF m
<1>8. RestType'
  BY <1>1, <1>2, <1>4 DEF RestType, trackVars, readVars, mainVars
<1>9. LineInv'
  BY <1>1, <1>2, <1>6 DEF LineInv
<1>10. TrackInv'
  <2> SUFFICES ASSUME ~overrun' PROVE /\ Applied' = line'
                                      /\ tdead' \cup Of("exit")' = Ran' \ running'
                                      /\ tnamed' \cup Of("comm")' = named'
    BY DEF TrackInv
  <2>1. conn' = Append(conn, m) /\ ~overrun
    BY <1>4
  <2>2. /\ Applied = line /\ tdead \cup Of("exit") = Ran \ running
        /\ tnamed \cup Of("comm") = named
    BY <1>1, <2>1 DEF TrackInv
  <2>3. Of("exit")' = Of("exit") /\ Of("comm")' = Of("comm") \cup {p}
    BY <1>3, <1>5, <1>7, <2>1, OfAppended
  <2>4. Applied' = Attach(line, m)
    BY <1>2, <1>3, <1>5, <2>1, <2>2, AttachAllAppend DEF Applied, trackVars
  <2>5. Applied' = line'
    BY <1>2, <1>7, <2>4 DEF Attach
  <2> QED
    BY <1>2, <1>6, <2>2, <2>3, <2>5 DEF trackVars
<1>11. BatchInv' /\ KnownInv' /\ CmdInv'
  <2>1. \A x \in Ran : line'[x] = line[x] /\ (x \in running' => x \in running)
    BY <1>2
  <2>2. UNCHANGED <<ev, pc, batch, pend, stream, windowed, trackVars>>
    BY <1>2 DEF mainVars
  <2>3. Waiting' = Waiting /\ Rec' = Rec
    BY <1>2 DEF Waiting, Queued, Held, InChan, Rec, readVars, mainVars
  <2>4. BatchInv' /\ KnownInv'
    BY <1>4, <2>1, <2>2, Settled
  <2>5. CmdInv'
    BY <1>4, <2>1, <2>2, <2>3, Settled
  <2> QED
    BY <2>4, <2>5
<1> QED
  BY <1>8, <1>9, <1>10, <1>11 DEF KInv

LEMMA ExitKeeps ==
    ASSUME KInv, IInv', NEW p \in Proc, Exit(p)
    PROVE  KInv'
<1> DEFINE m == [is |-> "exit", proc |-> p, from |-> p]
<1>1. /\ IInv /\ RestType /\ LineInv /\ TrackInv
  BY DEF KInv
<1>2. /\ p \in running /\ running' = running \ {p} /\ Notify(m)
      /\ UNCHANGED <<line, named, trackVars, ev, readVars, chan, root, mainVars>>
  BY DEF Exit
<1>3. m \in Message
  BY DEF Message
<1>4. /\ conn' \in Seq(Message) /\ Len(conn') <= ConnCap /\ overrun' \in BOOLEAN
      /\ overrun => overrun'
      /\ ~overrun' => conn' = Append(conn, m)
  BY <1>1, <1>2, <1>3, Notified
<1>5. conn \in Seq(Message)
  BY <1>1 DEF RestType
<1>6. Ran' = Ran /\ running \subseteq Ran
  BY <1>1, <1>2 DEF Ran, LineInv
<1>7. m.is = "exit" /\ m.proc = p
  OBVIOUS
<1> HIDE DEF m
<1>8. RestType'
  BY <1>1, <1>2, <1>4 DEF RestType, trackVars, readVars, mainVars
<1>9. LineInv'
  BY <1>1, <1>2, <1>6 DEF LineInv
<1>10. TrackInv'
  <2> SUFFICES ASSUME ~overrun' PROVE /\ Applied' = line'
                                      /\ tdead' \cup Of("exit")' = Ran' \ running'
                                      /\ tnamed' \cup Of("comm")' = named'
    BY DEF TrackInv
  <2>1. conn' = Append(conn, m) /\ ~overrun
    BY <1>4
  <2>2. /\ Applied = line /\ tdead \cup Of("exit") = Ran \ running
        /\ tnamed \cup Of("comm") = named
    BY <1>1, <2>1 DEF TrackInv
  <2>3. Of("exit")' = Of("exit") \cup {p} /\ Of("comm")' = Of("comm")
    BY <1>3, <1>5, <1>7, <2>1, OfAppended
  <2>4. Applied' = Attach(line, m)
    BY <1>2, <1>3, <1>5, <2>1, <2>2, AttachAllAppend DEF Applied, trackVars
  <2>5. Applied' = line'
    BY <1>2, <1>7, <2>4 DEF Attach
  <2>6. Ran' \ running' = (Ran \ running) \cup {p}
    BY <1>2, <1>6
  <2> QED
    BY <1>2, <2>2, <2>3, <2>5, <2>6 DEF trackVars
<1>11. BatchInv' /\ KnownInv' /\ CmdInv'
  <2>1. \A x \in Ran : line'[x] = line[x] /\ (x \in running' => x \in running)
    BY <1>2
  <2>2. UNCHANGED <<ev, pc, batch, pend, stream, windowed, trackVars>>
    BY <1>2 DEF mainVars
  <2>3. Waiting' = Waiting /\ Rec' = Rec
    BY <1>2 DEF Waiting, Queued, Held, InChan, Rec, readVars, mainVars
  <2>4. BatchInv' /\ KnownInv'
    BY <1>4, <2>1, <2>2, Settled
  <2>5. CmdInv'
    BY <1>4, <2>1, <2>2, <2>3, Settled
  <2> QED
    BY <2>4, <2>5
<1> QED
  BY <1>8, <1>9, <1>10, <1>11 DEF KInv

LEMMA EmitKept ==
    ASSUME KInv, IInv', NEW p \in Proc, NEW g \in Group, NEW kind \in Kind, Emit(p, g, kind)
    PROVE  KInv'
<1> DEFINE x == [group |-> g, by |-> p, kind |-> kind, of |-> line[p] \cap running \cap named]
           n == Len(ev) + 1
<1>1. /\ IInv /\ RestType /\ LineInv /\ TrackInv /\ BatchInv /\ CmdInv /\ KnownInv
      /\ FlowType /\ HomeInv
  BY DEF KInv, IInv
<1>2. /\ p \in running /\ ev' = Append(ev, x) /\ ready' = [ready EXCEPT ![g] = TRUE]
      /\ stranded' = stranded \ {g}
      /\ UNCHANGED <<procVars, conn, overrun, trackVars, hand, chan, root, mainVars>>
  BY DEF Emit
<1>3. Waiting' = Waiting \cup {n} /\ Rec' = Rec
  BY <1>1, EmitKeeps
<1>4. x \in Happening
  BY <1>1 DEF FlowType, Happening
<1>5. ev \in Seq(Happening)
  BY <1>1 DEF FlowType
<1>6. /\ Len(ev) \in Nat /\ Len(ev') = n /\ ev'[n] = x
      /\ \A i \in 1..Len(ev) : ev'[i] = ev[i]
  BY <1>2, <1>4, <1>5, AppendProperties, LenProperties
<1>6a. 1..n = 1..Len(ev) \cup {n}
  BY <1>6
<1>7. x.by = p /\ x.of \subseteq line[p] /\ x.of \subseteq named
  OBVIOUS
<1> HIDE DEF x, n
<1>8. RestType'
  BY <1>1, <1>2 DEF RestType, procVars, trackVars, mainVars
<1>9. Ran' = Ran
  BY <1>2 DEF Ran, procVars
<1>10. LineInv'
  <2>1. ASSUME NEW e \in 1..n
        PROVE  ev'[e].by \in Ran /\ ev'[e].of \subseteq line[ev'[e].by] /\ ev'[e].of \subseteq named
    <3>1. CASE e \in 1..Len(ev)
      BY <1>1, <1>6, <3>1 DEF LineInv
    <3>2. CASE e = n
      BY <1>1, <1>2, <1>6, <1>7, <3>2 DEF LineInv
    <3> QED
      BY <1>6a, <3>1, <3>2
  <2> QED
    BY <1>1, <1>2, <1>6, <1>9, <2>1 DEF LineInv, procVars
<1>11. TrackInv'
  BY <1>1, <1>2, <1>9 DEF TrackInv, Applied, Of, procVars, trackVars
<1>12. /\ InBatch' = InBatch /\ InBatch \subseteq 1..Len(ev)
       /\ \A r \in Range(stream) : r.id \in 1..Len(ev)
  BY <1>1, <1>2, RecFacts DEF HomeInv, InBatch, Waiting, Ids, Rec, mainVars
<1>13. BatchInv'
  <2>1. ASSUME pc = "process", ~overrun, NEW e \in InBatch
        PROVE  tline[ev'[e].by] = line[ev'[e].by] /\ ev'[e].of \subseteq tnamed
    BY <1>1, <1>6, <1>12, <2>1 DEF BatchInv
  <2> QED
    BY <1>2, <1>12, <2>1 DEF BatchInv, procVars, trackVars, mainVars
<1>14. KnownInv'
  <2>1. ASSUME NEW r \in Range(stream), ~overrun, ev'[r.id].by \in running PROVE r.known
    BY <1>1, <1>6, <1>12, <2>1 DEF KnownInv
  <2> QED
    BY <1>2, <2>1 DEF KnownInv, procVars, mainVars
<1>15. CmdInv'
  <2>1. ASSUME NEW e \in 1..n
        PROVE  \/ e \in Waiting' \cup windowed'
               \/ ~overrun' /\ Alive(e)' => \A s \in Sides(e)' : HasCmd(Rec', e, s)
    <3>1. CASE e = n
      BY <1>3, <3>1
    <3>2. CASE e \in 1..Len(ev)
      <4>1. Sides(e)' = Sides(e) /\ Alive(e)' = Alive(e)
        BY <1>2, <1>6, <3>2 DEF Sides, Alive, procVars
      <4> QED
        BY <1>1, <1>2, <1>3, <3>2, <4>1 DEF CmdInv, mainVars
    <3> QED
      BY <1>6a, <3>1, <3>2
  <2> QED
    BY <1>6, <2>1 DEF CmdInv
<1> QED
  BY <1>8, <1>10, <1>11, <1>13, <1>14, <1>15 DEF KInv

(* The steps that the processes and the tracker take no part in, and that  *)
(* leave the main loop where it was.                                       *)
LEMMA Elsewhere ==
    ASSUME KInv, IInv', UNCHANGED <<procVars, conn, overrun, trackVars, ev, batch, pend, stream, windowed>>,
           \A e \in Waiting : e \in Waiting' \/ Sides(e) = {},
           pc' # "process" \/ pc' = pc,
           (/\ ready \in [Group -> BOOLEAN] /\ stranded \subseteq Group /\ Len(chan) <= ChanCap
            /\ root \in [Group -> {"monitored", "pending"}]
            /\ pc \in {"select", "process", "stopped"} /\ stopping \in BOOLEAN
            /\ atSignal \subseteq Event)'
    PROVE  KInv'
<1>1. /\ RestType /\ LineInv /\ TrackInv /\ BatchInv
  BY DEF KInv
<1>2. RestType'
  BY <1>1 DEF RestType, procVars, trackVars
<1>3. Ran' = Ran
  BY DEF Ran, procVars
<1>4. LineInv'
  BY <1>1, <1>3 DEF LineInv, procVars
<1>5. TrackInv'
  BY <1>1, <1>3 DEF TrackInv, Applied, Of, procVars, trackVars
<1>6. BatchInv'
  BY <1>1 DEF BatchInv, InBatch, procVars, trackVars
<1>7. KnownInv' /\ CmdInv'
  <2>1. \A x \in Ran : line'[x] = line[x] /\ (x \in running' => x \in running)
    BY DEF procVars
  <2>2. Rec' = Rec
    BY DEF Rec
  <2>3. KnownInv'
    BY <2>1, Settled
  <2>4. CmdInv'
    BY <2>1, <2>2, Settled
  <2> QED
    BY <2>3, <2>4
<1> QED
  BY <1>2, <1>4, <1>5, <1>6, <1>7 DEF KInv

(* Whether a group is ready or stranded matters to no invariant but the    *)
(* type.                                                                   *)
LEMMA Rereadied ==
    ASSUME RestType, NEW g \in Group, NEW r, AfterRead(g, r), Strand(g, r)
    PROVE  ready' \in [Group -> BOOLEAN] /\ stranded' \subseteq Group
<1>1. (r # <<>>) \in BOOLEAN
  OBVIOUS
<1>2. ready' \in [Group -> BOOLEAN]
  BY <1>1 DEF RestType, AfterRead
<1>3. stranded' \subseteq Group
  BY DEF RestType, Strand
<1> QED
  BY <1>2, <1>3

LEMMA ReaderKeeps ==
    ASSUME KInv, IInv', NEW g \in Group, ReaderStep(g)
    PROVE  KInv'
<1>1. /\ IInv /\ RestType /\ FlowType
  BY DEF KInv, IInv
<1>2. CASE ReadEvents(g)
  <2>1. UNCHANGED <<procVars, conn, overrun, trackVars, ev, chan, root, mainVars>>
    BY <1>2 DEF ReadEvents
  <2>2. \E r : AfterRead(g, r) /\ Strand(g, r)
    BY <1>2 DEF ReadEvents
  <2>3. ready' \in [Group -> BOOLEAN] /\ stranded' \subseteq Group
    BY <1>1, <2>2, Rereadied
  <2>4. \A e \in Waiting : e \in Waiting' \/ Sides(e) = {}
    BY <1>1, <1>2, ReadEventsKeeps
  <2> QED
    BY <1>1, <2>1, <2>3, <2>4, Elsewhere DEF RestType, mainVars
<1>2a. CASE ReadFails(g)
  <2>1. UNCHANGED <<procVars, conn, overrun, trackVars, ev, kq, hand, chan, root, mainVars>>
    BY <1>2a DEF ReadFails
  <2>2. ready' \in [Group -> BOOLEAN] /\ stranded' \subseteq Group
    BY <1>1, <1>2a, Rereadied DEF ReadFails
  <2>3. Waiting' = Waiting
    BY <2>1 DEF Waiting, Queued, Held, InChan, mainVars
  <2> QED
    BY <1>1, <2>1, <2>2, <2>3, Elsewhere DEF RestType, mainVars
<1>3. CASE ReaderSends(g)
  <2>1. /\ chan' = Append(chan, hand[g]) /\ Len(chan) < ChanCap
        /\ UNCHANGED <<procVars, conn, overrun, trackVars, ev, kq, ready, stranded, root, mainVars>>
    BY <1>3 DEF ReaderSends, SendBatch
  <2>2. Len(chan') <= ChanCap
    <3>1. hand[g] \in Seq(Event) /\ chan \in Seq(Seq(Event)) /\ ChanCap \in Nat
      BY <1>1, PipelineAssumption DEF FlowType
    <3>2. Len(chan) \in Nat /\ Len(chan') = Len(chan) + 1
      BY <2>1, <3>1, AppendProperties, LenProperties
    <3> QED
      BY <2>1, <3>1, <3>2
  <2>3. Waiting' = Waiting
    BY <1>1, <1>3, ReaderSendsKeeps
  <2> QED
    BY <1>1, <2>1, <2>2, <2>3, Elsewhere DEF RestType, mainVars
<1> QED
  BY <1>2, <1>2a, <1>3 DEF ReaderStep

LEMMA RecvBatchKept ==
    ASSUME KInv, IInv', RecvBatch
    PROVE  KInv'
<1>1. /\ IInv /\ RestType /\ LineInv /\ TrackInv /\ FlowType /\ HomeInv'
  BY DEF KInv, IInv
<1>2. /\ chan # <<>> /\ chan' = Tail(chan) /\ pc' = "process" /\ DrainConn
      /\ UNCHANGED <<procVars, overrun, ev, readVars, root, stopping, pend, stream,
                     windowed, atSignal>>
  BY DEF RecvBatch
<1>3. /\ conn' \in Seq(Message) /\ Len(conn') <= ConnCap
      /\ tline' \in [Proc -> SUBSET Proc] /\ tdead' \subseteq Proc /\ tnamed' \subseteq Proc
      /\ TrackInv'
      /\ ~overrun => tline' = line /\ tdead' = Ran \ running /\ tnamed' = named
  BY <1>1, <1>2, DrainFacts DEF procVars
<1>4. Len(chan') <= ChanCap
  <2>1. chan \in Seq(Seq(Event)) /\ ChanCap \in Nat /\ Len(chan) <= ChanCap
    BY <1>1, PipelineAssumption DEF FlowType, RestType
  <2>2. Len(chan) \in Nat /\ Len(chan') = Len(chan) - 1
    BY <1>2, <2>1, HeadTailProperties, EmptySeq
  <2> QED
    BY <2>1, <2>2
<1>5. RestType'
  BY <1>1, <1>2, <1>3, <1>4 DEF RestType, procVars, readVars
<1>6. LineInv'
  <2>1. Ran' = Ran
    BY <1>2 DEF Ran, procVars
  <2> QED
    BY <1>1, <1>2, <2>1 DEF LineInv, procVars
<1>7. BatchInv'
  <2>1. InBatch' \subseteq 1..Len(ev)
    BY <1>1, <1>2 DEF HomeInv, InBatch, Waiting, Ids, Rec
  <2>2. \A e \in 1..Len(ev) : ev[e].of \subseteq named
    BY <1>1 DEF LineInv
  <2>3. ~overrun => \A e \in InBatch' : tline'[ev[e].by] = line[ev[e].by] /\ ev[e].of \subseteq tnamed'
    BY <1>3, <2>1, <2>2
  <2> QED
    BY <1>2, <2>3 DEF BatchInv, procVars
<1>8. KnownInv' /\ CmdInv'
  <2>1. \A x \in Ran : line'[x] = line[x] /\ (x \in running' => x \in running)
    BY <1>2 DEF procVars
  <2>2. Rec' = Rec
    BY <1>2 DEF Rec
  <2>3. Waiting' = Waiting
    BY <1>1, RecvBatchKeeps
  <2>4. KnownInv'
    BY <1>2, <2>1, Settled
  <2>5. CmdInv'
    BY <1>2, <2>1, <2>2, <2>3, Settled
  <2> QED
    BY <2>4, <2>5
<1> QED
  BY <1>3, <1>5, <1>6, <1>7, <1>8 DEF KInv

LEMMA ProcReadableKeeps ==
    ASSUME KInv, IInv', ProcReadable
    PROVE  KInv'
<1>1. /\ IInv /\ RestType /\ LineInv /\ TrackInv
  BY DEF KInv
<1>2. /\ pc = "select" /\ DrainConn
      /\ UNCHANGED <<procVars, overrun, ev, readVars, chan, root, mainVars>>
  BY DEF ProcReadable
<1>3. /\ conn' \in Seq(Message) /\ Len(conn') <= ConnCap
      /\ tline' \in [Proc -> SUBSET Proc] /\ tdead' \subseteq Proc /\ tnamed' \subseteq Proc
      /\ TrackInv'
  BY <1>1, <1>2, DrainFacts DEF procVars
<1>4. RestType'
  BY <1>1, <1>2, <1>3 DEF RestType, procVars, readVars, mainVars
<1>5. LineInv'
  <2>1. Ran' = Ran
    BY <1>2 DEF Ran, procVars
  <2> QED
    BY <1>1, <1>2, <2>1 DEF LineInv, procVars
<1>6. BatchInv'
  BY <1>2 DEF BatchInv, mainVars
<1>7. KnownInv' /\ CmdInv'
  <2>1. \A x \in Ran : line'[x] = line[x] /\ (x \in running' => x \in running)
    BY <1>2 DEF procVars
  <2>2. Rec' = Rec /\ Waiting' = Waiting
    BY <1>2 DEF Waiting, Queued, Held, InChan, Rec, readVars, mainVars
  <2>3. UNCHANGED <<ev, overrun, stream, windowed>>
    BY <1>2 DEF mainVars
  <2>4. KnownInv'
    BY <2>1, <2>3, Settled
  <2>5. CmdInv'
    BY <2>1, <2>2, <2>3, Settled
  <2> QED
    BY <2>4, <2>5
<1> QED
  BY <1>3, <1>4, <1>5, <1>6, <1>7 DEF KInv

LEMMA IdleKeeps ==
    ASSUME KInv, IInv', \/ Signal \/ Stop \/ UNCHANGED vars
                        \/ \E g \in Group : Remonitor(g)
    PROVE  KInv'
<1>1. RestType /\ FlowType
  BY DEF KInv, IInv
<1>2. /\ UNCHANGED <<procVars, conn, overrun, trackVars, ev, readVars, chan>>
      /\ UNCHANGED <<batch, pend, stream, windowed>>
  BY DEF Signal, Stop, Remonitor, vars, mainVars, procVars, trackVars, readVars
<1>3. Waiting' = Waiting
  BY <1>2 DEF Waiting, Queued, Held, InChan, readVars
<1>4. ready' \in [Group -> BOOLEAN] /\ stranded' \subseteq Group /\ Len(chan') <= ChanCap
  BY <1>1, <1>2 DEF RestType, readVars
<1>5. pc' \in {"select", "process", "stopped"} /\ (pc' # "process" \/ pc' = pc)
  BY <1>1 DEF RestType, Signal, Stop, Remonitor, vars, mainVars
<1>6. root' \in [Group -> {"monitored", "pending"}]
  BY <1>1 DEF RestType, Signal, Stop, Remonitor, vars
<1>7. stopping' \in BOOLEAN
  BY <1>1 DEF RestType, Signal, Stop, Remonitor, vars, mainVars
<1>8. atSignal' \subseteq Event
  <2>1. CASE Signal
    <3>1. \A i \in DOMAIN chan : chan[i] \in Seq(Event)
      BY <1>1, LenProperties, ElementOfSeq DEF FlowType
    <3>2. \A c \in Seq(Event) : Range(c) \subseteq Event
      BY InRange
    <3> QED
      BY <2>1, <3>1, <3>2 DEF Signal
  <2>2. CASE ~Signal
    BY <1>1, <2>2 DEF RestType, Stop, Remonitor, vars, mainVars
  <2> QED
    BY <2>1, <2>2
<1> QED
  BY <1>2, <1>3, <1>4, <1>5, <1>6, <1>7, <1>8, Elsewhere

(* A cmd that runs, with all that is between, is found by the walk up the  *)
(* tracker's tree.                                                         *)
LEMMA TreeMatched ==
    ASSUME KInv, pc = "process", ~overrun, NEW e \in Range(batch), Alive(e)
    PROVE  MatchesTree("cmd", ev[e].by)
<1>1. /\ LineInv /\ TrackInv /\ BatchInv /\ HomeInv
  BY DEF KInv, IInv
<1>2. e \in 1..Len(ev) /\ e \in InBatch
  BY <1>1 DEF HomeInv, InBatch, Waiting
<1>3. tline[ev[e].by] = line[ev[e].by] /\ ev[e].of \subseteq tnamed
  BY <1>1, <1>2 DEF BatchInv
<1>4. ev[e].by \in Ran /\ ev[e].of \subseteq line[ev[e].by]
  BY <1>1, <1>2 DEF LineInv
<1>5. PICK a \in ev[e].of : {x \in line[ev[e].by] : a \in line[x]} \subseteq running
  BY DEF Alive
<1>6. a \in line[ev[e].by] /\ a \in Ran /\ a \in line[a] /\ ev[e].by \in line[ev[e].by]
  BY <1>1, <1>4 DEF LineInv
<1>7. a \in running /\ ev[e].by \in running
  BY <1>5, <1>6
<1>8. a \notin tdead /\ ev[e].by \notin tdead
  BY <1>1, <1>7 DEF TrackInv
<1>9. ev[e].by \in Current
  BY <1>3, <1>4, <1>8 DEF Current, Ran
<1>10. a \in tline[ev[e].by] /\ a \in tnamed \ tdead
  BY <1>3, <1>6, <1>8
<1> QED
  BY <1>9, <1>10 DEF MatchesTree

LEMMA ProcessEventKept ==
    ASSUME KInv, IInv', ProcessEvent
    PROVE  KInv'
<1> DEFINE e == Head(batch)
           new == Records(e)
<1>1. /\ IInv /\ RestType /\ LineInv /\ TrackInv /\ BatchInv /\ CmdInv /\ KnownInv
      /\ FlowType /\ HomeInv
  BY DEF KInv, IInv
<1>2. /\ pc = "process" /\ batch # <<>> /\ batch' = Tail(batch) /\ pend' = pend \o new
      /\ UNCHANGED <<procVars, conn, overrun, trackVars, ev, readVars, chan, pc, stopping,
                     stream, atSignal>>
      /\ \/ \E g : root' = [root EXCEPT ![g] = "pending"]
         \/ UNCHANGED root
  BY DEF ProcessEvent
<1>3. windowed' = IF InScope(ev[e].group) \/ ev[e].kind = "skip" THEN windowed
                                                                 ELSE windowed \cup {e}
  BY DEF ProcessEvent
<1>4. batch \in Seq(Event) /\ pend \in Seq(Record)
  BY <1>1 DEF FlowType
<1>5. Range(batch) = Range(batch') \cup {e}
  BY <1>2, <1>4, Taken
<1>6. e \in 1..Len(ev) /\ e \in Event
  BY <1>1, <1>4, <1>5, InRange DEF HomeInv, Waiting
<1>7. /\ new \in Seq(Record)
      /\ \A r \in Range(new) : r.id = e
      /\ InScope(ev[e].group) /\ MatchesTree("cmd", ev[e].by) =>
           \A s \in Sides(e) : HasCmd(Range(new), e, s)
  BY <1>1, <1>6, RecordsFacts
<1>8. Waiting = Waiting' \cup {e} /\ Rec' = Rec \cup Range(new)
  BY <1>1, ProcessEventKeeps
<1>9. ev[e].kind = "skip" => Sides(e) = {}
  <2>1. ev[e] \in Happening
    BY <1>1, <1>6, ElementOfSeq DEF FlowType
  <2>2. ev[e].kind \in Kind
    BY <2>1 DEF Happening
  <2> QED
    BY <2>2, SidesFacts
<1>10. ~overrun /\ Alive(e) => MatchesTree("cmd", ev[e].by)
  BY <1>2, <1>5, TreeMatched
<1> HIDE DEF e, new
<1>11. RestType'
  <2>1. root' \in [Group -> {"monitored", "pending"}]
    BY <1>1, <1>2 DEF RestType
  <2>2. windowed' \subseteq Event
    BY <1>1, <1>3, <1>6 DEF RestType
  <2> QED
    BY <1>1, <1>2, <2>1, <2>2 DEF RestType, procVars, trackVars, readVars
<1>12. Ran' = Ran
  BY <1>2 DEF Ran, procVars
<1>13. LineInv'
  BY <1>1, <1>2, <1>12 DEF LineInv, procVars
<1>14. TrackInv'
  BY <1>1, <1>2, <1>12 DEF TrackInv, Applied, Of, procVars, trackVars
<1>15. BatchInv'
  <2>1. Range(pend') = Range(pend) \cup Range(new)
    BY <1>2, <1>4, <1>7, Joined
  <2>2. InBatch' \subseteq InBatch
    BY <1>5, <1>7, <2>1 DEF InBatch
  <2> QED
    BY <1>1, <1>2, <2>2 DEF BatchInv, procVars, trackVars
<1>16. KnownInv'
  BY <1>1, <1>2 DEF KnownInv, procVars
<1>17. CmdInv'
  <2>1. \A x : Sides(x)' = Sides(x) /\ Alive(x)' = Alive(x)
    BY <1>2 DEF Sides, Alive, procVars
  <2>2. ASSUME NEW x \in 1..Len(ev)
        PROVE  \/ x \in Waiting' \cup windowed'
               \/ ~overrun /\ Alive(x) => \A s \in Sides(x) : HasCmd(Rec', x, s)
    <3>1. CASE x = e
      <4>1. CASE InScope(ev[e].group)
        BY <1>7, <1>8, <1>10, <3>1, <4>1 DEF HasCmd
      <4>2. CASE ev[e].kind = "skip"
        BY <1>9, <3>1, <4>2
      <4>3. CASE ~InScope(ev[e].group) /\ ev[e].kind # "skip"
        BY <1>3, <3>1, <4>3
      <4> QED
        BY <4>1, <4>2, <4>3
    <3>2. CASE x # e
      <4>1. windowed \subseteq windowed'
        BY <1>3
      <4>2. \/ x \in Waiting \cup windowed
            \/ ~overrun /\ Alive(x) => \A s \in Sides(x) : HasCmd(Rec, x, s)
        BY <1>1 DEF CmdInv
      <4> QED
        BY <1>8, <3>2, <4>1, <4>2 DEF HasCmd
    <3> QED
      BY <3>1, <3>2
  <2> QED
    BY <1>2, <2>1, <2>2 DEF CmdInv
<1> QED
  BY <1>11, <1>13, <1>14, <1>15, <1>16, <1>17 DEF KInv

LEMMA PublishKept ==
    ASSUME KInv, IInv', Publish
    PROVE  KInv'
<1> DEFINE out == [i \in 1..Len(pend) |-> Patched(pend[i])]
<1>1. /\ IInv /\ RestType /\ LineInv /\ TrackInv /\ BatchInv /\ KnownInv
      /\ FlowType /\ HomeInv
  BY DEF KInv, IInv
<1>2. /\ pc = "process" /\ pc' = "select" /\ pend' = <<>> /\ stream' = stream \o out
      /\ UNCHANGED <<procVars, overrun, ev, readVars, chan, stopping, batch, windowed, atSignal>>
  BY DEF Publish
<1>3. \/ stopping /\ UNCHANGED <<conn, trackVars, root>>
      \/ DrainConn /\ \E back \in SUBSET Group :
           root' = [g \in Group |-> IF g \in back THEN "monitored" ELSE root[g]]
  BY DEF Publish
<1>4. pend \in Seq(Record) /\ stream \in Seq(Record) /\ Len(pend) \in Nat
  BY <1>1, LenProperties DEF FlowType
<1>5. /\ conn' \in Seq(Message) /\ Len(conn') <= ConnCap
      /\ tline' \in [Proc -> SUBSET Proc] /\ tdead' \subseteq Proc /\ tnamed' \subseteq Proc
      /\ TrackInv'
  <2>1. CASE DrainConn
    BY <1>1, <1>2, <2>1, DrainFacts DEF procVars
  <2>2. CASE UNCHANGED <<conn, trackVars>>
    <3>1. Ran' = Ran
      BY <1>2 DEF Ran, procVars
    <3> QED
      BY <1>1, <1>2, <2>2, <3>1 DEF RestType, TrackInv, Applied, Of, procVars, trackVars
  <2> QED
    BY <1>3, <2>1, <2>2
<1>6. ASSUME ~overrun, NEW r \in Range(pend), ev[r.id].by \in running
      PROVE  ev[r.id].by \in Current'
  <2>1. r.id \in InBatch /\ r.id \in 1..Len(ev)
    BY <1>1, RecFacts DEF InBatch, HomeInv
  <2>2. ev[r.id].by \in Ran
    BY <1>1, <2>1 DEF LineInv
  <2>3. CASE DrainConn
    <3>1. tline' = line /\ tdead' = Ran \ running
      BY <1>1, <1>2, <1>6, <2>3, DrainFacts DEF procVars
    <3> QED
      BY <1>6, <2>2, <3>1 DEF Current, Ran
  <2>4. CASE UNCHANGED trackVars
    <3>1. tline[ev[r.id].by] = line[ev[r.id].by]
      BY <1>1, <1>2, <1>6, <2>1 DEF BatchInv
    <3>2. ev[r.id].by \notin tdead
      BY <1>1, <1>6 DEF TrackInv
    <3> QED
      BY <2>2, <2>4, <3>1, <3>2 DEF Current, Ran, trackVars
  <2> QED
    BY <1>3, <2>3, <2>4
<1>7. ASSUME NEW r \in Record
      PROVE  /\ Patched(r) \in Record
             /\ Patched(r).id = r.id /\ Patched(r).side = r.side /\ Patched(r).entry = r.entry
             /\ ev[r.id].by \in Current' => Patched(r).known
  <2> DEFINE k == r.known \/ ev[r.id].by \in Current'
  <2>1. k \in BOOLEAN
    OBVIOUS
  <2>2. Patched(r) = [r EXCEPT !.known = k]
    BY DEF Patched
  <2>3. ev[r.id].by \in Current' => k
    OBVIOUS
  <2> HIDE DEF k
  <2>4. Patched(r) \in Record
    BY <2>1, <2>2 DEF Record
  <2>5. /\ Patched(r).id = r.id /\ Patched(r).side = r.side /\ Patched(r).entry = r.entry
        /\ Patched(r).known = k
    BY <2>2 DEF Record
  <2> QED
    BY <2>3, <2>4, <2>5
<1>8. /\ \A i \in 1..Len(pend) : pend[i] \in Record /\ pend[i] \in Range(pend)
      /\ \A i \in 1..Len(pend) : out[i] = Patched(pend[i])
  BY <1>4, InRange, ElementOfSeq
<1>9. out \in Seq(Record) /\ Len(out) = Len(pend)
  <2>1. out = [i \in 1..Len(pend) |-> out[i]]
    OBVIOUS
  <2> HIDE DEF out
  <2>2. out \in [1..Len(pend) -> Record]
    BY <1>7, <1>8, <2>1
  <2> QED
    BY <1>4, <2>2, SeqDef, LenProperties
<1> HIDE DEF out
<1>10. Range(stream') = Range(stream) \cup Range(out)
  BY <1>2, <1>4, <1>9, Joined
<1>11. /\ \A x : x \in Range(out) <=> \E i \in 1..Len(pend) : out[i] = x
       /\ \A x : x \in Range(pend) <=> \E i \in 1..Len(pend) : pend[i] = x
  BY <1>4, <1>9, InRange
<1>12. KnownInv'
  <2>1. ASSUME ~overrun, NEW r \in Range(out), ev[r.id].by \in running PROVE r.known
    <3>1. PICK i \in 1..Len(pend) : out[i] = r
      BY <1>11
    <3>2. r.id = pend[i].id /\ pend[i] \in Range(pend)
      BY <1>7, <1>8, <3>1
    <3>3. ev[pend[i].id].by \in Current'
      BY <1>6, <2>1, <3>2
    <3> QED
      BY <1>7, <1>8, <3>1, <3>3
  <2>2. ASSUME ~overrun, NEW r \in Range(stream), ev[r.id].by \in running PROVE r.known
    BY <1>1, <2>2 DEF KnownInv
  <2> QED
    BY <1>2, <1>10, <2>1, <2>2 DEF KnownInv, procVars
<1>13. RestType'
  <2>1. root' \in [Group -> {"monitored", "pending"}]
    BY <1>1, <1>3 DEF RestType
  <2> QED
    BY <1>1, <1>2, <1>5, <2>1 DEF RestType, procVars, readVars
<1>14. LineInv'
  <2>1. Ran' = Ran
    BY <1>2 DEF Ran, procVars
  <2> QED
    BY <1>1, <1>2, <2>1 DEF LineInv, procVars
<1>15. BatchInv'
  BY <1>2 DEF BatchInv
<1>16. CmdInv'
  <2>1. \A x \in Ran : line'[x] = line[x] /\ (x \in running' => x \in running)
    BY <1>2 DEF procVars
  <2>2. Waiting' = Waiting
    BY <1>1, PublishKeeps
  <2>3. \A q \in Range(pend) : \E r \in Range(out) :
          r.id = q.id /\ r.side = q.side /\ r.entry = q.entry
    BY <1>7, <1>8, <1>11
  <2>4. Rec' = Range(stream) \cup Range(out)
    BY <1>2, <1>10, NoElement DEF Rec
  <2>5. \A x, s : HasCmd(Rec, x, s) => HasCmd(Rec', x, s)
    BY <2>3, <2>4 DEF HasCmd, Rec
  <2> QED
    BY <1>2, <2>1, <2>2, <2>5, Settled
<1> QED
  BY <1>5, <1>12, <1>13, <1>14, <1>15, <1>16 DEF KInv

-----------------------------------------------------------------------------
LEMMA StartedTracked ==
    ASSUME Init PROVE KInv
<1>1. IInv
  BY Started
<1>2. /\ running = Boot /\ named = BootNamed /\ conn = <<>> /\ overrun = FALSE
      /\ line = [p \in Proc |-> IF p \in Boot THEN {p} ELSE {}]
      /\ tline = line /\ tdead = {} /\ tnamed = BootNamed
      /\ ev = <<>> /\ chan = <<>> /\ pc = "select" /\ stopping = FALSE
      /\ stream = <<>> /\ windowed = {} /\ atSignal = {}
      /\ ready = [g \in Group |-> FALSE] /\ stranded = {}
      /\ root = [g \in Group |-> "monitored"]
  BY DEF Init
<1>3. /\ <<>> \in Seq(Message) /\ Len(<<>>) = 0 /\ Range(<<>>) = {}
      /\ ConnCap \in Nat /\ ChanCap \in Nat /\ Boot \subseteq Proc /\ BootNamed \subseteq Boot
  BY EmptySeq, NoElement, PipelineAssumption
<1>4. line \in [Proc -> SUBSET Proc]
  <2>1. \A p \in Proc : (IF p \in Boot THEN {p} ELSE {}) \in SUBSET Proc
    OBVIOUS
  <2> QED
    BY <1>2, <2>1
<1>5. RestType
  <2>1. FALSE \in BOOLEAN /\ overrun \in BOOLEAN /\ stopping \in BOOLEAN
    BY <1>2
  <2>2. ready \in [Group -> BOOLEAN] /\ stranded \subseteq Group /\ root \in [Group -> {"monitored", "pending"}]
    BY <1>2, <2>1
  <2>3. conn \in Seq(Message) /\ Len(conn) <= ConnCap /\ Len(chan) <= ChanCap
    BY <1>2, <1>3
  <2>4. tline \in [Proc -> SUBSET Proc] /\ tdead \subseteq Proc /\ tnamed \subseteq Proc
    BY <1>2, <1>3, <1>4
  <2> QED
    BY <1>2, <1>4, <2>1, <2>2, <2>3, <2>4 DEF RestType
<1>6. Ran = Boot
  BY <1>2, <1>3 DEF Ran
<1>7. LineInv
  BY <1>2, <1>3, <1>6 DEF LineInv
<1>8. TrackInv
  <2>1. Applied = line
    BY <1>2, AttachAllEmpty DEF Applied
  <2>2. Of("exit") = {} /\ Of("comm") = {}
    BY <1>2, <1>3 DEF Of
  <2> QED
    BY <1>2, <1>6, <2>1, <2>2 DEF TrackInv
<1>9. BatchInv
  BY <1>2 DEF BatchInv
<1>10. CmdInv
  BY <1>2, <1>3 DEF CmdInv
<1>11. KnownInv
  BY <1>2, <1>3 DEF KnownInv
<1> QED
  BY <1>1, <1>5, <1>7, <1>8, <1>9, <1>10, <1>11 DEF KInv

LEMMA TrackedInductive ==
    ASSUME KInv, [Next]_vars PROVE KInv'
<1>0. IInv'
  BY Inductive DEF KInv
<1>1. CASE UNCHANGED vars
  BY <1>0, <1>1, IdleKeeps
<1>2. CASE RecvBatch
  BY <1>0, <1>2, RecvBatchKept
<1>3. CASE ProcessEvent
  BY <1>0, <1>3, ProcessEventKept
<1>4. CASE Publish
  BY <1>0, <1>4, PublishKept
<1>5. CASE Stop
  BY <1>0, <1>5, IdleKeeps
<1>6. CASE ProcReadable
  BY <1>0, <1>6, ProcReadableKeeps
<1>7. CASE Signal
  BY <1>0, <1>7, IdleKeeps
<1>8. ASSUME NEW g \in Group, ReaderStep(g) PROVE KInv'
  BY <1>0, <1>8, ReaderKeeps
<1>9. ASSUME NEW g \in Group, Remonitor(g) PROVE KInv'
  BY <1>0, <1>9, IdleKeeps
<1>10. ASSUME NEW p \in Proc, NEW q \in Proc, Fork(q, p) PROVE KInv'
  BY <1>0, <1>10, ForkKeeps
<1>11. ASSUME NEW p \in Proc, SetName(p) PROVE KInv'
  BY <1>0, <1>11, SetNameKeeps
<1>12. ASSUME NEW p \in Proc, Exit(p) PROVE KInv'
  BY <1>0, <1>12, ExitKeeps
<1>13. ASSUME NEW p \in Proc, NEW g \in Group, NEW kind \in Kind, Emit(p, g, kind) PROVE KInv'
  BY <1>0, <1>13, EmitKept
<1> QED
  BY <1>1, <1>2, <1>3, <1>4, <1>5, <1>6, <1>7, <1>8, <1>9, <1>10, <1>11, <1>12, <1>13
  DEF Next, MainStep

LEMMA CmdImplies ==
    ASSUME KInv PROVE ChildrenIncluded
<1>1. FlowType /\ CmdInv
  BY DEF KInv, IInv
<1>2. /\ pend \in Seq(Record) /\ stream \in Seq(Record) /\ DOMAIN ev = 1..Len(ev)
      /\ DOMAIN chan = 1..Len(chan)
  BY <1>1, LenProperties DEF FlowType
<1>3. Range(pend \o stream) = Rec
  BY <1>2, Joined DEF Rec
<1>4. ASSUME NEW e \in Waiting PROVE InFlight(e)
  <2>1. /\ e \in Queued => \E g \in Group : e \in Range(kq[g])
        /\ e \in Held => \E g \in Group : e \in Range(hand[g])
        /\ e \in InChan => \E i \in 1..Len(chan) : e \in Range(chan[i])
    BY <1>1, Stages
  <2> QED
    BY <1>2, <2>1 DEF Waiting, InFlight
<1>5. ASSUME NEW e \in Processed \ windowed, ~overrun, Alive(e), NEW s \in Sides(e)
      PROVE  Recorded(e, s, "cmd")
  <2>1. e \in 1..Len(ev) /\ e \notin Waiting \cup windowed
    BY <1>2, <1>4 DEF Processed
  <2>2. HasCmd(Rec, e, s)
    BY <1>1, <1>5, <2>1 DEF CmdInv
  <2> QED
    BY <1>3, <2>2 DEF HasCmd, Recorded
<1> QED
  BY <1>5 DEF ChildrenIncluded, Alive

LEMMA KnownImplies ==
    ASSUME KInv PROVE TopologyKnown
<1>1. KnownInv /\ stream \in Seq(Record)
  BY DEF KInv, IInv, FlowType
<1>2. \A i \in DOMAIN stream : stream[i] \in Range(stream)
  BY <1>1, LenProperties, InRange
<1> QED
  BY <1>1, <1>2 DEF TopologyKnown, KnownInv

(* The types of the pipeline; the event channel and the connector's socket *)
(* never hold more than their capacities, which the code sets once         *)
(* (channel_capacity, proc_cache.rs).                                      *)
THEOREM PipelineTypeCorrect == Spec => []TypeOK
<1>1. Init => KInv
  BY StartedTracked
<1>2. KInv /\ [Next]_vars => KInv'
  BY TrackedInductive
<1>3. KInv => TypeOK
  BY DEF KInv, IInv, FlowType, RestType, TypeOK, Happening
<1> QED
  BY <1>1, <1>2, <1>3, PTL DEF Spec

(* For every number of processes, groups and events and every capacity of  *)
(* the channel and the socket: an event that could be decoded and that a   *)
(* descendant of a cmd caused is recorded for the cmd, when the line       *)
(* between them still runs and no message was lost, however the forks, the *)
(* namings, the exits, the readers, the drains and the batches interleave  *)
(* (monitor/events.rs, matches_process_tree; proc_cache.rs, apply_events). *)
THEOREM ChildrenAlwaysIncluded == Spec => []ChildrenIncluded
<1>1. Init => KInv
  BY StartedTracked
<1>2. KInv /\ [Next]_vars => KInv'
  BY TrackedInductive
<1>3. KInv => ChildrenIncluded
  BY CmdImplies
<1> QED
  BY <1>1, <1>2, <1>3, PTL DEF Spec

(* Until a message is lost, an event is published with its process's pid,  *)
(* tgid, ppid and chain while that process runs; so are the events of the  *)
(* shutdown, which are patched without a second drain                      *)
(* (monitor.rs, drain_remaining_events; patch_pending_events).             *)
THEOREM TopologyAlwaysKnown == Spec => []TopologyKnown
<1>1. Init => KInv
  BY StartedTracked
<1>2. KInv /\ [Next]_vars => KInv'
  BY TrackedInductive
<1>3. KInv => TopologyKnown
  BY KnownImplies
<1> QED
  BY <1>1, <1>2, <1>3, PTL DEF Spec

=============================================================================
