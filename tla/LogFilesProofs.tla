--------------------------- MODULE LogFilesProofs ---------------------------
(***************************************************************************)
(* What a query and a clean do with the bytes of a log: for every set of   *)
(* lines, every distance of the scan back, every set of filters and every  *)
(* number of lines, appends and cleans.                                    *)
(***************************************************************************)
EXTENDS LogFiles, SequenceTheorems, FiniteSetTheorems, WellFoundedInduction, TLAPS

-----------------------------------------------------------------------------
(* The inductive invariant.                                                *)

OpenedInv ==
    /\ qpc = "start" => opened = <<>>
    /\ qpc = "open" => Len(opened) = 1
    /\ qpc = "search" => Len(opened) = 2
    /\ qpc # "start" => Len(opened) >= 1
    /\ qpc \in {"start", "open", "search", "seek"} => pos = 0 /\ result = <<>>
    /\ qpc = "start" => low = 0
    /\ qpc \in {"open", "search"} => Lower # {}

Pass == {k \in Kind : Passes(k)}

(* The file, when every open got the same one. *)
Same   == \A i \in 1..Len(opened) : opened[i] = opened[1]
TheLog == files[opened[1]]

(* No line that starts before the offset p is in S. *)
NoneBefore(f, p, S) == \A i \in 1..Len(f) : End(f)[i - 1] < p => f[i] \notin S

(* The line that p is inside of is not in S. *)
NoneCut(f, p, S) == \A i \in 1..Len(f) : End(f)[i - 1] < p /\ p < End(f)[i] => f[i] \notin S

QueryInv ==
    qpc # "start" /\ Same /\ Regular(TheLog) =>
      /\ low <= high /\ high <= Size(TheLog)
      /\ NoneBefore(TheLog, low, Pass)
      /\ qpc \in {"read", "done"} =>
           /\ pos <= Size(TheLog)
           /\ NoneCut(TheLog, pos, Pass)
           /\ result = Select(Before(TheLog, pos), Pass)

LInv == TypeOK /\ OpenedInv /\ QueryInv

-----------------------------------------------------------------------------
(* Numbers, and functions defined by recursion on them.                    *)

LEMMA LeastNumber ==
    ASSUME NEW T \in SUBSET Nat, T # {}
    PROVE  \E x \in T : \A y \in T : x <= y
<1> DEFINE R == OpToRel(<, Nat)
<1>1. IsWellFoundedOn(R, Nat)
  BY NatLessThanWellFounded
<1>2. \A x, y \in Nat : <<y, x>> \in R <=> y < x
  BY DEF OpToRel
<1> HIDE DEF R
<1>3. PICK x \in T : \A y \in T : ~(<<y, x>> \in R)
  BY <1>1, WFMin
<1>4. \A y \in T : ~(y < x)
  BY <1>2, <1>3
<1>5. \A y \in T : x <= y
  BY <1>4
<1> QED
  BY <1>5

LEMMA SetInduction ==
    ASSUME NEW T \in SUBSET Nat, 0 \in T, \A n \in T : n + 1 \in T
    PROVE  T = Nat
<1>1. SUFFICES ASSUME Nat \ T # {} PROVE FALSE
  OBVIOUS
<1>2. PICK x \in Nat \ T : \A y \in Nat \ T : x <= y
  BY <1>1, LeastNumber
<1>3. x # 0 /\ x - 1 \in Nat
  BY <1>2
<1>4. x - 1 \in T
  BY <1>2, <1>3
<1> QED
  BY <1>2, <1>3, <1>4

(* Induction up to a bound. *)
LEMMA UpToInduction ==
    ASSUME NEW N \in Nat, NEW T, 0 \in T, \A n \in 0..N : n \in T /\ n < N => n + 1 \in T
    PROVE  \A n \in 0..N : n \in T
<1> DEFINE U == {n \in Nat : n <= N => n \in T}
<1>1. 0 \in U
  OBVIOUS
<1>2. ASSUME NEW n \in U PROVE n + 1 \in U
  <2>1. n \in Nat /\ n + 1 \in Nat
    OBVIOUS
  <2>2. CASE n + 1 <= N
    <3>1. n \in 0..N /\ n < N /\ n \in T
      BY <2>1, <2>2
    <3> QED
      BY <2>1, <3>1
  <2> QED
    BY <2>1, <2>2
<1>3. U = Nat
  <2> HIDE DEF U
  <2>1. U \subseteq Nat
    BY DEF U
  <2> QED
    BY <1>1, <1>2, <2>1, SetInduction
<1> QED
  BY <1>3

(* A function on 0..N whose values are in V, from its first value and a    *)
(* step from each value to the next.                                       *)
StepIn(V, N, st) == \A v \in V : \A n \in 1..N : st[<<v, n>>] \in V
Steps(f, V, a, N, st) ==
    /\ f = [n \in 0..N |-> f[n]] /\ \A n \in 0..N : f[n] \in V
    /\ f[0] = a /\ \A n \in 1..N : f[n] = st[<<f[n - 1], n>>]

LEMMA Recursion ==
    ASSUME NEW V, NEW a \in V, NEW N \in Nat, NEW st, StepIn(V, N, st)
    PROVE  \E f : Steps(f, V, a, N, st)
<1> DEFINE Good(m, f) == f[0] = a /\ \A n \in 1..m : f[n] = st[<<f[n - 1], n>>]
           T == {m \in 0..N : \E f \in [0..m -> V] : Good(m, f)}
<1>1. 0 \in T
  <2> DEFINE f == [n \in 0..0 |-> a]
  <2>1. 0 \in 0..N /\ 0 \in 0..0 /\ 1..0 = {}
    OBVIOUS
  <2>2. f \in [0..0 -> V] /\ f[0] = a
    BY <2>1
  <2> HIDE DEF f
  <2>3. Good(0, f)
    BY <2>1, <2>2
  <2> QED
    BY <2>1, <2>2, <2>3
<1>2. ASSUME NEW m \in 0..N, m \in T, m < N PROVE m + 1 \in T
  <2>1. m \in Nat /\ m + 1 \in 0..N /\ m + 1 \in 1..N /\ m \in 0..m
    BY <1>2
  <2>2. PICK f \in [0..m -> V] : Good(m, f)
    BY <1>2
  <2> DEFINE v == st[<<f[m], m + 1>>]
             g == [n \in 0..m + 1 |-> IF n = m + 1 THEN v ELSE f[n]]
  <2>3. v \in V
    BY <2>1, <2>2 DEF StepIn
  <2>4. /\ \A n \in 0..m + 1 : n \in 0..m \/ n = m + 1
        /\ \A n \in 0..m : n # m + 1 /\ n \in 0..m + 1
        /\ \A n \in 1..m + 1 : n \in 1..m \/ n = m + 1
        /\ \A n \in 1..m : n \in 0..m /\ n - 1 \in 0..m
        /\ (m + 1) - 1 = m /\ 0 \in 0..m /\ m + 1 \in 0..m + 1
    BY <2>1
  <2>5. \A n \in 0..m : g[n] = f[n]
    BY <2>4
  <2>6. g[m + 1] = v
    BY <2>4
  <2>7. g \in [0..m + 1 -> V]
    BY <2>2, <2>3, <2>4
  <2>8. f[0] = a /\ \A n \in 1..m : f[n] = st[<<f[n - 1], n>>]
    BY <2>2
  <2> HIDE DEF g
  <2>9. ASSUME NEW n \in 1..m + 1 PROVE g[n] = st[<<g[n - 1], n>>]
    <3>1. CASE n \in 1..m
      BY <2>4, <2>5, <2>8, <3>1
    <3>2. CASE n = m + 1
      BY <2>4, <2>5, <2>6, <3>2
    <3> QED
      BY <2>4, <3>1, <3>2
  <2>10. Good(m + 1, g)
    BY <2>4, <2>5, <2>8, <2>9
  <2> HIDE DEF Good
  <2> QED
    BY <2>1, <2>7, <2>10
<1> HIDE DEF Good
<1>3. \A m \in 0..N : m \in T
  <2> HIDE DEF T
  <2> QED
    BY <1>1, <1>2, UpToInduction
<1>4. N \in 0..N
  OBVIOUS
<1>5. PICK f \in [0..N -> V] : Good(N, f)
  BY <1>3, <1>4
<1>6. f = [n \in 0..N |-> f[n]] /\ \A n \in 0..N : f[n] \in V
  BY <1>5
<1> QED
  BY <1>5, <1>6 DEF Good, Steps

LEMMA MinFacts ==
    ASSUME NEW S \in SUBSET Nat, S # {}
    PROVE  MinOf(S) \in S /\ \A y \in S : MinOf(S) <= y
BY LeastNumber DEF MinOf

LEMMA MaxFacts ==
    ASSUME NEW S \in SUBSET Nat, S # {}, NEW b \in Nat, \A y \in S : y <= b
    PROVE  MaxOf(S) \in S /\ \A y \in S : y <= MaxOf(S)
<1> DEFINE B == {n \in Nat : \A y \in S : y <= n}
<1>1. PICK m \in B : \A n \in B : m <= n
  BY LeastNumber
<1>2. m \in Nat /\ \A y \in S : y <= m
  OBVIOUS
<1>3. m \in S
  <2> SUFFICES ASSUME m \notin S PROVE FALSE
    OBVIOUS
  <2>1. \A y \in S : y <= m - 1
    BY <1>2
  <2>2. m - 1 \in Nat
    <3>1. PICK y \in S : TRUE
      OBVIOUS
    <3> QED
      BY <1>2, <2>1, <3>1
  <2>3. m - 1 \in B
    BY <2>1, <2>2
  <2> QED
    BY <1>1, <1>2, <2>3
<1> QED
  BY <1>2, <1>3 DEF MaxOf

LEMMA FiniteBounded ==
    ASSUME NEW S \in SUBSET Nat, IsFiniteSet(S)
    PROVE  \E b \in Nat : \A y \in S : y <= b
<1>1. PICK s \in Seq(S) : \A y \in S : \E i \in 1..Len(s) : s[i] = y
  BY DEF IsFiniteSet
<1> DEFINE n == Len(s)
           T == {m \in 0..n : \E b \in Nat : \A i \in 1..m : s[i] <= b}
<1>2. n \in Nat /\ \A i \in 1..n : s[i] \in Nat
  BY LenProperties, ElementOfSeq
<1> HIDE DEF n
<1>3. 0 \in T
  <2>1. 0 \in 0..n /\ 1..0 = {} /\ 0 \in Nat
    BY <1>2
  <2> QED
    BY <2>1
<1>4. ASSUME NEW m \in 0..n, m \in T, m < n PROVE m + 1 \in T
  <2>1. PICK b \in Nat : \A i \in 1..m : s[i] <= b
    BY <1>4
  <2>2. m + 1 \in 1..n /\ m + 1 \in 0..n /\ \A i \in 1..m + 1 : i \in 1..m \/ i = m + 1
    BY <1>2, <1>4
  <2> DEFINE c == IF s[m + 1] <= b THEN b ELSE s[m + 1]
  <2>3. c \in Nat /\ b <= c /\ s[m + 1] <= c
    BY <1>2, <2>2
  <2> HIDE DEF c
  <2>4. \A i \in 1..m : s[i] \in Nat
    BY <1>2, <1>4
  <2>5. \A i \in 1..m + 1 : s[i] <= c
    BY <2>1, <2>2, <2>3, <2>4
  <2> QED
    BY <2>2, <2>3, <2>5
<1>5. n \in T
  <2> HIDE DEF T
  <2>1. \A m \in 0..n : m \in T
    BY <1>2, <1>3, <1>4, UpToInduction
  <2> QED
    BY <1>2, <2>1
<1>6. PICK b \in Nat : \A i \in 1..n : s[i] <= b
  BY <1>5
<1> QED
  BY <1>1, <1>6 DEF n

-----------------------------------------------------------------------------
(* The offsets of a file.                                                  *)

LEMMA LineFacts ==
    ASSUME NEW f \in Lines
    PROVE  /\ Len(f) \in Nat /\ DOMAIN f = 1..Len(f)
           /\ \A i \in 1..Len(f) :
                /\ f[i] \in Kind /\ f[i].time \in Nat /\ f[i].size \in Nat \ {0}
<1>1. Len(f) \in Nat /\ DOMAIN f = 1..Len(f) /\ \A i \in 1..Len(f) : f[i] \in Kind
  BY LenProperties, ElementOfSeq DEF Lines
<1> QED
  BY <1>1, LogFilesAssumption

LEMMA EndDef ==
    ASSUME NEW f \in Lines
    PROVE  /\ End(f)[0] = 0
           /\ \A i \in 1..Len(f) : End(f)[i] = End(f)[i - 1] + f[i].size
           /\ \A i \in 0..Len(f) : End(f)[i] \in Nat
<1> DEFINE N == Len(f)
           st == [x \in Nat \X (1..N) |-> x[1] + f[x[2]].size]
           Is(e) == e = [i \in 0..N |-> IF i = 0 THEN 0 ELSE e[i - 1] + f[i].size]
           c == CHOOSE e : Is(e)
<1>1. N \in Nat /\ \A i \in 1..N : f[i].size \in Nat
  BY LineFacts
<1>2. \A v \in Nat : \A i \in 1..N : st[<<v, i>>] \in Nat
  BY <1>1
<1>3. \A v \in Nat, i \in 1..N : st[<<v, i>>] = v + f[i].size
  OBVIOUS
<1> HIDE DEF st
<1>4. PICK e : /\ e = [i \in 0..N |-> e[i]] /\ \A n \in 0..N : e[n] \in Nat
               /\ e[0] = 0 /\ \A n \in 1..N : e[n] = st[<<e[n - 1], n>>]
  <2>1. StepIn(Nat, N, st) /\ 0 \in Nat
    BY <1>2 DEF StepIn
  <2> HIDE DEF N
  <2>2. \E e : Steps(e, Nat, 0, N, st)
    BY <1>1, <2>1, Recursion
  <2> QED
    BY <2>2 DEF Steps
<1>5. Is(e)
  <2>1. e = [i \in 0..N |-> e[i]]
    BY <1>4
  <2>2. ASSUME NEW i \in 0..N PROVE e[i] = IF i = 0 THEN 0 ELSE e[i - 1] + f[i].size
    <3>1. CASE i = 0
      BY <1>4, <3>1
    <3>2. CASE i # 0
      <4>1. i \in 1..N /\ i - 1 \in 0..N
        BY <1>1, <3>2
      <4>2. e[i - 1] \in Nat /\ e[i] = st[<<e[i - 1], i>>]
        BY <1>4, <4>1
      <4> QED
        BY <1>3, <3>2, <4>1, <4>2
    <3> QED
      BY <3>1, <3>2
  <2> QED
    BY <2>1, <2>2
<1>6. Is(c)
  BY <1>5
<1>7. End(f) = c
  BY DEF End
<1> HIDE DEF c
<1>8. \A i \in 0..N : c[i] = IF i = 0 THEN 0 ELSE c[i - 1] + f[i].size
  BY <1>6
<1> HIDE DEF N
<1>9. c[0] = 0 /\ \A i \in 1..N : c[i] = c[i - 1] + f[i].size
  <2>1. 0 \in 0..N /\ \A i \in 1..N : i \in 0..N /\ i # 0
    BY <1>1
  <2> QED
    BY <1>8, <2>1
<1> DEFINE T == {i \in Nat : c[i] \in Nat}
<1>10. 0 \in T
  BY <1>9
<1>11. ASSUME NEW i \in 0..N, i \in T, i < N PROVE i + 1 \in T
  <2>1. i + 1 \in 1..N /\ (i + 1) - 1 = i /\ i + 1 \in Nat
    BY <1>1, <1>11
  <2>2. c[i + 1] = c[i] + f[i + 1].size
    BY <1>9, <2>1
  <2> QED
    BY <1>1, <1>11, <2>1, <2>2
<1>12. \A i \in 0..N : i \in T
  <2> HIDE DEF T
  <2> QED
    BY <1>1, <1>10, <1>11, UpToInduction
<1> QED
  BY <1>7, <1>9, <1>12 DEF N

LEMMA EndGrows ==
    ASSUME NEW f \in Lines, NEW i \in 0..Len(f), NEW j \in 0..Len(f), i < j
    PROVE  End(f)[i] < End(f)[j]
<1> DEFINE N == Len(f)
           e == End(f)
           T == {d \in Nat : i + 1 + d <= N => e[i] < e[i + 1 + d]}
<1>1. /\ N \in Nat /\ \A n \in 1..N : e[n] = e[n - 1] + f[n].size /\ f[n].size \in Nat \ {0}
      /\ \A n \in 0..N : e[n] \in Nat
  BY EndDef, LineFacts
<1> HIDE DEF N, e
<1>2. i \in 0..N /\ j \in 0..N
  BY DEF N
<1>3. 0 \in T
  <2>1. CASE i + 1 <= N
    <3>1. i + 1 \in 1..N /\ (i + 1) - 1 = i
      BY <1>1, <1>2, <2>1
    <3> QED
      BY <1>1, <1>2, <3>1
  <2> QED
    BY <1>2, <2>1
<1>4. ASSUME NEW d \in T PROVE d + 1 \in T
  <2>1. CASE i + 1 + (d + 1) <= N
    <3> DEFINE n == i + 1 + (d + 1)
    <3>1. n \in 1..N /\ n - 1 = i + 1 + d /\ i + 1 + d \in 0..N /\ i + 1 + d <= N
      BY <1>1, <1>2, <2>1
    <3>2. e[i] < e[n - 1]
      BY <3>1
    <3> HIDE DEF n
    <3>3. e[n] = e[n - 1] + f[n].size /\ f[n].size \in Nat \ {0} /\ e[n - 1] \in Nat /\ e[i] \in Nat
      BY <1>1, <1>2, <3>1
    <3>4. e[i] < e[n]
      BY <3>2, <3>3
    <3> QED
      BY <3>4 DEF n
  <2> QED
    BY <2>1
<1>5. T = Nat
  <2> HIDE DEF T
  <2>1. T \subseteq Nat
    BY DEF T
  <2> QED
    BY <1>3, <1>4, <2>1, SetInduction
<1>6. j - (i + 1) \in Nat /\ i + 1 + (j - (i + 1)) = j /\ j <= N
  BY <1>1, <1>2
<1>7. j - (i + 1) \in T
  BY <1>5, <1>6
<1> QED
  BY <1>6, <1>7 DEF e

(* The same, for offsets that may be equal. *)
LEMMA EndOrder ==
    ASSUME NEW f \in Lines
    PROVE  \A i, j \in 0..Len(f) : /\ i < j <=> End(f)[i] < End(f)[j]
                                   /\ i <= j <=> End(f)[i] <= End(f)[j]
                                   /\ i = j <=> End(f)[i] = End(f)[j]
<1>1. \A i \in 0..Len(f) : End(f)[i] \in Nat
  BY EndDef
<1>2. \A i, j \in 0..Len(f) : i < j => End(f)[i] < End(f)[j]
  BY EndGrows
<1> SUFFICES ASSUME NEW i \in 0..Len(f), NEW j \in 0..Len(f)
             PROVE  /\ i < j <=> End(f)[i] < End(f)[j]
                    /\ i <= j <=> End(f)[i] <= End(f)[j]
                    /\ i = j <=> End(f)[i] = End(f)[j]
  OBVIOUS
<1>3. i < j \/ i = j \/ j < i
  OBVIOUS
<1> QED
  BY <1>1, <1>2, <1>3

(* An offset function is determined by its steps.                          *)
LEMMA EndUnique ==
    ASSUME NEW f \in Lines, NEW n \in 0..Len(f), NEW m \in Nat, n + m <= Len(f), NEW e, NEW b \in Nat,
           e[0] = 0, \A i \in 1..m : e[i] = e[i - 1] + f[n + i].size, End(f)[n] = b
    PROVE  \A i \in 0..m : End(f)[n + i] = b + e[i] /\ e[i] \in Nat
<1> DEFINE E == End(f)
           T == {i \in Nat : E[n + i] = b + e[i] /\ e[i] \in Nat}
<1>1. /\ Len(f) \in Nat /\ n \in Nat
      /\ \A i \in 1..Len(f) : E[i] = E[i - 1] + f[i].size /\ f[i].size \in Nat
      /\ \A i \in 0..Len(f) : E[i] \in Nat
  BY EndDef, LineFacts
<1>2. 0 \in T
  <2>1. n + 0 = n
    BY <1>1
  <2> QED
    BY <2>1
<1> HIDE DEF E
<1>3. ASSUME NEW i \in 0..m, i \in T, i < m PROVE i + 1 \in T
  <2>1. /\ i \in Nat /\ i + 1 \in Nat /\ i + 1 \in 1..m /\ (i + 1) - 1 = i
        /\ n + (i + 1) \in 1..Len(f) /\ (n + (i + 1)) - 1 = n + i
    BY <1>1, <1>3
  <2> DEFINE j == n + (i + 1)
  <2>2. E[j] = E[j - 1] + f[j].size /\ f[j].size \in Nat
    BY <1>1, <2>1
  <2>3. e[i + 1] = e[i] + f[j].size
    BY <2>1
  <2>4. E[j - 1] = b + e[i] /\ e[i] \in Nat
    BY <1>3, <2>1
  <2> HIDE DEF j
  <2>5. E[j] = b + e[i + 1] /\ e[i + 1] \in Nat
    <3> DEFINE s == f[j].size
               x == e[i]
    <3>1. E[j] = (b + x) + s /\ e[i + 1] = x + s /\ s \in Nat /\ x \in Nat
      BY <2>2, <2>3, <2>4
    <3> HIDE DEF s, x
    <3> QED
      BY <3>1
  <2> QED
    BY <2>1, <2>5 DEF j
<1>4. \A i \in 0..m : i \in T
  <2> HIDE DEF T
  <2> QED
    BY <1>2, <1>3, UpToInduction
<1> QED
  BY <1>4 DEF E

(* What is appended changes no offset before it.                           *)
LEMMA EndAppended ==
    ASSUME NEW f \in Lines, NEW k \in Kind
    PROVE  /\ Append(f, k) \in Lines /\ Len(Append(f, k)) = Len(f) + 1
           /\ \A i \in 1..Len(f) : Append(f, k)[i] = f[i]
           /\ Append(f, k)[Len(f) + 1] = k
           /\ \A i \in 0..Len(f) : End(Append(f, k))[i] = End(f)[i]
           /\ Size(f) <= Size(Append(f, k))
<1> DEFINE g == Append(f, k)
           n == Len(f)
<1>1. /\ g \in Lines /\ Len(g) = n + 1 /\ n \in Nat
      /\ \A i \in 1..n : g[i] = f[i]
      /\ g[n + 1] = k
  BY AppendProperties, LenProperties DEF Lines
<1>2. /\ End(f)[0] = 0 /\ \A i \in 1..n : End(f)[i] = End(f)[i - 1] + f[i].size
      /\ End(g)[0] = 0
  BY <1>1, EndDef
<1> HIDE DEF g, n
<1>3. \A i \in 0..n : End(g)[i] = End(f)[i]
  <2> DEFINE e == End(f)
  <2>1. e[0] = 0 /\ \A i \in 1..n : e[i] = e[i - 1] + g[0 + i].size
    <3>1. \A i \in 1..n : 0 + i = i
      OBVIOUS
    <3> QED
      BY <1>1, <1>2, <3>1
  <2>2. 0 \in 0..Len(g) /\ 0 + n <= Len(g) /\ 0 \in Nat
    BY <1>1
  <2> HIDE DEF e
  <2>3. \A i \in 0..n : End(g)[0 + i] = 0 + e[i] /\ e[i] \in Nat
    BY <1>1, <1>2, <2>1, <2>2, EndUnique
  <2>4. \A i \in 0..n : 0 + i = i
    OBVIOUS
  <2> QED
    BY <2>3, <2>4 DEF e
<1>4. Size(f) <= Size(g)
  <2>1. n \in 0..Len(g) /\ Len(g) \in 0..Len(g) /\ n < Len(g) /\ n \in 0..n
    BY <1>1
  <2>2. End(g)[n] < End(g)[Len(g)]
    BY <1>1, <2>1, EndGrows
  <2>3. End(g)[n] \in Nat /\ End(g)[Len(g)] \in Nat
    BY <1>1, <2>1, EndDef
  <2>4. Size(f) = End(g)[n]
    BY <1>3, <2>1 DEF Size, n
  <2> QED
    BY <2>2, <2>3, <2>4 DEF Size
<1> QED
  BY <1>1, <1>3, <1>4 DEF g, n

(* The file without its first n lines.                                     *)
LEMMA SuffixFacts ==
    ASSUME NEW f \in Lines, NEW n \in 0..Len(f)
    PROVE  LET t == SubSeq(f, n + 1, Len(f))
           IN  /\ t \in Lines /\ Len(t) = Len(f) - n
               /\ \A i \in 1..Len(t) : t[i] = f[n + i]
               /\ Size(t) = Size(f) - End(f)[n]
<1> DEFINE t == SubSeq(f, n + 1, Len(f))
           m == Len(f) - n
<1>1. Len(f) \in Nat /\ n \in Nat /\ m \in Nat /\ \A i \in 1..Len(f) : f[i] \in Kind
  BY LineFacts
<1>2. t \in Lines /\ Len(t) = m /\ \A i \in 1..m : t[i] = f[n + i]
  <2>1. \A i \in n + 1..Len(f) : f[i] \in Kind
    BY <1>1
  <2>2. n + 1 \in Int /\ Len(f) \in Int
    BY <1>1
  <2>3. /\ t \in Seq(Kind) /\ Len(t) = (IF n + 1 <= Len(f) THEN Len(f) - (n + 1) + 1 ELSE 0)
        /\ \A i \in 1..Len(f) - (n + 1) + 1 : t[i] = f[(n + 1) + i - 1]
    BY <2>1, <2>2, SubSeqProperties
  <2>4. Len(f) - (n + 1) + 1 = m /\ \A i \in 1..m : (n + 1) + i - 1 = n + i
    BY <1>1
  <2>5. Len(t) = m
    BY <1>1, <2>3
  <2>6. \A i \in 1..m : t[i] = f[n + i]
    BY <2>3, <2>4
  <2> QED
    BY <2>3, <2>5, <2>6 DEF Lines
<1> HIDE DEF t
<1>3. Size(t) = Size(f) - End(f)[n]
  <2> DEFINE e == End(t)
             b == End(f)[n]
  <2>1. e[0] = 0 /\ \A i \in 1..m : e[i] = e[i - 1] + f[n + i].size
    <3>1. e[0] = 0 /\ \A i \in 1..m : e[i] = e[i - 1] + t[i].size
      BY <1>2, EndDef
    <3> QED
      BY <1>2, <3>1
  <2>2. b \in Nat /\ n + m <= Len(f) /\ n + m = Len(f) /\ m \in 0..m
    BY <1>1, EndDef
  <2> HIDE DEF e, b, m
  <2>3. \A i \in 0..m : End(f)[n + i] = b + e[i] /\ e[i] \in Nat
    BY <1>1, <2>1, <2>2, EndUnique DEF b
  <2>4. End(f)[Len(f)] = b + e[m] /\ e[m] \in Nat
    BY <2>2, <2>3
  <2> QED
    BY <1>2, <2>2, <2>4 DEF Size, e, b
<1> QED
  BY <1>2, <1>3 DEF t

(* Every byte is in one line.                                              *)
LEMMA LineAtFacts ==
    ASSUME NEW f \in Lines, NEW p \in Nat, p < Size(f)
    PROVE  /\ LineAt(f, p) \in 1..Len(f)
           /\ End(f)[LineAt(f, p) - 1] <= p /\ p < End(f)[LineAt(f, p)]
           /\ \A j \in 1..Len(f) : End(f)[j - 1] <= p /\ p < End(f)[j] => j = LineAt(f, p)
<1> DEFINE e == End(f)
           S == {i \in 1..Len(f) : p < e[i]}
<1>1. /\ Len(f) \in Nat /\ DOMAIN f = 1..Len(f) /\ e[0] = 0
      /\ \A i \in 0..Len(f) : e[i] \in Nat
  BY LineFacts, EndDef
<1>2. Len(f) \in S
  <2>1. Len(f) # 0
    BY <1>1 DEF Size
  <2> QED
    BY <1>1, <2>1 DEF Size
<1>3. S \in SUBSET Nat /\ S # {}
  BY <1>1, <1>2
<1>4. PICK i \in S : \A y \in S : i <= y
  BY <1>3, LeastNumber
<1>9. \A x, y \in 0..Len(f) : e[x] < e[y] => x < y
  BY EndOrder
<1> HIDE DEF e
<1>5. i \in 1..Len(f) /\ i - 1 \in 0..Len(f) /\ p < e[i]
  BY <1>1, <1>4
<1>6. e[i - 1] <= p
  <2>1. CASE i - 1 = 0
    BY <1>1, <2>1
  <2>2. CASE i - 1 # 0
    <3>1. i - 1 \in 1..Len(f) /\ ~(i <= i - 1)
      BY <1>5, <2>2
    <3>2. ~(p < e[i - 1])
      BY <1>4, <3>1
    <3> QED
      BY <1>1, <1>5, <3>2
  <2> QED
    BY <2>1, <2>2
<1>7. ASSUME NEW j \in 1..Len(f), NEW l \in 1..Len(f),
             e[j - 1] <= p, p < e[j], e[l - 1] <= p, p < e[l]
      PROVE  j = l
  <2>1. /\ j \in 0..Len(f) /\ j - 1 \in 0..Len(f) /\ l \in 0..Len(f) /\ l - 1 \in 0..Len(f)
    OBVIOUS
  <2>2. e[j - 1] < e[l] /\ e[l - 1] < e[j]
    <3>1. e[j - 1] \in Nat /\ e[l - 1] \in Nat /\ e[j] \in Nat /\ e[l] \in Nat
      BY <1>1, <2>1
    <3> QED
      BY <1>7, <3>1
  <2>3. j - 1 < l /\ l - 1 < j
    BY <1>9, <2>1, <2>2
  <2> QED
    BY <2>3
<1>8. LineAt(f, p) \in 1..Len(f) /\ e[LineAt(f, p) - 1] <= p /\ p < e[LineAt(f, p)]
  BY <1>1, <1>5, <1>6 DEF LineAt, e
<1> QED
  BY <1>7, <1>8 DEF e

LEMMA AfterNewlineFacts ==
    ASSUME NEW f \in Lines, NEW from \in Nat, NEW to \in Nat
    PROVE  /\ AfterNewline(f, from, to) \in SUBSET Nat
           /\ \A x \in AfterNewline(f, from, to) :
                x <= to /\ \E j \in 1..Len(f) : x = End(f)[j] /\ from < x
           /\ \A j \in 1..Len(f) : from < End(f)[j] /\ End(f)[j] <= to
                => End(f)[j] \in AfterNewline(f, from, to)
<1> DEFINE e == End(f)
<1>1. DOMAIN f = 1..Len(f) /\ \A j \in 1..Len(f) : e[j] \in Nat
  BY LineFacts, EndDef
<1>2. \A x : x \in AfterNewline(f, from, to) <=>
               \E j \in 1..Len(f) : x = e[j] /\ from < e[j] /\ e[j] <= to
  BY <1>1 DEF AfterNewline
<1> HIDE DEF e
<1>3. AfterNewline(f, from, to) \in SUBSET Nat
  BY <1>1, <1>2
<1> QED
  BY <1>2, <1>3 DEF e

LEMMA BackFromFacts ==
    ASSUME NEW p \in Nat
    PROVE  /\ BackFrom(p) \in Nat /\ BackFrom(p) <= p
           /\ \/ BackFrom(p) = 0 /\ p <= ScanBack
              \/ BackFrom(p) = p - ScanBack /\ p > ScanBack
<1>1. ScanBack \in Nat \ {0}
  BY LogFilesAssumption
<1> QED
  BY <1>1 DEF BackFrom

-----------------------------------------------------------------------------
(* The tail that a trim keeps.                                             *)

LEMMA TruncatedAt ==
    ASSUME NEW f \in Lines, NEW n \in 0..Len(f)
    PROVE  Truncated(f, End(f)[n]) = SubSeq(f, n + 1, Len(f))
<1> DEFINE e == End(f)
           c == CHOOSE i \in 0..Len(f) : e[i] = e[n]
<1>1. c \in 0..Len(f) /\ e[c] = e[n]
  OBVIOUS
<1> HIDE DEF c
<1>2. c = n
  BY <1>1, EndOrder
<1> QED
  BY <1>2 DEF Truncated, c

LEMMA TailOffset ==
    ASSUME NEW f \in Lines, NEW max \in Nat
    PROVE  \E n \in 0..Len(f) :
             /\ FindTailOffset(f, max) = End(f)[n]
             /\ (Size(f) > max /\ \A i \in 1..Len(f) : f[i].size <= ScanBack) =>
                  /\ n \in 1..Len(f)
                  /\ Size(f) - End(f)[n] >= max \/ n = 1
                  /\ n < Len(f) => Size(f) - End(f)[n + 1] < max
<1> DEFINE e == End(f)
           N == Len(f)
           size == Size(f)
<1>1. /\ N \in Nat /\ size \in Nat /\ size = e[N] /\ e[0] = 0
      /\ \A i \in 0..N : e[i] \in Nat
      /\ \A i \in 1..N : e[i] = e[i - 1] + f[i].size /\ f[i].size \in Nat \ {0}
  BY LineFacts, EndDef DEF Size
<1>2. CASE size <= max
  <2>1. FindTailOffset(f, max) = e[0] /\ 0 \in 0..N
    BY <1>1, <1>2 DEF FindTailOffset
  <2> QED
    BY <1>1, <1>2, <2>1
<1>3. CASE size > max
  <2> DEFINE target == size - max
             from == BackFrom(target)
             before == AfterNewline(f, from, target)
             after == AfterNewline(f, target, size)
  <2>1. target \in Nat /\ size \in Nat /\ from \in Nat /\ from <= target /\ target <= size
    <3>1. target \in Nat /\ target <= size
      BY <1>1, <1>3
    <3> HIDE DEF target, size
    <3>2. from \in Nat /\ from <= target
      BY <3>1, BackFromFacts
    <3> QED
      BY <1>1, <3>1, <3>2
  <2>2. /\ before \in SUBSET Nat /\ after \in SUBSET Nat
        /\ \A x \in before : x <= target /\ \E j \in 1..N : x = e[j] /\ from < x
        /\ \A x \in after : x <= size /\ \E j \in 1..N : x = e[j] /\ target < x
        /\ \A j \in 1..N : from < e[j] /\ e[j] <= target => e[j] \in before
        /\ \A j \in 1..N : target < e[j] /\ e[j] <= size => e[j] \in after
    BY <2>1, AfterNewlineFacts
  <2>3. FindTailOffset(f, max) = IF before # {} THEN MaxOf(before)
                                 ELSE IF after # {} THEN MinOf(after) ELSE size
    BY <1>1, <1>3 DEF FindTailOffset
  <2>4. N # 0 /\ N \in 1..N
    BY <1>1, <1>3
  <2>5. \A i, j \in 0..N : (i < j <=> e[i] < e[j]) /\ (i <= j <=> e[i] <= e[j])
    BY EndOrder
  <2>6. (from = 0 /\ target <= ScanBack) \/ (from = target - ScanBack /\ target > ScanBack)
    BY <2>1, BackFromFacts
  <2>6a. ScanBack \in Nat \ {0}
    BY LogFilesAssumption
  <2> HIDE DEF from, before, after, target, e, N, size
  <2>7. CASE before # {}
    <3>1. MaxOf(before) \in before /\ \A y \in before : y <= MaxOf(before)
      BY <2>1, <2>2, <2>7, MaxFacts
    <3>2. PICK n \in 1..N : MaxOf(before) = e[n] /\ from < e[n] /\ e[n] <= target
      BY <2>2, <3>1
    <3>3. n \in 0..N /\ e[n] \in Nat
      BY <1>1, <3>2
    <3>4. size - e[n] >= max
      BY <1>1, <1>3, <2>1, <3>2, <3>3 DEF target
    <3>5. ASSUME n < N PROVE size - e[n + 1] < max
      <4>1. n + 1 \in 1..N /\ n + 1 \in 0..N /\ n < n + 1
        BY <1>1, <3>5
      <4>2. e[n] < e[n + 1] /\ e[n + 1] \in Nat
        BY <1>1, <2>5, <3>3, <4>1
      <4>3. ~(e[n + 1] <= target)
        <5> SUFFICES ASSUME e[n + 1] <= target PROVE FALSE
          OBVIOUS
        <5>1. from < e[n + 1]
          BY <2>1, <3>2, <3>3, <4>2
        <5>2. e[n + 1] \in before
          BY <2>2, <4>1, <5>1
        <5>3. e[n + 1] <= e[n]
          BY <3>1, <3>2, <5>2
        <5> QED
          BY <3>3, <4>2, <5>3
      <4> QED
        BY <1>1, <1>3, <2>1, <4>2, <4>3 DEF target
    <3>6. FindTailOffset(f, max) = e[n]
      BY <2>3, <2>7, <3>2
    <3> QED
      BY <3>2, <3>3, <3>4, <3>5, <3>6 DEF e, N, size
  <2>8. CASE before = {} /\ after # {}
    <3>1. MinOf(after) \in after /\ \A y \in after : MinOf(after) <= y
      BY <2>2, <2>8, MinFacts
    <3>2. PICK n \in 1..N : MinOf(after) = e[n] /\ target < e[n]
      BY <2>2, <3>1
    <3>3. FindTailOffset(f, max) = e[n] /\ n \in 0..N /\ e[n] \in Nat
      BY <1>1, <2>3, <2>8, <3>2
    <3>4. ASSUME n < N PROVE size - e[n + 1] < max
      <4>1. n + 1 \in 0..N /\ n < n + 1
        BY <1>1, <3>4
      <4>2. e[n] < e[n + 1] /\ e[n + 1] \in Nat
        BY <1>1, <2>5, <3>3, <4>1
      <4> QED
        BY <1>1, <1>3, <2>1, <3>2, <3>3, <4>2 DEF target
    <3>5. ASSUME \A i \in 1..N : f[i].size <= ScanBack PROVE n = 1
      <4> SUFFICES ASSUME n # 1 PROVE FALSE
        OBVIOUS
      <4>1. n - 1 \in 1..N /\ n - 1 \in 0..N /\ n - 1 < n
        BY <1>1
      <4>2. e[n - 1] < e[n] /\ e[n - 1] \in Nat
        BY <1>1, <2>5, <3>3, <4>1
      <4>3. e[n - 1] <= target
        <5> SUFFICES ASSUME target < e[n - 1] PROVE FALSE
          BY <2>1, <4>2
        <5>1. e[n - 1] <= size
          <6>1. N \in 0..N /\ n - 1 <= N
            BY <1>1, <4>1
          <6> QED
            BY <1>1, <2>5, <4>1, <6>1
        <5>2. e[n - 1] \in after
          BY <2>2, <4>1, <5>1
        <5>3. e[n] <= e[n - 1]
          BY <3>1, <3>2, <5>2
        <5> QED
          BY <3>3, <4>2, <5>3
      <4>4. e[n] = e[n - 1] + f[n].size /\ f[n].size \in Nat \ {0} /\ f[n].size <= ScanBack
        BY <1>1, <3>5
      <4>5. from < e[n - 1]
        <5>1. CASE from = 0
          <6>1. 0 \in 0..N /\ 0 < n - 1
            BY <1>1, <4>1
          <6> QED
            BY <1>1, <2>5, <4>1, <5>1, <6>1
        <5>2. CASE from = target - ScanBack /\ target > ScanBack
          BY <2>1, <2>6a, <3>2, <3>3, <4>2, <4>4, <5>2
        <5> QED
          BY <2>6, <5>1, <5>2
      <4>6. e[n - 1] \in before
        BY <2>2, <4>1, <4>3, <4>5
      <4> QED
        BY <2>8, <4>6
    <3> QED
      BY <3>2, <3>3, <3>4, <3>5 DEF e, N, size
  <2>9. CASE before = {} /\ after = {}
    <3>1. target = size
      <4> SUFFICES ASSUME target < size PROVE FALSE
        BY <1>1, <2>1
      <4>1. e[N] \in after
        BY <1>1, <2>2, <2>4
      <4> QED
        BY <2>9, <4>1
    <3>2. from < size
      BY <1>1, <1>3, <2>1, <2>6, <2>6a, <3>1
    <3>3. e[N] \in before
      BY <1>1, <2>2, <2>4, <3>1, <3>2
    <3> QED
      BY <2>9, <3>3
  <2> QED
    BY <2>7, <2>8, <2>9
<1> QED
  BY <1>1, <1>2, <1>3

LEMMA TrimFacts ==
    ASSUME NEW k \in Lines, NEW s \in Filter, Matches(s, Size(k)), Size(k) > s.at,
           \A i \in 1..Len(k) : k[i].size <= ScanBack
    PROVE  LET t == Trimmed(k, s)
           IN  /\ Len(t) < Len(k)
               /\ Size(t) >= s.at \/ Len(t) = Len(k) - 1
               /\ t # <<>> => Size(Tail(t)) < s.at
<1> DEFINE max == s.at
           t == Trimmed(k, s)
           e == End(k)
<1>1. max \in Nat /\ Len(k) \in Nat /\ Size(k) \in Nat /\ \A i \in 0..Len(k) : e[i] \in Nat
  BY LineFacts, EndDef DEF Filter, Size
<1>2. PICK n \in 0..Len(k) :
        /\ FindTailOffset(k, max) = e[n]
        /\ n \in 1..Len(k)
        /\ Size(k) - e[n] >= max \/ n = 1
        /\ n < Len(k) => Size(k) - e[n + 1] < max
  BY <1>1, TailOffset
<1>3. t = SubSeq(k, n + 1, Len(k))
  BY <1>2, TruncatedAt DEF Trimmed
<1> HIDE DEF t, e, max
<1>4. t \in Lines /\ Len(t) = Len(k) - n /\ Size(t) = Size(k) - e[n]
  BY <1>3, SuffixFacts DEF e
<1>5. Len(t) < Len(k)
  BY <1>1, <1>2, <1>4
<1>6. Size(t) >= max \/ Len(t) = Len(k) - 1
  BY <1>2, <1>4
<1>7. ASSUME t # <<>> PROVE Size(Tail(t)) < max
  <2>1. Len(t) # 0
    BY <1>4, <1>7, EmptySeq DEF Lines
  <2>2. n < Len(k) /\ n + 1 \in 1..Len(k) /\ n + 1 \in 0..Len(k) /\ Len(k) \in n + 1..Len(k)
    BY <1>1, <1>2, <1>4, <2>1
  <2>3. Tail(t) = SubSeq(k, (n + 1) + 1, Len(k))
    <3> DEFINE m == n + 1
    <3>1. k \in Seq(Kind) /\ m \in 1..Len(k) /\ Len(k) \in m..Len(k)
      BY <2>2 DEF Lines
    <3> HIDE DEF m
    <3>2. Tail(SubSeq(k, m, Len(k))) = SubSeq(k, m + 1, Len(k))
      BY <3>1, HeadTailOfSubSeq
    <3> QED
      BY <1>3, <3>2 DEF m
  <2>4. Size(Tail(t)) = Size(k) - e[n + 1]
    <3> DEFINE m == n + 1
    <3>1. m \in 0..Len(k) /\ Tail(t) = SubSeq(k, m + 1, Len(k))
      BY <2>2, <2>3
    <3> HIDE DEF m
    <3>2. Size(SubSeq(k, m + 1, Len(k))) = Size(k) - End(k)[m]
      BY <3>1, SuffixFacts
    <3> QED
      BY <3>1, <3>2 DEF m, e
  <2> QED
    BY <1>2, <2>2, <2>4
<1> QED
  BY <1>5, <1>6, <1>7 DEF t, max

-----------------------------------------------------------------------------
(* The lines that are kept, and the lines before an offset.                *)

LEMMA SelectDef ==
    ASSUME NEW f \in Lines, NEW S
    PROVE  \E c : /\ Select(f, S) = c[Len(f)] /\ c[0] = <<>>
                  /\ \A i \in 1..Len(f) :
                       /\ f[i] \in S => c[i] = Append(c[i - 1], f[i])
                       /\ f[i] \notin S => c[i] = c[i - 1]
                  /\ \A i \in 0..Len(f) : c[i] \in Lines
<1> DEFINE N == Len(f)
           st == [x \in Lines \X (1..N) |->
                    IF f[x[2]] \in S THEN Append(x[1], f[x[2]]) ELSE x[1]]
           Is(e) == e = [i \in 0..N |->
                           IF i = 0 THEN <<>>
                           ELSE IF f[i] \in S THEN Append(e[i - 1], f[i]) ELSE e[i - 1]]
           c == CHOOSE e : Is(e)
<1>1. N \in Nat /\ \A i \in 1..N : f[i] \in Kind
  BY LineFacts
<1>2. \A v \in Lines, k \in Kind : Append(v, k) \in Lines
  BY AppendProperties DEF Lines
<1>3. <<>> \in Lines
  BY EmptySeq DEF Lines
<1>4. \A v \in Lines, i \in 1..N :
        st[<<v, i>>] = IF f[i] \in S THEN Append(v, f[i]) ELSE v
  OBVIOUS
<1> HIDE DEF st, N
<1>5. PICK e : Steps(e, Lines, <<>>, N, st)
  <2>1. StepIn(Lines, N, st)
    BY <1>1, <1>2, <1>4 DEF StepIn
  <2> QED
    BY <1>1, <1>3, <2>1, Recursion
<1>6. /\ e = [i \in 0..N |-> e[i]] /\ \A n \in 0..N : e[n] \in Lines
      /\ e[0] = <<>> /\ \A n \in 1..N : e[n] = st[<<e[n - 1], n>>]
  BY <1>5 DEF Steps
<1>7. \A i \in 0..N : i = 0 \/ (i # 0 /\ i \in 1..N /\ i - 1 \in 0..N)
  BY <1>1
<1>8. Is(e)
  <2>2. ASSUME NEW i \in 0..N
        PROVE  e[i] = IF i = 0 THEN <<>>
                      ELSE IF f[i] \in S THEN Append(e[i - 1], f[i]) ELSE e[i - 1]
    <3>1. CASE i = 0
      BY <1>6, <3>1
    <3>2. CASE i # 0 /\ i \in 1..N /\ i - 1 \in 0..N
      <4>1. e[i] = st[<<e[i - 1], i>>] /\ e[i - 1] \in Lines
        BY <1>6, <3>2
      <4>2. e[i] = IF f[i] \in S THEN Append(e[i - 1], f[i]) ELSE e[i - 1]
        BY <1>4, <3>2, <4>1
      <4> QED
        BY <3>2, <4>2
    <3> QED
      BY <1>7, <3>1, <3>2
  <2> QED
    BY <1>6, <2>2, Zenon
<1>9. Is(c)
  BY <1>8, Zenon
<1>10. Select(f, S) = c[N]
  BY DEF Select, N
<1> HIDE DEF c
<1>11. \A i \in 0..N : c[i] = IF i = 0 THEN <<>>
                              ELSE IF f[i] \in S THEN Append(c[i - 1], f[i]) ELSE c[i - 1]
  BY <1>9
<1>12. \A i \in 1..N : i \in 0..N /\ i # 0 /\ 0 \in 0..N
  BY <1>1
<1>13. /\ c[0] = <<>>
       /\ \A i \in 1..N : /\ f[i] \in S => c[i] = Append(c[i - 1], f[i])
                          /\ f[i] \notin S => c[i] = c[i - 1]
  <2>1. 0 \in 0..N
    BY <1>1
  <2> QED
    BY <1>11, <1>12, <2>1
<1> DEFINE T == {i \in Nat : c[i] \in Lines}
<1>14. 0 \in T
  BY <1>3, <1>13
<1>15. ASSUME NEW i \in 0..N, i \in T, i < N PROVE i + 1 \in T
  <2>1. i + 1 \in 1..N /\ (i + 1) - 1 = i /\ i + 1 \in Nat
    BY <1>1, <1>15
  <2>2. c[i + 1] = Append(c[i], f[i + 1]) \/ c[i + 1] = c[i]
    BY <1>13, <2>1
  <2>3. c[i] \in Lines /\ f[i + 1] \in Kind
    BY <1>1, <1>15, <2>1
  <2>4. c[i + 1] \in Lines
    BY <1>2, <2>2, <2>3
  <2> QED
    BY <2>1, <2>4
<1>16. \A i \in 0..N : i \in T
  <2> HIDE DEF T
  <2> QED
    BY <1>1, <1>14, <1>15, UpToInduction
<1> QED
  BY <1>10, <1>13, <1>16 DEF N

LEMMA SelectType ==
    ASSUME NEW f \in Lines, NEW S
    PROVE  Select(f, S) \in Lines
<1>1. Len(f) \in 0..Len(f)
  BY LineFacts
<1> QED
  BY <1>1, SelectDef

LEMMA SelectEmpty ==
    ASSUME NEW S PROVE Select(<<>>, S) = <<>>
<1>1. <<>> \in Lines /\ Len(<<>>) = 0
  BY EmptySeq DEF Lines
<1> QED
  BY <1>1, SelectDef

LEMMA SelectAppend ==
    ASSUME NEW f \in Lines, NEW k \in Kind, NEW S
    PROVE  /\ k \in S => Select(Append(f, k), S) = Append(Select(f, S), k)
           /\ k \notin S => Select(Append(f, k), S) = Select(f, S)
<1> DEFINE g == Append(f, k)
           N == Len(f)
<1>1. /\ g \in Lines /\ Len(g) = N + 1 /\ N \in Nat /\ g[N + 1] = k
      /\ \A i \in 1..N : g[i] = f[i]
  BY EndAppended, LineFacts
<1> HIDE DEF g, N
<1>2. PICK c : /\ Select(f, S) = c[N] /\ c[0] = <<>>
               /\ \A i \in 1..N : /\ f[i] \in S => c[i] = Append(c[i - 1], f[i])
                                  /\ f[i] \notin S => c[i] = c[i - 1]
  BY SelectDef DEF N
<1>3. PICK d : /\ Select(g, S) = d[N + 1] /\ d[0] = <<>>
               /\ \A i \in 1..N + 1 : /\ g[i] \in S => d[i] = Append(d[i - 1], g[i])
                                      /\ g[i] \notin S => d[i] = d[i - 1]
  <2>1. g \in Lines
    BY <1>1
  <2>2. PICK d : /\ Select(g, S) = d[Len(g)] /\ d[0] = <<>>
                 /\ \A i \in 1..Len(g) :
                      /\ g[i] \in S => d[i] = Append(d[i - 1], g[i])
                      /\ g[i] \notin S => d[i] = d[i - 1]
                 /\ \A i \in 0..Len(g) : d[i] \in Lines
    BY <2>1, SelectDef
  <2>3. /\ Select(g, S) = d[N + 1] /\ d[0] = <<>>
        /\ \A i \in 1..N + 1 : /\ g[i] \in S => d[i] = Append(d[i - 1], g[i])
                               /\ g[i] \notin S => d[i] = d[i - 1]
    BY <1>1, <2>2
  <2> QED
    BY <2>3
<1> DEFINE T == {i \in Nat : c[i] = d[i]}
<1>4. 0 \in T
  BY <1>2, <1>3
<1>5. ASSUME NEW i \in 0..N, i \in T, i < N PROVE i + 1 \in T
  <2>1. i + 1 \in 1..N /\ i + 1 \in 1..N + 1 /\ (i + 1) - 1 = i /\ i + 1 \in Nat
    BY <1>1, <1>5
  <2>2. g[i + 1] = f[i + 1] /\ c[i] = d[i]
    BY <1>1, <1>5, <2>1
  <2>3. c[i + 1] = d[i + 1]
    <3>1. CASE f[i + 1] \in S
      BY <1>2, <1>3, <2>1, <2>2, <3>1
    <3>2. CASE f[i + 1] \notin S
      BY <1>2, <1>3, <2>1, <2>2, <3>2
    <3> QED
      BY <3>1, <3>2
  <2> QED
    BY <2>1, <2>3
<1>6. c[N] = d[N]
  <2>1. \A i \in 0..N : i \in T
    <3> HIDE DEF T
    <3> QED
      BY <1>1, <1>4, <1>5, UpToInduction
  <2>2. N \in 0..N
    BY <1>1
  <2> QED
    BY <2>1, <2>2
<1>7. N + 1 \in 1..N + 1 /\ (N + 1) - 1 = N
  BY <1>1
<1> QED
  BY <1>1, <1>2, <1>3, <1>6, <1>7 DEF g

LEMMA PrefixFacts ==
    ASSUME NEW f \in Lines, NEW m \in 0..Len(f)
    PROVE  /\ SubSeq(f, 1, m) \in Lines /\ Len(SubSeq(f, 1, m)) = m
           /\ \A i \in 1..m : SubSeq(f, 1, m)[i] = f[i]
<1>1. m \in Nat /\ Len(f) \in Nat /\ m <= Len(f) /\ \A i \in 1..Len(f) : f[i] \in Kind
  BY LineFacts
<1> DEFINE w == SubSeq(f, 1, m)
<1>2. \A i \in 1..m : f[i] \in Kind
  BY <1>1
<1>3. /\ w \in Seq(Kind) /\ Len(w) = (IF 1 <= m THEN m - 1 + 1 ELSE 0)
      /\ \A i \in 1..m - 1 + 1 : w[i] = f[1 + i - 1]
  BY <1>1, <1>2, SubSeqProperties
<1>4. m - 1 + 1 = m /\ \A i \in 1..m : 1 + i - 1 = i
  BY <1>1
<1>5. Len(w) = m
  BY <1>1, <1>3
<1>6. \A i \in 1..m : w[i] = f[i]
  BY <1>3, <1>4
<1> QED
  BY <1>3, <1>5, <1>6 DEF Lines

LEMMA PrefixNext ==
    ASSUME NEW f \in Lines, NEW m \in 0..Len(f), m < Len(f)
    PROVE  SubSeq(f, 1, m + 1) = Append(SubSeq(f, 1, m), f[m + 1])
<1> DEFINE n == m + 1
           u == SubSeq(f, 1, m)
           w == SubSeq(f, 1, n)
           v == Append(u, f[n])
<1>1. n \in 0..Len(f) /\ n \in 1..Len(f) /\ m \in Nat /\ \A i \in 1..n : i \in 1..m \/ i = n
  BY LineFacts
<1>2. u \in Lines /\ Len(u) = m /\ \A i \in 1..m : u[i] = f[i]
  BY PrefixFacts
<1>3. f[n] \in Kind
  BY <1>1, LineFacts
<1> HIDE DEF n
<1>4. w \in Lines /\ Len(w) = n /\ \A i \in 1..n : w[i] = f[i]
  BY <1>1, PrefixFacts
<1> HIDE DEF u, w
<1>5. v \in Lines /\ Len(v) = n /\ (\A i \in 1..m : v[i] = u[i]) /\ v[n] = f[n]
  BY <1>2, <1>3, AppendProperties DEF Lines, n
<1> HIDE DEF v
<1>6. \A i \in 1..n : w[i] = v[i]
  BY <1>1, <1>2, <1>4, <1>5
<1>7. w = v
  BY <1>4, <1>5, <1>6, SeqEqual DEF Lines
<1> QED
  BY <1>7 DEF w, v, u, n

LEMMA PrefixOfAppended ==
    ASSUME NEW f \in Lines, NEW k \in Kind, NEW m \in 0..Len(f)
    PROVE  SubSeq(Append(f, k), 1, m) = SubSeq(f, 1, m)
<1> DEFINE g == Append(f, k)
<1>1. g \in Lines /\ Len(g) = Len(f) + 1 /\ \A i \in 1..Len(f) : g[i] = f[i]
  BY EndAppended
<1>2. m \in 0..Len(g) /\ \A i \in 1..m : i \in 1..Len(f)
  BY <1>1, LineFacts
<1> HIDE DEF g
<1>3. /\ SubSeq(g, 1, m) \in Lines /\ Len(SubSeq(g, 1, m)) = m
      /\ \A i \in 1..m : SubSeq(g, 1, m)[i] = g[i]
  BY <1>1, <1>2, PrefixFacts
<1>4. /\ SubSeq(f, 1, m) \in Lines /\ Len(SubSeq(f, 1, m)) = m
      /\ \A i \in 1..m : SubSeq(f, 1, m)[i] = f[i]
  BY PrefixFacts
<1>5. \A i \in 1..m : SubSeq(g, 1, m)[i] = SubSeq(f, 1, m)[i]
  BY <1>1, <1>2, <1>3, <1>4
<1>6. SubSeq(g, 1, m) = SubSeq(f, 1, m)
  BY <1>3, <1>4, <1>5, SeqEqual DEF Lines
<1> QED
  BY <1>6 DEF g

-----------------------------------------------------------------------------
(* The lines that end before an offset.                                    *)

LEMMA IntervalSize ==
    ASSUME NEW m \in Nat
    PROVE  IsFiniteSet(1..m) /\ Cardinality(1..m) = m
<1>1. IsFiniteSet(1..m) /\ Cardinality(1..m) = IF 1 > m THEN 0 ELSE m - 1 + 1
  BY FS_Interval
<1> QED
  BY <1>1

(* There is a number of whole lines before every offset of the file. *)
LEMMA LinesBefore ==
    ASSUME NEW f \in Lines, NEW p \in Nat
    PROVE  \E m \in 0..Len(f) : /\ Before(f, p) = SubSeq(f, 1, m)
                                /\ \A i \in 0..m : End(f)[i] <= p
                                /\ \A i \in m + 1..Len(f) : p < End(f)[i]
<1> DEFINE e == End(f)
           T == {i \in Nat : i \in 0..Len(f) /\ e[i] <= p}
<1>1. /\ Len(f) \in Nat /\ e[0] = 0 /\ DOMAIN f = 1..Len(f)
      /\ \A i \in 0..Len(f) : e[i] \in Nat
  BY EndDef, LineFacts
<1>2. \A i, j \in 0..Len(f) : i <= j <=> e[i] <= e[j]
  BY EndOrder
<1> HIDE DEF e
<1> DEFINE m == MaxOf(T)
<1>3. T \in SUBSET Nat /\ 0 \in T /\ \A y \in T : y <= Len(f)
  BY <1>1
<1>4. m \in T /\ \A y \in T : y <= m
  <2> HIDE DEF T
  <2> QED
    BY <1>1, <1>3, MaxFacts
<1> HIDE DEF m
<1>5. m \in 0..Len(f) /\ m \in Nat /\ e[m] <= p
  BY <1>4
<1>6. ASSUME NEW i \in 0..m PROVE e[i] <= p
  <2>1. i \in 0..Len(f) /\ i <= m
    BY <1>1, <1>5
  <2>2. e[i] <= e[m]
    BY <1>2, <1>5, <2>1
  <2> QED
    BY <1>1, <1>5, <2>1, <2>2
<1>7. ASSUME NEW i \in m + 1..Len(f) PROVE p < e[i]
  <2>1. i \in 0..Len(f) /\ i \in Nat /\ m < i
    BY <1>1, <1>5
  <2>2. i \notin T
    BY <1>4, <1>5, <2>1
  <2> QED
    BY <1>1, <2>1, <2>2
<1>8. {i \in DOMAIN f : e[i] <= p} = 1..m
  <2>1. ASSUME NEW i \in 1..Len(f), e[i] <= p PROVE i \in 1..m
    <3>1. i \in T
      BY <2>1
    <3> QED
      BY <1>4, <1>5, <3>1
  <2>2. ASSUME NEW i \in 1..m PROVE i \in 1..Len(f) /\ e[i] <= p
    <3>1. i \in 0..m /\ i \in 1..Len(f)
      BY <1>1, <1>5
    <3> QED
      BY <1>6, <3>1
  <2> QED
    BY <1>1, <2>1, <2>2
<1>9. Cardinality({i \in DOMAIN f : e[i] <= p}) = m
  BY <1>5, <1>8, IntervalSize
<1>10. Before(f, p) = SubSeq(f, 1, m)
  BY <1>9 DEF Before, e
<1> QED
  BY <1>5, <1>6, <1>7, <1>10 DEF e

(* The lines before an offset that is not past line m. *)
LEMMA BeforeIs ==
    ASSUME NEW f \in Lines, NEW p \in Nat, NEW m \in 0..Len(f), End(f)[m] <= p,
           m < Len(f) => p < End(f)[m + 1]
    PROVE  Before(f, p) = SubSeq(f, 1, m)
<1>1. PICK n \in 0..Len(f) : /\ Before(f, p) = SubSeq(f, 1, n)
                             /\ \A i \in 0..n : End(f)[i] <= p
                             /\ \A i \in n + 1..Len(f) : p < End(f)[i]
  BY LinesBefore
<1>2. /\ Len(f) \in Nat /\ \A i \in 0..Len(f) : End(f)[i] \in Nat
  BY EndDef, LineFacts
<1>3. ~(n < m)
  <2>1. SUFFICES ASSUME n < m PROVE FALSE
    OBVIOUS
  <2>2. m \in n + 1..Len(f)
    BY <1>2, <2>1
  <2> QED
    BY <1>1, <1>2, <2>2
<1>4. ~(m < n)
  <2>1. SUFFICES ASSUME m < n PROVE FALSE
    OBVIOUS
  <2>2. m < Len(f) /\ m + 1 \in 0..n /\ m + 1 \in 0..Len(f)
    BY <1>2, <2>1
  <2>3. p < End(f)[m + 1] /\ End(f)[m + 1] <= p /\ End(f)[m + 1] \in Nat
    BY <1>1, <1>2, <2>2
  <2> QED
    BY <2>3
<1>5. n = m
  BY <1>2, <1>3, <1>4
<1> QED
  BY <1>1, <1>5

LEMMA BeforeAppended ==
    ASSUME NEW f \in Lines, NEW k \in Kind, NEW p \in Nat, p <= Size(f)
    PROVE  Before(Append(f, k), p) = Before(f, p)
<1> DEFINE g == Append(f, k)
           N == Len(f)
<1>1. /\ g \in Lines /\ Len(g) = N + 1 /\ N \in Nat /\ g[N + 1] \in Kind
      /\ \A i \in 0..N : End(g)[i] = End(f)[i]
  BY EndAppended, LineFacts
<1>2. /\ \A i \in 0..N + 1 : End(g)[i] \in Nat
      /\ End(f)[N] < End(g)[N + 1] /\ p <= End(f)[N]
  <2>1. N \in 0..Len(g) /\ N + 1 \in 0..Len(g) /\ N < N + 1 /\ N \in 0..N
    BY <1>1
  <2>2. End(g)[N] < End(g)[N + 1]
    <3> HIDE DEF g, N
    <3> QED
      BY <1>1, <2>1, EndGrows
  <2>3. \A i \in 0..Len(g) : End(g)[i] \in Nat
    <3> HIDE DEF g, N
    <3> QED
      BY <1>1, EndDef
  <2> HIDE DEF g
  <2> QED
    BY <1>1, <2>1, <2>2, <2>3 DEF Size
<1>3. PICK m \in 0..N : /\ Before(f, p) = SubSeq(f, 1, m)
                        /\ \A i \in 0..m : End(f)[i] <= p
                        /\ \A i \in m + 1..N : p < End(f)[i]
  BY LinesBefore
<1>4. m \in 0..Len(g) /\ m \in 0..m /\ End(g)[m] <= p /\ m \in Nat /\ m < Len(g)
  BY <1>1, <1>3
<1>5. p < End(g)[m + 1]
  <2>1. CASE m < N
    <3>1. m + 1 \in m + 1..N /\ m + 1 \in 0..N
      BY <1>1, <2>1
    <3> HIDE DEF g, N
    <3> QED
      BY <1>1, <1>3, <3>1
  <2>2. CASE m = N
    <3>1. End(f)[N] \in Nat
      BY <1>1, EndDef
    <3>2. N + 1 \in 0..N + 1
      BY <1>1
    <3>3. End(g)[N + 1] \in Nat
      BY <1>2, <3>2
    <3> HIDE DEF g, N
    <3> QED
      BY <1>2, <2>2, <3>1, <3>3
  <2> QED
    BY <1>1, <1>3, <2>1, <2>2
<1>6. Before(g, p) = SubSeq(g, 1, m)
  <2> HIDE DEF g
  <2> QED
    BY <1>1, <1>4, <1>5, BeforeIs
<1>7. SubSeq(g, 1, m) = SubSeq(f, 1, m)
  BY <1>3, PrefixOfAppended
<1> QED
  BY <1>3, <1>6, <1>7

(* Lines none of which is selected leave nothing. *)
LEMMA SelectNone ==
    ASSUME NEW f \in Lines, NEW S, NEW m \in 0..Len(f), \A i \in 1..m : f[i] \notin S
    PROVE  Select(SubSeq(f, 1, m), S) = <<>>
<1> DEFINE T == {i \in Nat : Select(SubSeq(f, 1, i), S) = <<>>}
<1>1. /\ Len(f) \in Nat /\ m \in Nat /\ 0 \in 0..Len(f) /\ m <= Len(f)
      /\ \A i \in 1..Len(f) : f[i] \in Kind
  BY LineFacts
<1>2. 0 \in T
  <2>1. SubSeq(f, 1, 0) \in Lines /\ Len(SubSeq(f, 1, 0)) = 0
    BY <1>1, PrefixFacts
  <2>2. SubSeq(f, 1, 0) = <<>>
    BY <2>1, EmptySeq DEF Lines
  <2> QED
    BY <2>2, SelectEmpty
<1>3. ASSUME NEW i \in 0..m, i \in T, i < m PROVE i + 1 \in T
  <2>1. i \in 0..Len(f) /\ i < Len(f) /\ i + 1 \in 1..m /\ i + 1 \in 1..Len(f) /\ i + 1 \in Nat
    BY <1>1, <1>3
  <2>2. SubSeq(f, 1, i) \in Lines /\ f[i + 1] \in Kind /\ f[i + 1] \notin S
    BY <1>1, <2>1, PrefixFacts
  <2>3. SubSeq(f, 1, i + 1) = Append(SubSeq(f, 1, i), f[i + 1])
    BY <2>1, PrefixNext
  <2> DEFINE u == SubSeq(f, 1, i)
             x == f[i + 1]
  <2>4. Select(Append(u, x), S) = Select(u, S)
    <3>1. u \in Lines /\ x \in Kind /\ x \notin S
      BY <2>2
    <3> HIDE DEF u, x
    <3> QED
      BY <3>1, SelectAppend
  <2> QED
    BY <1>3, <2>1, <2>3, <2>4
<1>4. m \in T
  <2> HIDE DEF T
  <2>1. \A i \in 0..m : i \in T
    BY <1>1, <1>2, <1>3, UpToInduction
  <2> QED
    BY <1>1, <2>1
<1> QED
  BY <1>4

(* Reading the line an offset is inside of. *)
LEMMA SelectNext ==
    ASSUME NEW f \in Lines, NEW p \in Nat, p < Size(f), NEW S
    PROVE  LET m == LineAt(f, p)
               w == Select(Before(f, p), S)
           IN  /\ m \in 1..Len(f)
               /\ f[m] \in S => Select(Before(f, End(f)[m]), S) = Append(w, f[m])
               /\ f[m] \notin S => Select(Before(f, End(f)[m]), S) = w
<1> DEFINE m == LineAt(f, p)
           n == m - 1
           e == End(f)
<1>1. m \in 1..Len(f) /\ e[m - 1] <= p /\ p < e[m]
  BY LineAtFacts
<1> HIDE DEF m
<1>2. /\ Len(f) \in Nat /\ (\A i \in 0..Len(f) : e[i] \in Nat)
      /\ \A i \in 1..Len(f) : f[i] \in Kind
  BY EndDef, LineFacts
<1>3. m \in 0..Len(f) /\ n \in 0..Len(f) /\ n + 1 = m /\ n < Len(f) /\ e[m] \in Nat
  BY <1>1, <1>2
<1>4. e[n] <= p /\ p < e[n + 1]
  BY <1>1, <1>3
<1> HIDE DEF n
<1>5. Before(f, p) = SubSeq(f, 1, n)
  BY <1>3, <1>4, BeforeIs DEF e
<1>6. Before(f, e[m]) = SubSeq(f, 1, m)
  <2>1. m < Len(f) => e[m] < e[m + 1]
    <3>1. CASE m < Len(f)
      <4>1. m + 1 \in 0..Len(f) /\ m < m + 1
        BY <1>1, <1>2, <3>1
      <4> QED
        BY <1>3, <4>1, EndGrows DEF e
    <3> QED
      BY <3>1
  <2>2. e[m] <= e[m]
    BY <1>3
  <2> QED
    BY <1>3, <2>1, <2>2, BeforeIs DEF e
<1>7. SubSeq(f, 1, m) = Append(SubSeq(f, 1, n), f[m])
  BY <1>3, PrefixNext
<1> DEFINE u == SubSeq(f, 1, n)
<1>8. u \in Lines /\ f[m] \in Kind
  BY <1>1, <1>2, <1>3, PrefixFacts
<1>9. /\ f[m] \in S => Select(Append(u, f[m]), S) = Append(Select(u, S), f[m])
      /\ f[m] \notin S => Select(Append(u, f[m]), S) = Select(u, S)
  <2> HIDE DEF u
  <2> DEFINE k == f[m]
  <2> HIDE DEF k
  <2>1. k \in Kind
    BY <1>8 DEF k
  <2>2. /\ k \in S => Select(Append(u, k), S) = Append(Select(u, S), k)
        /\ k \notin S => Select(Append(u, k), S) = Select(u, S)
    BY <1>8, <2>1, SelectAppend
  <2> QED
    BY <2>2 DEF k
<1>10. Before(f, p) = u /\ Before(f, e[m]) = Append(u, f[m])
  BY <1>5, <1>6, <1>7
<1> HIDE DEF u, e
<1>11. /\ f[m] \in S => Select(Before(f, e[m]), S) = Append(Select(Before(f, p), S), f[m])
       /\ f[m] \notin S => Select(Before(f, e[m]), S) = Select(Before(f, p), S)
  BY <1>9, <1>10
<1> QED
  BY <1>1, <1>11 DEF m, e

-----------------------------------------------------------------------------
(* The bounds of a query.                                                  *)

LEMMA FilterBounds ==
    ASSUME NEW F, IsFiniteSet(F), F \subseteq Filter
    PROVE  /\ {f.at : f \in F} \in SUBSET Nat
           /\ F # {} => {f.at : f \in F} # {}
           /\ \E b \in Nat : \A y \in {f.at : f \in F} : y <= b
<1> DEFINE S == {f.at : f \in F}
<1>1. S \in SUBSET Nat
  BY DEF Filter
<1>2. IsFiniteSet(S)
  <2> DEFINE g == [f \in F |-> f.at]
  <2>1. g \in Surjection(F, S)
    BY DEF Surjection
  <2> HIDE DEF g, S
  <2> QED
    BY <2>1, FS_Surjection
<1> HIDE DEF S
<1>3. \E b \in Nat : \A y \in S : y <= b
  BY <1>1, <1>2, FiniteBounded
<1>4. F # {} => S # {}
  BY DEF S
<1> QED
  BY <1>1, <1>3, <1>4 DEF S

LEMMA MatchesFacts ==
    ASSUME NEW f \in Filter, NEW x \in Nat
    PROVE  /\ f.op \in {"Gt", "Ge"} /\ Matches(f, x) => f.at <= x
           /\ f.op \in {"Lt", "Le"} /\ Matches(f, x) => x <= f.at
<1>1. f.at \in Nat
  BY DEF Filter
<1>2. CASE f.op = "Gt"
  <2>1. Matches(f, x) => x > f.at
    BY <1>2, Zenon DEF Matches
  <2> QED
    BY <1>1, <1>2, <2>1
<1>3. CASE f.op = "Ge"
  <2>1. Matches(f, x) => x >= f.at
    BY <1>3 DEF Matches
  <2> QED
    BY <1>1, <1>3, <2>1
<1>4. CASE f.op = "Lt"
  <2>1. Matches(f, x) => x < f.at
    BY <1>4 DEF Matches
  <2> QED
    BY <1>1, <1>4, <2>1
<1>5. CASE f.op = "Le"
  <2>1. Matches(f, x) => x <= f.at
    BY <1>5 DEF Matches
  <2> QED
    BY <1>1, <1>5, <2>1
<1> QED
  BY <1>2, <1>3, <1>4, <1>5

LEMMA FiltersFacts ==
    ASSUME filters \in Queries
    PROVE  /\ filters \subseteq Filter
           /\ Lower \subseteq filters /\ IsFiniteSet(Lower)
           /\ Upper \subseteq filters /\ IsFiniteSet(Upper)
<1>1. filters \subseteq Filter /\ IsFiniteSet(filters)
  BY LogFilesAssumption
<1>2. Lower \subseteq filters /\ Upper \subseteq filters
  BY DEF Lower, Upper
<1> QED
  BY <1>1, <1>2, FS_Subset

LEMMA SinceFacts ==
    ASSUME filters \in Queries, Lower # {}
    PROVE  Since \in Nat /\ \A k \in Pass : Since <= k.time
<1> DEFINE S == {f.at : f \in Lower}
<1>1. Lower \subseteq Filter /\ IsFiniteSet(Lower)
  BY FiltersFacts
<1>2. S \in SUBSET Nat /\ S # {} /\ \E b \in Nat : \A y \in S : y <= b
  BY <1>1, FilterBounds
<1> HIDE DEF S
<1>3. MaxOf(S) \in S
  BY <1>2, MaxFacts
<1>4. Since \in S
  BY <1>3 DEF Since, S
<1>5. PICK g \in Lower : Since = g.at
  BY <1>4 DEF S
<1>6. ASSUME NEW k \in Pass PROVE g.at <= k.time
  <2>1. k \in Kind /\ Matches(g, k.time)
    BY <1>6, FiltersFacts DEF Pass, Passes
  <2>2. k.time \in Nat /\ g \in Filter /\ g.op \in {"Gt", "Ge"}
    BY <1>1, <2>1, LogFilesAssumption DEF Lower
  <2> QED
    BY <2>1, <2>2, MatchesFacts
<1> QED
  BY <1>2, <1>4, <1>5, <1>6

(* Nothing that passes stops the reading.                                  *)
LEMMA NeverStops ==
    ASSUME filters \in Queries, NEW k \in Kind
    PROVE  ~Stops(k)
<1>1. SUFFICES ASSUME Passes(k), Upper # {}, k.time > Until PROVE FALSE
  BY DEF Stops
<1> DEFINE S == {f.at : f \in Upper}
<1>2. Upper \subseteq Filter /\ IsFiniteSet(Upper)
  BY FiltersFacts
<1>3. S \in SUBSET Nat /\ S # {}
  BY <1>1, <1>2, FilterBounds
<1> HIDE DEF S
<1>4. MinOf(S) \in S
  BY <1>3, MinFacts
<1>5. Until \in S
  BY <1>4 DEF Until, S
<1>6. PICK g \in Upper : Until = g.at
  BY <1>5 DEF S
<1>7. k.time \in Nat /\ g \in Filter /\ g.op \in {"Lt", "Le"} /\ Matches(g, k.time)
  BY <1>1, <1>2, FiltersFacts, LogFilesAssumption DEF Upper, Passes
<1>8. k.time <= g.at /\ g.at \in Nat
  BY <1>7, MatchesFacts DEF Filter
<1> QED
  BY <1>1, <1>6, <1>7, <1>8

-----------------------------------------------------------------------------
(* The search.                                                             *)

LEMMA MidFacts ==
    ASSUME low \in Nat, high \in Nat, low < high
    PROVE  Mid \in Nat /\ low <= Mid /\ Mid < high
<1> DEFINE d == high - low
           h == d \div 2
<1>1. d \in Nat /\ d > 0
  OBVIOUS
<1> HIDE DEF d
<1>2. h \in Nat /\ h < d
  BY <1>1
<1> HIDE DEF h
<1>3. Mid = low + h
  BY DEF Mid, h, d
<1>4. low + h < low + d /\ low + d = high
  BY <1>1, <1>2 DEF d
<1> QED
  BY <1>2, <1>3, <1>4

(* In a regular file the scan back finds the line the probe is inside of.  *)
LEMMA ProbeAt ==
    ASSUME NEW f \in Lines, Regular(f), NEW mid \in Nat, mid < Size(f)
    PROVE  LineStart(f, mid) = {End(f)[LineAt(f, mid) - 1]}
<1> DEFINE e == End(f)
           i == LineAt(f, mid)
           s == e[i - 1]
           from == BackFrom(mid)
           ends == AfterNewline(f, from, mid)
<1>1. i \in 1..Len(f) /\ s <= mid /\ mid < e[i]
  BY LineAtFacts
<1>2. /\ Len(f) \in Nat /\ (\A j \in 0..Len(f) : e[j] \in Nat) /\ e[0] = 0
      /\ \A j \in 1..Len(f) : e[j] = e[j - 1] + f[j].size /\ f[j].size \in Nat
  BY EndDef, LineFacts
<1>3. /\ from \in Nat /\ from <= mid
      /\ (from = 0 \/ (from = mid - ScanBack /\ mid > ScanBack)) /\ ScanBack \in Nat
  BY BackFromFacts, LogFilesAssumption
<1>4. \A j, l \in 0..Len(f) : (j < l <=> e[j] < e[l]) /\ (j <= l <=> e[j] <= e[l])
  BY EndOrder
<1>5. ends \in SUBSET Nat
  BY <1>3, AfterNewlineFacts
<1>6. \A y \in ends : y <= mid /\ \E j \in 1..Len(f) : y = e[j] /\ from < y
  BY <1>3, AfterNewlineFacts
<1>7. \A j \in 1..Len(f) : from < e[j] /\ e[j] <= mid => e[j] \in ends
  BY <1>3, AfterNewlineFacts
<1>8. Shifts(f, from) = {0}
  <2>1. Size(f) \in Nat
    BY <1>2 DEF Size
  <2>2. from < Size(f)
    BY <1>3, <2>1
  <2> DEFINE l == LineAt(f, from)
  <2>3. l \in 1..Len(f)
    BY <1>3, <2>2, LineAtFacts
  <2> HIDE DEF l
  <2>4. ~f[l].wide
    BY <2>3, LineFacts DEF Regular
  <2> QED
    BY <2>4 DEF Shifts, l
<1>9. i \in 0..Len(f) /\ i - 1 \in 0..Len(f) /\ e[i] \in Nat /\ s \in Nat /\ e[i] = s + f[i].size
  BY <1>1, <1>2
<1>10. f[i].size <= ScanBack /\ f[i].size \in Nat
  BY <1>1, <1>2, LineFacts DEF Regular
<1>11. LineStart(f, mid) = IF ends = {} THEN {from}
                           ELSE {MaxOf(ends) + d : d \in {0}}
  BY <1>8 DEF LineStart
<1> HIDE DEF e, i, from, ends
<1>12. ASSUME NEW y \in ends PROVE y <= s
  <2>1. PICK j \in 1..Len(f) : y = e[j] /\ y <= mid
    BY <1>6
  <2>2. j \in 0..Len(f) /\ j \in Nat /\ i \in Nat /\ e[j] < e[i]
    BY <1>1, <1>2, <1>5, <1>9, <2>1
  <2>3. j < i
    BY <1>4, <1>9, <2>2
  <2>4. j <= i - 1
    BY <2>2, <2>3
  <2>5. e[j] <= s
    BY <1>4, <1>9, <2>2, <2>4
  <2> QED
    BY <2>1, <2>5
<1>13. CASE from < s
  <2>1. i - 1 # 0 /\ i - 1 \in 1..Len(f)
    BY <1>1, <1>2, <1>3, <1>13
  <2>2. s \in ends
    BY <1>1, <1>7, <1>13, <2>1
  <2> DEFINE x == MaxOf(ends)
  <2>3. x \in ends /\ \A y \in ends : y <= x
    <3> HIDE DEF s
    <3> QED
      BY <1>5, <1>9, <1>12, <2>2, MaxFacts
  <2> HIDE DEF x
  <2>4. x <= s /\ s <= x /\ x \in Nat
    BY <1>5, <1>12, <2>2, <2>3
  <2>5. x = s /\ x + 0 = s
    BY <1>9, <2>4
  <2>6. LineStart(f, mid) = {x + d : d \in {0}}
    BY <1>11, <2>2 DEF x
  <2>7. {x + d : d \in {0}} = {x + 0}
    OBVIOUS
  <2> QED
    BY <2>5, <2>6, <2>7 DEF e, i
<1>14. CASE s <= from
  <2>1. from = 0 /\ s = 0
    BY <1>1, <1>3, <1>9, <1>10, <1>14
  <2>2. \A y \in ends : y \in Nat /\ 0 < y
    BY <1>5, <1>6, <2>1
  <2>3. ends = {}
    BY <1>12, <2>1, <2>2
  <2>4. LineStart(f, mid) = {from}
    BY <1>11, <2>3
  <2> QED
    BY <2>1, <2>4 DEF e, i
<1>15. from < s \/ s <= from
  BY <1>3, <1>9
<1> QED
  BY <1>13, <1>14, <1>15

LEMMA NarrowKeeps ==
    ASSUME NEW f \in Lines, Regular(f), filters \in Queries, Lower # {},
           low \in Nat, high \in Nat, low < high, high <= Size(f), Searched = f,
           NoneBefore(f, low, Pass), NEW at \in LineStart(f, Mid), Narrow(Mid, at)
    PROVE  low' <= high' /\ high' <= Size(f) /\ NoneBefore(f, low', Pass)
<1> DEFINE e == End(f)
           mid == Mid
           i == LineAt(f, mid)
<1>1. mid \in Nat /\ low <= mid /\ mid < high
  BY MidFacts
<1>2. /\ Len(f) \in Nat /\ (\A j \in 0..Len(f) : e[j] \in Nat)
      /\ \A j \in 1..Len(f) : f[j].time \in Nat /\ f[j] \in Kind
  BY EndDef, LineFacts
<1>3. Size(f) \in Nat /\ mid < Size(f)
  <2>1. Size(f) \in Nat
    BY <1>2 DEF Size
  <2> HIDE DEF mid
  <2> QED
    BY <1>1, <2>1
<1>4. at = e[i - 1] /\ i \in 1..Len(f) /\ e[i - 1] <= mid /\ mid < e[i]
  <2>1. LineStart(f, mid) = {e[i - 1]}
    BY <1>1, <1>3, ProbeAt
  <2>2. i \in 1..Len(f) /\ e[i - 1] <= mid /\ mid < e[i]
    BY <1>1, <1>3, LineAtFacts
  <2> QED
    BY <2>1, <2>2
<1>5. at \in Nat /\ at <= mid /\ at < e[i] /\ at < Size(f)
  <2>1. i - 1 \in 0..Len(f) /\ i \in 0..Len(f)
    BY <1>2, <1>4
  <2>2. at \in Nat /\ at <= mid /\ e[i] \in Nat
    BY <1>2, <1>4, <2>1
  <2> HIDE DEF mid, i, e
  <2> QED
    BY <1>1, <1>3, <1>4, <2>2
<1>6. LineAt(f, at) = i
  <2>1. e[i - 1] <= at /\ at < e[i] /\ i \in 1..Len(f)
    BY <1>4, <1>5
  <2> HIDE DEF i
  <2> QED
    BY <1>5, <2>1, LineAtFacts DEF e
<1>7. Parses(f, at)
  <2>1. IsStart(f, at)
    BY <1>4, LineFacts DEF IsStart
  <2>2. IsEvent(f[i])
    BY <1>4, LineFacts DEF Regular
  <2> QED
    BY <1>6, <2>1, <2>2 DEF Parses
<1>8. IF f[i].time >= Since THEN high' = mid /\ low' = low
      ELSE low' = mid + 1 /\ high' = high
  <2>1. ~(at >= Size(f))
    BY <1>3, <1>5
  <2> QED
    BY <1>6, <1>7, <2>1 DEF Narrow
<1>11. \A x, y \in 0..Len(f) : e[x] < e[y] => x < y
  BY EndOrder
<1> HIDE DEF mid, i, e
<1>9. CASE f[i].time >= Since
  BY <1>1, <1>3, <1>8, <1>9
<1>10. CASE ~(f[i].time >= Since)
  <2>1. low' = mid + 1 /\ high' = high
    BY <1>8, <1>10
  <2>2. Since \in Nat /\ (\A k \in Pass : Since <= k.time) /\ f[i].time < Since
    BY <1>2, <1>4, <1>10, SinceFacts
  <2>3. ASSUME NEW j \in 1..Len(f), e[j - 1] < mid + 1 PROVE f[j] \notin Pass
    <3>1. j - 1 \in 0..Len(f) /\ i \in 0..Len(f) /\ j \in Nat /\ i \in Nat
      BY <1>2, <1>4
    <3>2. e[j - 1] < e[i]
      <4>1. e[j - 1] \in Nat /\ e[i] \in Nat
        BY <1>2, <3>1
      <4> QED
        BY <1>1, <1>4, <2>3, <4>1
    <3>3. j - 1 < i
      BY <1>11, <3>1, <3>2
    <3>4. j < i \/ j = i
      BY <3>1, <3>3
    <3>5. f[j].time <= f[i].time
      <4>1. CASE j = i
        BY <1>2, <4>1
      <4>2. CASE j < i
        BY <1>4, <4>2, LineFacts DEF Regular
      <4> QED
        BY <3>4, <4>1, <4>2
    <3>6. f[j].time < Since
      BY <1>2, <1>4, <2>2, <3>5
    <3>7. ~(Since <= f[j].time)
      BY <1>2, <2>2, <3>6
    <3> QED
      BY <2>2, <3>7
  <2>4. NoneBefore(f, low', Pass)
    BY <2>1, <2>3 DEF NoneBefore, e
  <2> QED
    BY <1>1, <1>3, <2>1, <2>4
<1> QED
  BY <1>9, <1>10

-----------------------------------------------------------------------------
(* The map of fsmon changes.                                               *)

Maps == UNION {[D -> Kind] : D \in SUBSET {k.path : k \in Kind}}
Put(m, e) ==
    IF e.path \in DOMAIN m /\ e.time <= m[e.path].time THEN m
    ELSE [p \in DOMAIN m \cup {e.path} |-> IF p = e.path THEN e ELSE m[p]]

LEMMA EmptyMap == <<>> \in Maps /\ DOMAIN <<>> = {}
<1>1. <<>> \in Seq(Kind) /\ Len(<<>>) = 0
  BY EmptySeq
<1>2. <<>> \in [1..0 -> Kind]
  BY <1>1, LenProperties
<1>3. 1..0 = {}
  OBVIOUS
<1>4. <<>> \in [{} -> Kind]
  BY <1>2, <1>3
<1> QED
  BY <1>4 DEF Maps

(* One event: its path is added, and no time in the map gets smaller. *)
LEMMA PutFacts ==
    ASSUME NEW m \in Maps, NEW e \in Kind
    PROVE  /\ Put(m, e) \in Maps
           /\ DOMAIN Put(m, e) = DOMAIN m \cup {e.path}
           /\ e.time <= Put(m, e)[e.path].time
           /\ \A p \in DOMAIN m : m[p].time <= Put(m, e)[p].time
           /\ \A p \in DOMAIN m : m[p].time \in Nat
<1>1. PICK D \in SUBSET {k.path : k \in Kind} : m \in [D -> Kind]
  BY DEF Maps
<1>2. e.time \in Nat /\ DOMAIN m = D /\ \A p \in D : m[p] \in Kind /\ m[p].time \in Nat
  BY <1>1, LogFilesAssumption
<1>3. CASE e.path \in DOMAIN m /\ e.time <= m[e.path].time
  <2>1. Put(m, e) = m
    BY <1>3 DEF Put
  <2>2. \A p \in D : m[p].time <= m[p].time
    BY <1>2
  <2>3. DOMAIN m \cup {e.path} = DOMAIN m
    BY <1>3
  <2> QED
    BY <1>2, <1>3, <2>1, <2>2, <2>3
<1>4. CASE ~(e.path \in DOMAIN m /\ e.time <= m[e.path].time)
  <2> DEFINE E == D \cup {e.path}
             w == [p \in E |-> IF p = e.path THEN e ELSE m[p]]
  <2>1. Put(m, e) = w
    BY <1>2, <1>4 DEF Put
  <2>2. \A p \in E : w[p] = IF p = e.path THEN e ELSE m[p]
    OBVIOUS
  <2>3. DOMAIN w = E /\ e.path \in E /\ D \subseteq E
    OBVIOUS
  <2>4. w \in [E -> Kind]
    BY <1>2
  <2>5. E \in SUBSET {k.path : k \in Kind}
    BY <1>1
  <2> HIDE DEF w, E
  <2>6. w \in Maps
    BY <2>4, <2>5 DEF Maps
  <2>7. w[e.path] = e /\ e.time <= e.time
    BY <1>2, <2>2, <2>3
  <2>8. ASSUME NEW p \in D PROVE m[p].time <= w[p].time
    <3>1. CASE p = e.path
      <4>1. ~(e.time <= m[p].time) /\ m[p].time \in Nat
        BY <1>2, <1>4, <3>1
      <4> QED
        BY <1>2, <2>7, <3>1, <4>1
    <3>2. CASE p # e.path
      BY <1>2, <2>2, <2>3, <3>2
    <3> QED
      BY <3>1, <3>2
  <2> QED
    BY <1>2, <2>1, <2>3, <2>6, <2>7, <2>8 DEF E
<1> QED
  BY <1>3, <1>4

LEMMA NewestDef ==
    ASSUME NEW s \in Lines
    PROVE  \E c : /\ Newest(s) = c[Len(s)] /\ c[0] = <<>>
                  /\ \A i \in 1..Len(s) : c[i] = Put(c[i - 1], s[i])
<1> DEFINE N == Len(s)
           st == [x \in Maps \X (1..N) |-> Put(x[1], s[x[2]])]
           Is(c) == c = [i \in 0..N |-> IF i = 0 THEN <<>> ELSE Put(c[i - 1], s[i])]
           c == CHOOSE c : Is(c)
<1>1. N \in Nat /\ \A i \in 1..N : s[i] \in Kind
  BY LineFacts
<1>2. \A m \in Maps : \A e \in Kind : Put(m, e) \in Maps
  BY PutFacts
<1>3. \A v \in Maps, i \in 1..N : st[<<v, i>>] = Put(v, s[i])
  OBVIOUS
<1> HIDE DEF st, N
<1>4. PICK e : Steps(e, Maps, <<>>, N, st)
  <2>1. StepIn(Maps, N, st)
    BY <1>1, <1>2, <1>3 DEF StepIn
  <2> QED
    BY <1>1, <2>1, EmptyMap, Recursion
<1>5. /\ e = [i \in 0..N |-> e[i]] /\ \A n \in 0..N : e[n] \in Maps
      /\ e[0] = <<>> /\ \A n \in 1..N : e[n] = st[<<e[n - 1], n>>]
  BY <1>4 DEF Steps
<1>6. \A i \in 0..N : i = 0 \/ (i # 0 /\ i \in 1..N /\ i - 1 \in 0..N)
  BY <1>1
<1>7. Is(e)
  <2>1. ASSUME NEW i \in 0..N PROVE e[i] = IF i = 0 THEN <<>> ELSE Put(e[i - 1], s[i])
    <3>1. CASE i = 0
      BY <1>5, <3>1
    <3>2. CASE i # 0 /\ i \in 1..N /\ i - 1 \in 0..N
      BY <1>3, <1>5, <3>2
    <3> QED
      BY <1>6, <3>1, <3>2
  <2> QED
    BY <1>5, <2>1
<1>8. Is(c)
  BY <1>7
<1>9. Newest(s) = c[N]
  BY DEF Newest, Put, N
<1> HIDE DEF c
<1>10. \A i \in 0..N : c[i] = IF i = 0 THEN <<>> ELSE Put(c[i - 1], s[i])
  BY <1>8
<1>11. 0 \in 0..N /\ \A i \in 1..N : i \in 0..N /\ i # 0
  BY <1>1
<1>12. c[0] = <<>> /\ \A i \in 1..N : c[i] = Put(c[i - 1], s[i])
  BY <1>10, <1>11
<1> QED
  BY <1>9, <1>12 DEF N

LEMMA NewestFacts ==
    ASSUME NEW s \in Lines
    PROVE  /\ DOMAIN Newest(s) = {e.path : e \in Range(s)}
           /\ \A e \in Range(s) : e.time <= Newest(s)[e.path].time
<1> DEFINE N == Len(s)
<1>1. N \in Nat /\ DOMAIN s = 1..N /\ \A i \in 1..N : s[i] \in Kind /\ s[i].time \in Nat
  BY LineFacts
<1>2. PICK c : /\ Newest(s) = c[N] /\ c[0] = <<>>
               /\ \A i \in 1..N : c[i] = Put(c[i - 1], s[i])
  BY NewestDef
<1> HIDE DEF N
<1> DEFINE Seen(i) == /\ c[i] \in Maps /\ DOMAIN c[i] = {s[j].path : j \in 1..i}
                      /\ \A j \in 1..i : s[j].time <= c[i][s[j].path].time
           T == {i \in Nat : Seen(i)}
<1>3. 0 \in T
  <2>1. 1..0 = {} /\ 0 \in Nat
    OBVIOUS
  <2>2. Seen(0)
    BY <1>2, <2>1, EmptyMap
  <2> HIDE DEF Seen
  <2> QED
    BY <2>1, <2>2
<1>4. ASSUME NEW i \in 0..N, i \in T, i < N PROVE i + 1 \in T
  <2> DEFINE n == i + 1
             m == c[i]
             e == s[n]
  <2>1. n \in 1..N /\ n - 1 = i /\ n \in Nat /\ 1..n = 1..i \cup {n} /\ \A j \in 1..i : j \in 1..N
    BY <1>1, <1>4
  <2>2. m \in Maps /\ DOMAIN m = {s[j].path : j \in 1..i}
    BY <1>4
  <2>3. \A j \in 1..i : s[j].time <= m[s[j].path].time /\ s[j].path \in DOMAIN m
    BY <1>4
  <2> HIDE DEF n
  <2>4. c[n] = Put(m, e) /\ e \in Kind
    BY <1>1, <1>2, <2>1
  <2> HIDE DEF m, e
  <2>5. /\ c[n] \in Maps /\ DOMAIN c[n] = DOMAIN m \cup {e.path}
        /\ e.time <= c[n][e.path].time
        /\ \A p \in DOMAIN m : m[p].time <= c[n][p].time
    BY <2>2, <2>4, PutFacts
  <2>6. \A p \in DOMAIN m : m[p].time \in Nat
    BY <2>2, <2>4, PutFacts
  <2>7. \A p \in DOMAIN c[n] : c[n][p].time \in Nat
    BY <2>4, <2>5, PutFacts
  <2>8. DOMAIN c[n] = {s[j].path : j \in 1..n}
    BY <2>1, <2>2, <2>5 DEF e
  <2>9. ASSUME NEW j \in 1..n PROVE s[j].time <= c[n][s[j].path].time
    <3>1. CASE j = n
      BY <2>5, <3>1 DEF e
    <3>2. CASE j \in 1..i
      <4> DEFINE p == s[j].path
      <4>1. p \in DOMAIN m /\ s[j].time <= m[p].time /\ s[j].time \in Nat
        BY <1>1, <2>1, <2>3, <3>2
      <4>2. m[p].time <= c[n][p].time /\ m[p].time \in Nat /\ c[n][p].time \in Nat
        BY <2>5, <2>6, <2>7, <4>1
      <4> QED
        BY <4>1, <4>2
    <3> QED
      BY <2>1, <3>1, <3>2
  <2>10. Seen(n)
    BY <2>5, <2>8, <2>9
  <2> HIDE DEF Seen
  <2> QED
    BY <2>1, <2>10 DEF n
<1>5. Seen(N)
  <2>1. \A i \in 0..N : i \in T
    <3> HIDE DEF T
    <3> QED
      BY <1>1, <1>3, <1>4, UpToInduction
  <2>2. N \in 0..N
    BY <1>1
  <2>3. N \in T
    BY <2>1, <2>2
  <2> HIDE DEF Seen
  <2> QED
    BY <2>3
<1>6. Range(s) = {s[j] : j \in 1..N}
  BY <1>1 DEF Range
<1> QED
  BY <1>2, <1>5, <1>6

-----------------------------------------------------------------------------
(* Types.                                                                  *)

LEMMA SizeFacts ==
    ASSUME NEW f \in Lines
    PROVE  Size(f) \in Nat /\ (Size(f) = 0 => Len(f) = 0)
<1>1. Len(f) \in Nat /\ End(f)[0] = 0 /\ \A i \in 0..Len(f) : End(f)[i] \in Nat
  BY EndDef, LineFacts
<1>2. Size(f) \in Nat
  BY <1>1 DEF Size
<1>3. ASSUME Len(f) # 0 PROVE Size(f) # 0
  <2>1. 0 \in 0..Len(f) /\ Len(f) \in 0..Len(f) /\ 0 < Len(f)
    BY <1>1, <1>3
  <2>2. End(f)[0] < End(f)[Len(f)]
    BY <2>1, EndGrows
  <2> QED
    BY <1>1, <2>2 DEF Size
<1> QED
  BY <1>2, <1>3

(* A sequence of members of a set is one of members of a larger set. *)
LEMMA SeqWider ==
    ASSUME NEW S, NEW T, S \subseteq T, NEW s \in Seq(S)
    PROVE  s \in Seq(T)
<1>1. Len(s) \in Nat /\ s \in [1..Len(s) -> S]
  BY LenProperties
<1>2. s \in [1..Len(s) -> T]
  BY <1>1
<1> QED
  BY <1>1, <1>2, SeqDef

LEMMA FileFacts ==
    ASSUME TypeOK
    PROVE  /\ Len(files) \in Nat \ {0} /\ DOMAIN files = 1..Len(files)
           /\ \A i \in 1..Len(files) : files[i] \in Lines
           /\ Len(files) \in DOMAIN files /\ Log \in Lines
           /\ Len(opened) \in Nat /\ DOMAIN opened = 1..Len(opened)
           /\ \A i \in 1..Len(opened) : opened[i] \in 1..Len(files) /\ files[opened[i]] \in Lines
<1>1. files \in Seq(Lines) /\ files # <<>> /\ opened \in Seq(DOMAIN files)
  BY DEF TypeOK
<1>2. /\ Len(files) \in Nat \ {0} /\ DOMAIN files = 1..Len(files)
      /\ \A i \in 1..Len(files) : files[i] \in Lines
  BY <1>1, EmptySeq, LenProperties, ElementOfSeq
<1>3. Len(files) \in DOMAIN files /\ Log \in Lines
  <2>1. Len(files) \in 1..Len(files)
    BY <1>2
  <2> QED
    BY <1>2, <2>1 DEF Log
<1>4. /\ Len(opened) \in Nat /\ DOMAIN opened = 1..Len(opened)
      /\ \A i \in 1..Len(opened) : opened[i] \in DOMAIN files
  BY <1>1, LenProperties, ElementOfSeq
<1> QED
  BY <1>2, <1>3, <1>4

(* The file that has been opened last, where one has. *)
LEMMA SourceFacts ==
    ASSUME TypeOK, Len(opened) >= 1
    PROVE  /\ Source \in Lines /\ TheLog \in Lines
           /\ (Same => Source = TheLog)
           /\ opened[1] \in 1..Len(files)
<1>1. 1 \in 1..Len(opened) /\ Len(opened) \in 1..Len(opened)
  BY FileFacts
<1>2. \A i \in 1..Len(opened) : opened[i] \in 1..Len(files) /\ files[opened[i]] \in Lines
  BY FileFacts
<1>3. Same => opened[Len(opened)] = opened[1]
  BY <1>1 DEF Same
<1> QED
  BY <1>1, <1>2, <1>3 DEF Source, TheLog

LEMMA CleanedTypes ==
    ASSUME NEW f \in Lines, NEW c \in Cleans
    PROVE  /\ Kept(f, c[1]) \in Lines /\ c[1] \in Filter /\ c[2] \in Filter
           /\ Trimmed(Kept(f, c[1]), c[2]) \in Lines
<1>1. c[1] \in Filter /\ c[2] \in Filter /\ c[2].at \in Nat
  BY LogFilesAssumption DEF Filter
<1> DEFINE k == Kept(f, c[1])
           max == c[2].at
<1>2. k \in Lines
  BY SelectType DEF Kept
<1> HIDE DEF k
<1>3. Trimmed(k, c[2]) \in Lines
  <2>1. PICK n \in 0..Len(k) : FindTailOffset(k, max) = End(k)[n]
    BY <1>1, <1>2, TailOffset
  <2>2. Truncated(k, FindTailOffset(k, max)) = SubSeq(k, n + 1, Len(k))
    BY <1>2, <2>1, TruncatedAt
  <2>3. SubSeq(k, n + 1, Len(k)) \in Lines
    BY <1>2, SuffixFacts
  <2> QED
    BY <1>2, <2>2, <2>3 DEF Trimmed
<1> QED
  BY <1>1, <1>2, <1>3 DEF k

-----------------------------------------------------------------------------
(* What the invariant says of the query when its files and its position    *)
(* stay as they are.                                                       *)

LEMMA PassStays ==
    ASSUME filters' = filters
    PROVE  Pass' = Pass /\ Lower' = Lower
BY DEF Pass, Passes, Lower

LEMMA QueryStays ==
    ASSUME QueryInv, qpc # "start", qpc' \in {"search", "seek", "failed"} \/ qpc' = qpc,
           Same', Regular(TheLog)', Same, TheLog' = TheLog, filters' = filters,
           UNCHANGED <<low, high, pos, result>>
    PROVE  QueryInv'
<1>1. /\ low <= high /\ high <= Size(TheLog)
      /\ NoneBefore(TheLog, low, Pass)
      /\ qpc \in {"read", "done"} =>
           /\ pos <= Size(TheLog)
           /\ NoneCut(TheLog, pos, Pass)
           /\ result = Select(Before(TheLog, pos), Pass)
  <2>1. Regular(TheLog)
    OBVIOUS
  <2> QED
    BY <2>1 DEF QueryInv
<1>2. qpc' \in {"read", "done"} => qpc \in {"read", "done"}
  OBVIOUS
<1>3. Pass' = Pass
  BY PassStays
<1> QED
  BY <1>1, <1>2, <1>3 DEF QueryInv

-----------------------------------------------------------------------------
(* The steps of the query.                                                 *)

LEMMA KeepsMeasure ==
    ASSUME LInv, Measure
    PROVE  LInv'
<1> USE DEF LInv
<1>1. /\ qpc = "start" /\ opened' = <<Len(files)>> /\ high' = Size(Log)
      /\ qpc' = IF Size(Log) = 0 THEN "done" ELSE IF Lower = {} THEN "seek" ELSE "open"
      /\ UNCHANGED <<files, appends, filters, low, pos, result, cpc, temp, backup, cleans>>
  BY DEF Measure, cleanVars
<1>2. low = 0 /\ pos = 0 /\ result = <<>>
  BY <1>1 DEF OpenedInv
<1>3. /\ Len(files) \in DOMAIN files /\ Log \in Lines /\ Size(Log) \in Nat
      /\ (Size(Log) = 0 => Len(Log) = 0) /\ Len(Log) \in Nat
  BY FileFacts, SizeFacts, LineFacts
<1>4. Pass' = Pass /\ Lower' = Lower
  BY <1>1, PassStays
<1>5. \/ (qpc' = "done" /\ Size(Log) = 0)
      \/ (qpc' = "seek" /\ Lower = {})
      \/ (qpc' = "open" /\ Lower # {})
  BY <1>1
<1>6. opened' \in Seq(DOMAIN files) /\ Len(opened') = 1 /\ opened'[1] = Len(files)
  BY <1>1, <1>3
<1>7. TypeOK'
  BY <1>1, <1>3, <1>5, <1>6 DEF TypeOK
<1>8. OpenedInv'
  BY <1>1, <1>2, <1>4, <1>5, <1>6 DEF OpenedInv
<1>9. QueryInv'
  <2>1. TheLog' = Log
    BY <1>1, <1>6 DEF TheLog, Log
  <2> DEFINE f == Log
  <2>2. f \in Lines /\ Len(f) \in Nat /\ 0 \in 0..Len(f)
        /\ End(f)[0] = 0 /\ \A i \in 0..Len(f) : End(f)[i] \in Nat
    BY <1>3, EndDef
  <2> HIDE DEF f
  <2>3. NoneBefore(f, 0, Pass) /\ NoneCut(f, 0, Pass)
    <3>1. \A i \in 1..Len(f) : i - 1 \in 0..Len(f)
      BY <2>2
    <3>2. \A i \in 1..Len(f) : ~(End(f)[i - 1] < 0)
      BY <2>2, <3>1
    <3> QED
      BY <3>2 DEF NoneBefore, NoneCut
  <2>4. qpc' = "done" => <<>> = Select(Before(f, 0), Pass)
    <3>1. SUFFICES ASSUME Len(f) = 0 PROVE <<>> = Select(Before(f, 0), Pass)
      BY <1>3, <1>5 DEF f
    <3>2. Before(f, 0) = SubSeq(f, 1, 0)
      BY <2>2, <3>1, BeforeIs
    <3>3. 1..0 = {}
      OBVIOUS
    <3>4. Select(SubSeq(f, 1, 0), Pass) = <<>>
      BY <2>2, <3>3, SelectNone
    <3> QED
      BY <3>2, <3>4
  <2>5. low' = 0 /\ pos' = 0 /\ result' = <<>> /\ high' = Size(f) /\ Size(f) \in Nat /\ TheLog' = f
    BY <1>1, <1>2, <1>3, <2>1 DEF f
  <2>6. qpc' # "read"
    BY <1>5
  <2> QED
    BY <1>4, <2>3, <2>4, <2>5, <2>6 DEF QueryInv
<1> QED
  BY <1>7, <1>8, <1>9

(* Opening the log once more. *)
LEMMA OpenedFacts ==
    ASSUME TypeOK, Len(opened) >= 1, opened' = Append(opened, Len(files)), files' = files
    PROVE  /\ opened' \in Seq(DOMAIN files') /\ Len(opened') = Len(opened) + 1
           /\ TheLog' = TheLog /\ (Same' => Same)
<1>1. /\ opened \in Seq(DOMAIN files) /\ Len(opened) \in Nat /\ Len(files) \in DOMAIN files
      /\ 1 \in 1..Len(opened)
  BY FileFacts DEF TypeOK
<1>2. /\ opened' \in Seq(DOMAIN files) /\ Len(opened') = Len(opened) + 1
      /\ \A i \in 1..Len(opened) : opened'[i] = opened[i]
  BY <1>1, AppendProperties
<1>3. opened'[1] = opened[1]
  BY <1>1, <1>2
<1>4. Same' => Same
  <2>1. \A i \in 1..Len(opened) : i \in 1..Len(opened')
    BY <1>1, <1>2
  <2> QED
    BY <1>2, <1>3, <2>1 DEF Same
<1> QED
  BY <1>2, <1>3, <1>4 DEF TheLog

LEMMA KeepsOpenToSearch ==
    ASSUME LInv, OpenToSearch
    PROVE  LInv'
<1> USE DEF LInv
<1>1. /\ qpc = "open" /\ opened' = Append(opened, Len(files)) /\ qpc' = "search"
      /\ UNCHANGED <<files, appends, filters, low, high, pos, result, cpc, temp, backup, cleans>>
  BY DEF OpenToSearch, cleanVars
<1>2. Len(opened) = 1 /\ pos = 0 /\ result = <<>> /\ Lower # {}
  BY <1>1 DEF OpenedInv
<1>3. /\ opened' \in Seq(DOMAIN files') /\ Len(opened') = 2
      /\ TheLog' = TheLog /\ (Same' => Same)
  BY <1>1, <1>2, OpenedFacts
<1>4. Lower' = Lower
  BY <1>1, PassStays
<1>5. TypeOK'
  BY <1>1, <1>3 DEF TypeOK
<1>6. OpenedInv'
  BY <1>1, <1>2, <1>3, <1>4 DEF OpenedInv
<1>7. QueryInv'
  <2>1. SUFFICES ASSUME Same', Regular(TheLog)' PROVE QueryInv'
    BY DEF QueryInv
  <2> QED
    BY <1>1, <1>3, <2>1, QueryStays
<1> QED
  BY <1>5, <1>6, <1>7

LEMMA KeepsProbe ==
    ASSUME LInv, Probe
    PROVE  LInv'
<1> USE DEF LInv
<1>1. PICK at \in LineStart(Searched, Mid) : Narrow(Mid, at)
  BY DEF Probe
<1>2. /\ qpc = "search" /\ low < high /\ low \in Nat /\ high \in Nat /\ filters \in Queries
      /\ UNCHANGED <<files, appends, qpc, filters, opened, pos, result, cpc, temp, backup, cleans>>
  BY DEF Probe, cleanVars, TypeOK
<1>3. Len(opened) = 2 /\ pos = 0 /\ result = <<>> /\ Lower # {}
  BY <1>2 DEF OpenedInv
<1>4. Mid \in Nat
  BY <1>2, MidFacts
<1>5. low' \in Nat /\ high' \in Nat
  <2>1. (high' = Mid /\ low' = low) \/ (low' = Mid + 1 /\ high' = high)
    BY <1>1 DEF Narrow
  <2> HIDE DEF LInv
  <2> QED
    BY <1>2, <1>4, <2>1
<1>6. Pass' = Pass /\ Lower' = Lower
  BY <1>2, PassStays
<1>7. TypeOK'
  BY <1>2, <1>5 DEF TypeOK
<1>8. OpenedInv'
  BY <1>2, <1>3, <1>6 DEF OpenedInv
<1>9. QueryInv'
  <2>1. SUFFICES ASSUME Same', Regular(TheLog)' PROVE QueryInv'
    BY DEF QueryInv
  <2>2. Same /\ TheLog' = TheLog /\ Regular(TheLog)
    BY <1>2, <2>1 DEF Same, TheLog
  <2>3. Searched = TheLog
    <3>1. 2 \in 1..Len(opened)
      BY <1>3
    <3> QED
      BY <2>2, <3>1 DEF Same, Searched, TheLog
  <2>4. TheLog \in Lines
    BY <1>3, SourceFacts
  <2>5. high <= Size(TheLog) /\ NoneBefore(TheLog, low, Pass)
    BY <1>2, <2>2 DEF QueryInv
  <2>6. low' <= high' /\ high' <= Size(TheLog) /\ NoneBefore(TheLog, low', Pass)
    <3> DEFINE f == TheLog
    <3> HIDE DEF f
    <3>1. /\ f \in Lines /\ Regular(f) /\ high <= Size(f) /\ Searched = f
          /\ NoneBefore(f, low, Pass) /\ at \in LineStart(f, Mid)
      BY <1>1, <2>2, <2>3, <2>4, <2>5 DEF f
    <3>2. low' <= high' /\ high' <= Size(f) /\ NoneBefore(f, low', Pass)
      BY <1>1, <1>2, <1>3, <3>1, NarrowKeeps
    <3> QED
      BY <3>2 DEF f
  <2>7. qpc' = "search"
    BY <1>2
  <2> QED
    BY <1>6, <2>2, <2>6, <2>7 DEF QueryInv
<1> QED
  BY <1>7, <1>8, <1>9

LEMMA KeepsSearchEnds ==
    ASSUME LInv, ProbeFails \/ Found
    PROVE  LInv'
<1> USE DEF LInv
<1>1. /\ qpc = "search" /\ qpc' \in {"failed", "seek"}
      /\ UNCHANGED <<files, appends, filters, opened, low, high, pos, result,
                     cpc, temp, backup, cleans>>
  BY DEF ProbeFails, Found, cleanVars
<1>2. Len(opened) = 2 /\ pos = 0 /\ result = <<>>
  BY <1>1 DEF OpenedInv
<1>3. TypeOK'
  BY <1>1 DEF TypeOK
<1>4. OpenedInv'
  BY <1>1, <1>2 DEF OpenedInv
<1>5. QueryInv'
  <2>1. SUFFICES ASSUME Same', Regular(TheLog)' PROVE QueryInv'
    BY DEF QueryInv
  <2>2. Same /\ TheLog' = TheLog
    BY <1>1, <2>1 DEF Same, TheLog
  <2> QED
    BY <1>1, <2>1, <2>2, QueryStays
<1> QED
  BY <1>3, <1>4, <1>5

LEMMA KeepsOpenToRead ==
    ASSUME LInv, OpenToRead
    PROVE  LInv'
<1> USE DEF LInv
<1>1. /\ qpc = "seek" /\ opened' = Append(opened, Len(files)) /\ qpc' = "read" /\ pos' = low
      /\ UNCHANGED <<files, appends, filters, low, high, result, cpc, temp, backup, cleans>>
  BY DEF OpenToRead, cleanVars
<1>2. Len(opened) >= 1 /\ result = <<>> /\ low \in Nat /\ high \in Nat
  BY <1>1 DEF OpenedInv, TypeOK
<1>3. /\ opened' \in Seq(DOMAIN files') /\ Len(opened') = Len(opened) + 1
      /\ TheLog' = TheLog /\ (Same' => Same) /\ Len(opened) \in Nat
  BY <1>1, <1>2, OpenedFacts, FileFacts
<1>4. Pass' = Pass
  BY <1>1, PassStays
<1>5. TypeOK'
  BY <1>1, <1>2, <1>3 DEF TypeOK
<1>6. OpenedInv'
  BY <1>1, <1>2, <1>3 DEF OpenedInv
<1>7. QueryInv'
  <2>1. SUFFICES ASSUME Same', Regular(TheLog)' PROVE QueryInv'
    BY DEF QueryInv
  <2> DEFINE f == TheLog
             P == Pass
  <2>2. /\ f \in Lines /\ low <= high /\ high <= Size(f) /\ NoneBefore(f, low, P)
        /\ Size(f) \in Nat
    <3>1. Same /\ Regular(f)
      BY <1>3, <2>1
    <3>2. f \in Lines
      BY <1>2, SourceFacts
    <3> QED
      BY <1>1, <3>1, <3>2, SizeFacts DEF QueryInv
  <2>3. TheLog' = f /\ Pass' = P
    BY <1>3, <1>4
  <2> HIDE DEF f, P
  <2>4. /\ Len(f) \in Nat /\ \A i \in 0..Len(f) : End(f)[i] \in Nat
    BY <2>2, EndDef, LineFacts
  <2>5. NoneCut(f, low, P)
    BY <2>2 DEF NoneBefore, NoneCut
  <2>6. <<>> = Select(Before(f, low), P)
    <3>1. PICK m \in 0..Len(f) : /\ Before(f, low) = SubSeq(f, 1, m)
                                 /\ \A i \in 0..m : End(f)[i] <= low
                                 /\ \A i \in m + 1..Len(f) : low < End(f)[i]
      BY <1>2, <2>2, LinesBefore
    <3>2. ASSUME NEW i \in 1..m PROVE f[i] \notin P
      <4>1. i \in 1..Len(f) /\ i \in 0..m /\ i \in 0..Len(f) /\ i - 1 \in 0..Len(f) /\ i - 1 < i
        BY <2>4, <3>1
      <4>2. End(f)[i - 1] < End(f)[i]
        BY <2>2, <4>1, EndGrows
      <4>3. End(f)[i - 1] < low
        BY <1>2, <2>4, <3>1, <4>1, <4>2
      <4> QED
        BY <2>2, <4>1, <4>3 DEF NoneBefore
    <3>3. Select(SubSeq(f, 1, m), P) = <<>>
      BY <2>2, <3>2, SelectNone
    <3> QED
      BY <3>1, <3>3
  <2>7. low <= Size(f)
    BY <1>2, <2>2
  <2> QED
    BY <1>1, <1>2, <2>2, <2>3, <2>5, <2>6, <2>7 DEF QueryInv
<1> QED
  BY <1>5, <1>6, <1>7

LEMMA KeepsReadLine ==
    ASSUME LInv, ReadLine
    PROVE  LInv'
<1> USE DEF LInv
<1> DEFINE f == Source
           i == LineAt(Source, pos)
           e == End(Source)
<1>1. /\ qpc = "read" /\ pos < Size(f) /\ pos' = e[i]
      /\ result' = IF IsStart(f, pos) /\ Passes(f[i]) /\ ~Stops(f[i])
                   THEN Append(result, f[i]) ELSE result
      /\ UNCHANGED <<files, appends, qpc, filters, opened, low, high, cpc, temp, backup, cleans>>
  BY DEF ReadLine, cleanVars
<1>2. Len(opened) >= 1 /\ pos \in Nat /\ filters \in Queries /\ result \in Lines
  BY <1>1 DEF OpenedInv, TypeOK
<1>3. f \in Lines /\ (Same => f = TheLog)
  BY <1>2, SourceFacts
<1> HIDE DEF f
<1>4. /\ i \in 1..Len(f) /\ e[i - 1] <= pos /\ pos < e[i]
      /\ \A j \in 1..Len(f) : e[j - 1] <= pos /\ pos < e[j] => j = i
  BY <1>1, <1>2, <1>3, LineAtFacts DEF f
<1>5. /\ Len(f) \in Nat /\ (\A j \in 0..Len(f) : e[j] \in Nat) /\ f[i] \in Kind
  BY <1>3, <1>4, EndDef, LineFacts DEF f
<1> HIDE DEF i
<1>6. i \in 0..Len(f) /\ e[i] \in Nat
  BY <1>4, <1>5
<1>7. ~Stops(f[i])
  BY <1>2, <1>5, NeverStops
<1>8. result' \in Lines
  <2>1. Append(result, f[i]) \in Lines
    BY <1>2, <1>5, AppendProperties DEF Lines
  <2> QED
    BY <1>1, <1>2, <2>1
<1>9. TypeOK'
  BY <1>1, <1>6, <1>8 DEF TypeOK
<1>10. OpenedInv'
  BY <1>1, <1>2 DEF OpenedInv
<1>11. QueryInv'
  <2>1. SUFFICES ASSUME Same', Regular(TheLog)' PROVE QueryInv'
    BY DEF QueryInv
  <2>2. TheLog' = f /\ f = TheLog /\ Same /\ Regular(f)
    BY <1>1, <1>3, <2>1 DEF Same, TheLog
  <2>3. /\ low <= high /\ high <= Size(f) /\ NoneBefore(f, low, Pass)
        /\ pos <= Size(f) /\ NoneCut(f, pos, Pass) /\ result = Select(Before(f, pos), Pass)
    BY <1>1, <2>2 DEF QueryInv
  <2> DEFINE P == Pass
  <2>4. Pass' = P
    BY <1>1, PassStays
  <2> HIDE DEF P
  <2>5. e[i] <= Size(f)
    <3>1. i <= Len(f) /\ Len(f) \in 0..Len(f)
      BY <1>4, <1>5
    <3>2. e[i] <= e[Len(f)]
      BY <1>3, <1>6, <3>1, EndOrder DEF f
    <3> QED
      BY <3>2 DEF Size, f
  <2>6. NoneCut(f, e[i], P)
    <3>1. SUFFICES ASSUME NEW j \in 1..Len(f), e[j - 1] < e[i], e[i] < e[j] PROVE FALSE
      BY DEF NoneCut, f
    <3>2. j \in 0..Len(f) /\ j - 1 \in 0..Len(f) /\ j \in Nat /\ i \in Nat
      BY <1>4, <1>5
    <3>3. j - 1 < i /\ i < j
      BY <1>3, <1>6, <3>1, <3>2, EndOrder DEF f
    <3> QED
      BY <3>2, <3>3
  <2>7. /\ f[i] \in P => Select(Before(f, e[i]), P) = Append(result, f[i])
        /\ f[i] \notin P => Select(Before(f, e[i]), P) = result
    <3>1. i = LineAt(f, pos) /\ e = End(f) /\ result = Select(Before(f, pos), P)
      BY <2>3 DEF f, i, P
    <3> HIDE DEF e
    <3> QED
      BY <1>1, <1>2, <1>3, <3>1, SelectNext
  <2>8. f[i] \in P <=> Passes(f[i])
    BY <1>5 DEF P, Pass
  <2>9. ~IsStart(f, pos) => f[i] \notin P
    <3>1. SUFFICES ASSUME ~IsStart(f, pos) PROVE f[i] \notin P
      OBVIOUS
    <3>2. e[i - 1] # pos
      BY <1>3, <1>4, <3>1, LineFacts DEF IsStart, f
    <3>3. i - 1 \in 0..Len(f)
      BY <1>4, <1>5
    <3>4. e[i - 1] < pos
      BY <1>2, <1>4, <1>5, <3>2, <3>3
    <3> QED
      BY <1>4, <2>3, <3>4 DEF NoneCut, f, P
  <2>10. result' = Select(Before(f, e[i]), P)
    <3>1. CASE IsStart(f, pos) /\ Passes(f[i])
      BY <1>1, <1>7, <2>7, <2>8, <3>1
    <3>2. CASE ~(IsStart(f, pos) /\ Passes(f[i]))
      BY <1>1, <2>7, <2>8, <2>9, <3>2
    <3> QED
      BY <3>1, <3>2
  <2>11. /\ low' = low /\ high' = high /\ pos' = e[i] /\ P = Pass
    BY <1>1 DEF P
  <2> HIDE DEF e
  <2> QED
    BY <2>2, <2>3, <2>4, <2>5, <2>6, <2>10, <2>11 DEF QueryInv
<1> QED
  BY <1>9, <1>10, <1>11

LEMMA KeepsReadEnd ==
    ASSUME LInv, ReadEnd
    PROVE  LInv'
<1> USE DEF LInv
<1>1. /\ qpc = "read" /\ qpc' = "done"
      /\ UNCHANGED <<files, appends, filters, opened, low, high, pos, result,
                     cpc, temp, backup, cleans>>
  BY DEF ReadEnd, cleanVars
<1>2. TypeOK'
  BY <1>1 DEF TypeOK
<1>3. OpenedInv'
  BY <1>1 DEF OpenedInv
<1>4. QueryInv'
  <2>1. SUFFICES ASSUME Same', Regular(TheLog)' PROVE QueryInv'
    BY DEF QueryInv
  <2>2. Same /\ TheLog' = TheLog /\ Regular(TheLog)
    BY <1>1, <2>1 DEF Same, TheLog
  <2>3. Pass' = Pass
    BY <1>1, PassStays
  <2> QED
    BY <1>1, <2>2, <2>3 DEF QueryInv
<1> QED
  BY <1>2, <1>3, <1>4

-----------------------------------------------------------------------------
(* The steps of fsmon clean and of the daemon.                             *)

(* The query goes on as before when the files it opened keep their lines.  *)
LEMMA QueryUntouched ==
    ASSUME LInv, TypeOK', UNCHANGED queryVars,
           qpc # "start" => TheLog' = TheLog
    PROVE  LInv'
<1> USE DEF LInv, queryVars
<1>1. OpenedInv'
  <2>1. Lower' = Lower
    BY PassStays
  <2> QED
    BY <2>1 DEF OpenedInv
<1>2. QueryInv'
  <2>1. SUFFICES ASSUME qpc' # "start", Same', Regular(TheLog)' PROVE QueryInv'
    BY DEF QueryInv
  <2>2. qpc # "start" /\ Same /\ TheLog' = TheLog
    BY <2>1 DEF Same
  <2> QED
    BY <2>1, <2>2, QueryStays
<1> QED
  BY <1>1, <1>2

LEMMA KeepsClean ==
    ASSUME LInv, CleanRead \/ DryRun \/ CleanCopy
    PROVE  LInv'
<1>1. TypeOK
  BY DEF LInv
<1>2. UNCHANGED <<files, appends>> /\ UNCHANGED queryVars
  BY DEF CleanRead, DryRun, CleanCopy
<1>3. Log \in Lines /\ <<>> \in Lines
  BY <1>1, FileFacts, EmptySeq DEF Lines
<1>4. cpc' \in {"idle", "copy", "rename"} /\ temp' \in Lines /\ backup' \in Lines
      /\ cleans' \in 0..MaxCleans
  <2>1. CASE CleanRead
    <3>1. PICK c \in Cleans : temp' = Trimmed(Kept(Log, c[1]), c[2])
      BY <2>1 DEF CleanRead
    <3>2. temp' \in Lines
      BY <1>3, <3>1, CleanedTypes
    <3>3. cleans' \in 0..MaxCleans
      BY <1>1, <2>1, LogFilesAssumption DEF CleanRead, TypeOK
    <3> QED
      BY <1>1, <2>1, <3>2, <3>3 DEF CleanRead, TypeOK
  <2>2. CASE DryRun
    BY <1>1, <1>3, <2>2 DEF DryRun, TypeOK
  <2>3. CASE CleanCopy
    <3> DEFINE n == Len(Log) \div 2
    <3>1. Len(Log) \in Nat
      BY <1>3, LineFacts
    <3>2. n \in 0..Len(Log)
      BY <3>1
    <3> HIDE DEF n
    <3>3. SubSeq(Log, 1, n) \in Lines
      BY <1>3, <3>2, PrefixFacts
    <3>4. backup' \in Lines
      BY <1>3, <2>3, <3>3 DEF CleanCopy, n
    <3> QED
      BY <1>1, <2>3, <3>4 DEF CleanCopy, TypeOK
  <2> QED
    BY <2>1, <2>2, <2>3
<1>5. TypeOK'
  BY <1>1, <1>2, <1>4 DEF TypeOK, queryVars
<1>6. TheLog' = TheLog
  BY <1>2 DEF TheLog, queryVars
<1> QED
  BY <1>2, <1>5, <1>6, QueryUntouched

LEMMA KeepsCleanRename ==
    ASSUME LInv, CleanRename
    PROVE  LInv'
<1>1. TypeOK /\ OpenedInv
  BY DEF LInv
<1>2. /\ files' \in {Append(files, temp), Append(files, backup), files}
      /\ cpc' = "idle" /\ temp' = <<>> /\ backup' = <<>>
      /\ UNCHANGED <<appends, cleans>> /\ UNCHANGED queryVars
  BY DEF CleanRename
<1>3. <<>> \in Lines /\ files \in Seq(Lines) /\ temp \in Lines /\ backup \in Lines /\ files # <<>>
  BY <1>1, EmptySeq DEF Lines, TypeOK
<1>4. /\ files' \in Seq(Lines) /\ files' # <<>> /\ DOMAIN files \subseteq DOMAIN files'
      /\ \A i \in 1..Len(files) : files'[i] = files[i]
  <2>1. Len(files) \in Nat /\ DOMAIN files = 1..Len(files)
    BY <1>1, FileFacts
  <2>2. ASSUME NEW t \in Lines, files' = Append(files, t)
        PROVE  /\ files' \in Seq(Lines) /\ files' # <<>> /\ DOMAIN files \subseteq DOMAIN files'
               /\ \A i \in 1..Len(files) : files'[i] = files[i]
    <3>1. /\ files' \in Seq(Lines) /\ files' # <<>> /\ Len(files') = Len(files) + 1
          /\ \A i \in 1..Len(files) : files'[i] = files[i]
      BY <1>3, <2>2, AppendProperties
    <3>2. DOMAIN files' = 1..Len(files')
      BY <3>1, LenProperties
    <3>3. DOMAIN files \subseteq DOMAIN files'
      BY <2>1, <3>1, <3>2
    <3> QED
      BY <3>1, <3>3
  <2> QED
    BY <1>2, <1>3, <2>2
<1>5. opened' \in Seq(DOMAIN files')
  <2>1. opened \in Seq(DOMAIN files) /\ opened' = opened
    BY <1>1, <1>2 DEF TypeOK, queryVars
  <2> QED
    BY <1>4, <2>1, SeqWider
<1>6. TypeOK'
  BY <1>1, <1>2, <1>3, <1>4, <1>5 DEF TypeOK, queryVars
<1>7. qpc # "start" => TheLog' = TheLog
  <2>1. SUFFICES ASSUME qpc # "start" PROVE TheLog' = TheLog
    OBVIOUS
  <2>2. opened[1] \in 1..Len(files)
    BY <1>1, <2>1, SourceFacts DEF OpenedInv
  <2> QED
    BY <1>2, <1>4, <2>2 DEF TheLog, queryVars
<1> QED
  BY <1>2, <1>6, <1>7, QueryUntouched

(* A line is appended to the file that is searched or read. *)
LEMMA QueryAppended ==
    ASSUME NEW f \in Lines, NEW k \in Kind, NEW P, Regular(Append(f, k))
    PROVE  /\ Regular(f)
           /\ Size(f) <= Size(Append(f, k))
           /\ \A p \in Nat : p <= Size(f) /\ NoneBefore(f, p, P) => NoneBefore(Append(f, k), p, P)
           /\ \A p \in Nat : p <= Size(f) /\ NoneCut(f, p, P) => NoneCut(Append(f, k), p, P)
<1> DEFINE g == Append(f, k)
           N == Len(f)
<1>1. /\ g \in Lines /\ Len(g) = N + 1 /\ \A i \in 1..N : g[i] = f[i]
      /\ \A i \in 0..N : End(g)[i] = End(f)[i]
      /\ Size(f) <= Size(g) /\ N \in Nat
  BY EndAppended, LineFacts
<1>2. DOMAIN f = 1..N /\ \A i \in 0..N : End(f)[i] \in Nat
  BY EndDef, LineFacts
<1>3. Size(f) = End(f)[N] /\ Size(f) \in Nat
  BY SizeFacts DEF Size
<1>4. Regular(g)
  OBVIOUS
<1> HIDE DEF g, N
<1>5. DOMAIN g = 1..N + 1 /\ \A i \in 1..N : i \in 1..N + 1 /\ i \in 0..N /\ i - 1 \in 0..N
  BY <1>1, LineFacts
<1>6. Regular(f)
  BY <1>1, <1>2, <1>4, <1>5 DEF Regular
<1>7. \A i \in 1..N + 1 : i \in 1..N \/ (i = N + 1 /\ i - 1 = N)
  BY <1>1
<1>8. End(g)[N] = Size(f)
  BY <1>1, <1>3
<1>9. ASSUME NEW p \in Nat, p <= Size(f), NoneBefore(f, p, P) PROVE NoneBefore(g, p, P)
  <2>1. SUFFICES ASSUME NEW i \in 1..N + 1, End(g)[i - 1] < p PROVE g[i] \notin P
    BY <1>1 DEF NoneBefore
  <2>2. CASE i \in 1..N
    <3>1. g[i] = f[i] /\ End(g)[i - 1] = End(f)[i - 1]
      BY <1>1, <1>5, <2>2
    <3> QED
      BY <1>9, <2>1, <2>2, <3>1 DEF NoneBefore, N
  <2>3. CASE i = N + 1 /\ i - 1 = N
    BY <1>3, <1>8, <1>9, <2>1, <2>3
  <2> QED
    BY <1>7, <2>2, <2>3
<1>10. ASSUME NEW p \in Nat, p <= Size(f), NoneCut(f, p, P) PROVE NoneCut(g, p, P)
  <2>1. SUFFICES ASSUME NEW i \in 1..N + 1, End(g)[i - 1] < p, p < End(g)[i] PROVE g[i] \notin P
    BY <1>1 DEF NoneCut
  <2>2. CASE i \in 1..N
    <3>1. g[i] = f[i] /\ End(g)[i - 1] = End(f)[i - 1] /\ End(g)[i] = End(f)[i]
      BY <1>1, <1>5, <2>2
    <3> QED
      BY <1>10, <2>1, <2>2, <3>1 DEF NoneCut, N
  <2>3. CASE i = N + 1 /\ i - 1 = N
    BY <1>3, <1>8, <1>10, <2>1, <2>3
  <2> QED
    BY <1>7, <2>2, <2>3
<1> QED
  BY <1>1, <1>6, <1>9, <1>10 DEF g

LEMMA KeepsAppendEvent ==
    ASSUME LInv, AppendEvent
    PROVE  LInv'
<1>1. TypeOK /\ OpenedInv /\ QueryInv
  BY DEF LInv
<1>2. /\ appends < MaxAppends /\ appends' = appends + 1
      /\ UNCHANGED queryVars /\ UNCHANGED cleanVars
  BY DEF AppendEvent
<1>3. PICK k \in Kind : files' = [files EXCEPT ![Len(files)] = Append(@, k)]
  BY DEF AppendEvent
<1>4. /\ files \in Seq(Lines) /\ Log \in Lines /\ Len(files) \in 1..Len(files)
      /\ DOMAIN files = 1..Len(files) /\ Len(files) \in Nat \ {0}
  BY <1>1, FileFacts DEF TypeOK
<1> DEFINE g == Append(Log, k)
<1>5. g \in Lines
  BY <1>4, EndAppended
<1>6. files' = [files EXCEPT ![Len(files)] = g]
  BY <1>3 DEF Log
<1> HIDE DEF g
<1>7. /\ files' \in Seq(Lines) /\ Len(files') = Len(files)
      /\ \A i \in 1..Len(files) : files'[i] = IF i = Len(files) THEN g ELSE files[i]
  BY <1>4, <1>5, <1>6, ExceptSeq
<1>8. DOMAIN files' = DOMAIN files /\ files' # <<>>
  <2>1. DOMAIN files' = 1..Len(files')
    BY <1>7, LenProperties
  <2>2. Len(files') # 0
    BY <1>4, <1>7
  <2>3. files' # <<>>
    BY <2>2, EmptySeq
  <2> QED
    BY <1>4, <1>7, <2>1, <2>3
<1>9. appends' \in 0..MaxAppends
  BY <1>1, <1>2, LogFilesAssumption DEF TypeOK
<1>10. TypeOK'
  BY <1>1, <1>2, <1>7, <1>8, <1>9 DEF TypeOK, queryVars, cleanVars
<1>11. CASE qpc # "start" => TheLog' = TheLog
  BY <1>2, <1>10, <1>11, QueryUntouched
<1>12. CASE qpc # "start" /\ TheLog' # TheLog
  <2>1. OpenedInv'
    <3>1. Lower' = Lower
      BY <1>2, PassStays DEF queryVars
    <3> QED
      BY <1>1, <1>2, <3>1 DEF OpenedInv, queryVars
  <2>2. QueryInv'
    <3>1. SUFFICES ASSUME Same', Regular(TheLog)' PROVE QueryInv'
      BY DEF QueryInv
    <3>2. opened[1] \in 1..Len(files) /\ opened' = opened
      BY <1>1, <1>2, <1>12, SourceFacts DEF OpenedInv, queryVars
    <3>3. opened[1] = Len(files) /\ TheLog' = g /\ TheLog = Log
      BY <1>7, <1>12, <3>2 DEF TheLog, Log
    <3> DEFINE f == Log
               P == Pass
    <3>4. f \in Lines /\ g = Append(f, k)
      BY <1>4 DEF g
    <3>5. Regular(g)
      BY <3>1, <3>3
    <3>6. Same /\ TheLog = f
      BY <3>1, <3>2, <3>3 DEF Same
    <3>7. Pass' = P
      BY <1>2, PassStays DEF queryVars
    <3> HIDE DEF f, P
    <3>8. /\ Regular(f) /\ Size(f) <= Size(g)
          /\ \A p \in Nat : p <= Size(f) /\ NoneBefore(f, p, P) => NoneBefore(g, p, P)
          /\ \A p \in Nat : p <= Size(f) /\ NoneCut(f, p, P) => NoneCut(g, p, P)
      BY <3>4, <3>5, QueryAppended
    <3>9. /\ low <= high /\ high <= Size(f) /\ NoneBefore(f, low, P)
          /\ qpc \in {"read", "done"} =>
               /\ pos <= Size(f) /\ NoneCut(f, pos, P) /\ result = Select(Before(f, pos), P)
      BY <1>1, <1>12, <3>6, <3>8 DEF QueryInv, P
    <3>10. low \in Nat /\ high \in Nat /\ pos \in Nat /\ Size(f) \in Nat /\ Size(g) \in Nat
      BY <1>1, <1>5, <3>4, SizeFacts DEF TypeOK
    <3>11. high <= Size(g) /\ NoneBefore(g, low, P)
      <4>1. low <= Size(f)
        BY <3>9, <3>10
      <4> QED
        BY <3>8, <3>9, <3>10, <4>1
    <3>12. ASSUME qpc \in {"read", "done"}
           PROVE  pos <= Size(g) /\ NoneCut(g, pos, P) /\ result = Select(Before(g, pos), P)
      <4>1. pos <= Size(f) /\ NoneCut(f, pos, P) /\ result = Select(Before(f, pos), P)
        BY <3>9, <3>12
      <4>2. Before(g, pos) = Before(f, pos)
        BY <3>4, <3>10, <4>1, BeforeAppended
      <4> QED
        BY <3>8, <3>10, <4>1, <4>2
    <3>13. UNCHANGED <<qpc, low, high, pos, result>>
      BY <1>2 DEF queryVars
    <3> QED
      BY <3>3, <3>7, <3>9, <3>11, <3>12, <3>13 DEF QueryInv
  <2> QED
    BY <1>10, <2>1, <2>2 DEF LInv
<1> QED
  BY <1>11, <1>12

-----------------------------------------------------------------------------
(* The theorems.                                                           *)

LEMMA LInvInit == Init => LInv
<1> SUFFICES ASSUME Init PROVE LInv
  OBVIOUS
<1>1. PICK n \in 0..MaxLines : \E f \in [1..n -> Kind] : files = <<f>>
  BY DEF Init
<1>2. PICK f \in [1..n -> Kind] : files = <<f>>
  BY <1>1
<1>3. n \in Nat /\ f \in Lines /\ <<>> \in Lines /\ <<>> \in Seq(DOMAIN files)
  BY SeqDef, EmptySeq, LogFilesAssumption DEF Lines
<1>4. files \in Seq(Lines) /\ files # <<>>
  BY <1>2, <1>3
<1>5. 0 \in 0..MaxAppends /\ 0 \in 0..MaxCleans
  BY LogFilesAssumption
<1>6. TypeOK
  BY <1>3, <1>4, <1>5 DEF Init, TypeOK
<1>7. OpenedInv /\ QueryInv
  BY DEF Init, OpenedInv, QueryInv
<1> QED
  BY <1>6, <1>7 DEF LInv

LEMMA LInvNext == LInv /\ [Next]_vars => LInv'
<1> SUFFICES ASSUME LInv, [Next]_vars PROVE LInv'
  OBVIOUS
<1>1. CASE QueryStep
  BY <1>1, KeepsMeasure, KeepsOpenToSearch, KeepsProbe, KeepsSearchEnds, KeepsOpenToRead,
     KeepsReadLine, KeepsReadEnd DEF QueryStep
<1>2. CASE CleanStep
  BY <1>2, KeepsClean, KeepsCleanRename DEF CleanStep
<1>3. CASE AppendEvent
  BY <1>3, KeepsAppendEvent
<1>4. CASE UNCHANGED vars
  <2>1. TypeOK'
    BY <1>4 DEF LInv, TypeOK, vars
  <2>2. UNCHANGED queryVars /\ TheLog' = TheLog
    BY <1>4 DEF queryVars, TheLog, vars
  <2> QED
    BY <2>1, <2>2, QueryUntouched
<1> QED
  BY <1>1, <1>2, <1>3, <1>4 DEF Next

LEMMA LInvKept == Spec => []LInv
BY LInvInit, LInvNext, PTL DEF Spec

(* The query, the clean and the daemon keep every variable in its type:    *)
(* what a clean writes to the temporary file, by dropping the bytes before *)
(* the offset of find_tail_offset, is again a file of whole lines.         *)
THEOREM FilesTypeCorrect == Spec => []TypeOK
<1>1. LInv => TypeOK
  BY DEF LInv
<1> QED
  BY <1>1, LInvKept, PTL

(* read_events_from misses nothing the user asked for.  When the query     *)
(* opened one file, every line of it an event no longer than the scan      *)
(* back, of one-byte characters, in the order of time, the binary search   *)
(* of find_first_event_after starts at or before the first event in the    *)
(* range, whatever the lines and their number, and the result is every     *)
(* event of the range up to the end of the file, those included that the   *)
(* daemon appended meanwhile.  The map of execute_changes has, for each    *)
(* path of any result, an event that none of the path is newer than.       *)
THEOREM QueryIsComplete == Spec => []QueryComplete
<1>1. LInv => QueryComplete
  <2>1. SUFFICES ASSUME LInv, qpc = "done"
        PROVE  /\ (\A i \in DOMAIN opened : opened[i] = opened[1]) /\ Regular(Source)
                    => result = Select(Before(Source, pos), {k \in Kind : Passes(k)})
               /\ DOMAIN Newest(result) = {e.path : e \in Range(result)}
               /\ \A e \in Range(result) : e.time <= Newest(result)[e.path].time
    BY DEF QueryComplete
  <2>2. TypeOK /\ OpenedInv /\ QueryInv /\ result \in Lines /\ Len(opened) >= 1
    BY <2>1 DEF LInv, TypeOK, OpenedInv
  <2>3. ASSUME \A i \in DOMAIN opened : opened[i] = opened[1], Regular(Source)
        PROVE  result = Select(Before(Source, pos), {k \in Kind : Passes(k)})
    <3>1. Same
      BY <2>2, <2>3, FileFacts DEF Same
    <3>2. Source = TheLog /\ Regular(TheLog)
      BY <2>2, <2>3, <3>1, SourceFacts
    <3>3. result = Select(Before(TheLog, pos), Pass)
      BY <2>1, <2>2, <3>1, <3>2 DEF QueryInv
    <3> QED
      BY <3>2, <3>3 DEF Pass
  <2> QED
    BY <2>2, <2>3, NewestFacts
<1> QED
  BY <1>1, LInvKept, PTL

(* find_tail_offset keeps "approximately max_bytes from the tail": for     *)
(* every log the daemon and earlier cleans can leave, and every limit, a   *)
(* trim drops a line and no more than it must, as long as no line is       *)
(* longer than the bytes it scans back.                                    *)
THEOREM TrimIsExact == Spec => []TrimKeepsTail
<1>1. LInv => TrimKeepsTail
  <2>1. SUFFICES ASSUME LInv, NEW c \in Cleans,
                        Matches(c[2], Size(Kept(Log, c[1]))), Size(Kept(Log, c[1])) > c[2].at,
                        \A i \in DOMAIN Kept(Log, c[1]) : Kept(Log, c[1])[i].size <= ScanBack
                 PROVE  LET k == Kept(Log, c[1])
                            t == Trimmed(k, c[2])
                        IN  /\ Len(t) < Len(k)
                            /\ Size(t) >= c[2].at \/ Len(t) = Len(k) - 1
                            /\ t # <<>> => Size(Tail(t)) < c[2].at
    BY DEF TrimKeepsTail
  <2>2. Log \in Lines
    BY <2>1, FileFacts DEF LInv
  <2> DEFINE k == Kept(Log, c[1])
  <2>3. k \in Lines /\ c[2] \in Filter
    BY <2>2, CleanedTypes
  <2>4. Matches(c[2], Size(k)) /\ Size(k) > c[2].at /\ \A i \in DOMAIN k : k[i].size <= ScanBack
    BY <2>1
  <2> HIDE DEF k
  <2>5. \A i \in 1..Len(k) : k[i].size <= ScanBack
    BY <2>3, <2>4, LineFacts
  <2>6. LET t == Trimmed(k, c[2])
        IN  /\ Len(t) < Len(k)
            /\ Size(t) >= c[2].at \/ Len(t) = Len(k) - 1
            /\ t # <<>> => Size(Tail(t)) < c[2].at
    BY <2>3, <2>4, <2>5, TrimFacts
  <2> QED
    BY <2>6 DEF k
<1> QED
  BY <1>1, LInvKept, PTL
=============================================================================
