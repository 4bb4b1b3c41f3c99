-------------------------- MODULE LogWriterProofs --------------------------
(***************************************************************************)
(* The file writer accounts for every event and keeps each log in order,   *)
(* for every number of logs, events, handles and lines in a buffer.        *)
(***************************************************************************)
EXTENDS LogWriter, SequenceTheorems, FiniteSetTheorems, TLAPS

(* Sequences without repetition, and the order of a log: an event comes    *)
(* after a greater one only if it went through disk_buf.                   *)
Once(s)        == \A i, j \in 1..Len(s) : s[i] = s[j] => i = j
Sorted(s, R)   == \A i, j \in 1..Len(s) : i < j => s[i] < s[j] \/ s[j] \in R
Below(A, B, R) == \A a \in A, b \in B : a < b \/ b \in R

-----------------------------------------------------------------------------
(* Sequences.                                                              *)

LEMMA InRange ==
    ASSUME NEW S, NEW s \in Seq(S), NEW x
    PROVE  /\ x \in Range(s) <=> \E i \in 1..Len(s) : s[i] = x
           /\ Range(s) \subseteq S
           /\ \A i \in 1..Len(s) : s[i] \in Range(s)
<1>1. Range(s) = {s[i] : i \in 1..Len(s)}
  BY RangeEquality
<1>2. \A i \in 1..Len(s) : s[i] \in S
  BY ElementOfSeq
<1> QED
  BY <1>1, <1>2

LEMMA EmptyList ==
    /\ Range(<<>>) = {} /\ Once(<<>>) /\ \A R : Sorted(<<>>, R)
    /\ Len(<<>>) = 0
<1>1. Len(<<>>) = 0 /\ <<>> \in Seq({})
  BY EmptySeq
<1>2. Range(<<>>) = {}
  <2>1. DOMAIN <<>> = {}
    OBVIOUS
  <2> QED
    BY <2>1, Zenon DEF Range
<1> QED
  BY <1>1, <1>2 DEF Once, Sorted

LEMMA OneLine ==
    ASSUME NEW S, NEW e \in S
    PROVE  /\ <<e>> \in Seq(S) /\ Range(<<e>>) = {e} /\ Once(<<e>>)
           /\ \A R : Sorted(<<e>>, R)
<1>1. <<e>> \in Seq(S) /\ Len(<<e>>) = 1 /\ <<e>>[1] = e
  OBVIOUS
<1>2. \A x : x \in Range(<<e>>) <=> \E i \in 1..Len(<<e>>) : <<e>>[i] = x
  BY <1>1, InRange
<1> QED
  BY <1>1, <1>2 DEF Once, Sorted

LEMMA AppendList ==
    ASSUME NEW s \in Seq(Event), NEW e \in Event
    PROVE  /\ Append(s, e) \in Seq(Event)
           /\ Range(Append(s, e)) = Range(s) \cup {e}
           /\ Once(s) /\ e \notin Range(s) => Once(Append(s, e))
           /\ \A R : Sorted(s, R) /\ Below(Range(s), {e}, R) => Sorted(Append(s, e), R)
<1> DEFINE t == Append(s, e)
           n == Len(s)
<1>1. /\ t \in Seq(Event) /\ Len(t) = n + 1 /\ n \in Nat
      /\ \A i \in 1..n : t[i] = s[i]
      /\ t[n + 1] = e
  BY AppendProperties, LenProperties
<1>2. \A i \in 1..n + 1 : i \in 1..n \/ i = n + 1
  BY <1>1
<1>2a. 1..n \subseteq 1..n + 1 /\ n + 1 \in 1..n + 1
  BY <1>1
<1> HIDE DEF t, n
<1>3. \A x : /\ x \in Range(s) <=> \E i \in 1..n : s[i] = x
             /\ x \in Range(t) <=> \E i \in 1..n + 1 : t[i] = x
  BY <1>1, InRange DEF n
<1>4. Range(t) = Range(s) \cup {e}
  <2>1. \A x : x \in Range(t) <=> x \in Range(s) \/ x = e
    BY <1>1, <1>2, <1>2a, <1>3
  <2> QED
    BY <2>1
<1>5. ASSUME Once(s), e \notin Range(s) PROVE Once(t)
  <2>1. \A i \in 1..n : s[i] # e
    BY <1>3, <1>5
  <2> QED
    BY <1>1, <1>2, <1>5, <2>1 DEF Once, n
<1>6. ASSUME NEW R, Sorted(s, R), Below(Range(s), {e}, R) PROVE Sorted(t, R)
  <2>1. \A i \in 1..n : s[i] < e \/ e \in R
    BY <1>3, <1>6 DEF Below
  <2>2. ASSUME NEW i \in 1..n + 1, NEW j \in 1..n + 1, i < j
        PROVE  t[i] < t[j] \/ t[j] \in R
    <3>1. i \in 1..n
      BY <1>1, <2>2
    <3>2. CASE j \in 1..n
      BY <1>1, <1>6, <2>2, <3>1, <3>2 DEF Sorted, n
    <3>3. CASE j = n + 1
      BY <1>1, <2>1, <3>1, <3>3
    <3> QED
      BY <1>2, <3>2, <3>3
  <2> QED
    BY <1>1, <2>2 DEF Sorted
<1> QED
  BY <1>1, <1>4, <1>5, <1>6 DEF t

LEMMA AppendRange ==
    ASSUME NEW s \in Seq(Event), NEW e \in Event
    PROVE  Range(Append(s, e)) = Range(s) \cup {e}
BY AppendList

LEMMA AppendOrder ==
    ASSUME NEW s \in Seq(Event), NEW e \in Event, NEW R, Once(s), e \notin Range(s),
           Sorted(s, R), Below(Range(s), {e}, R)
    PROVE  Once(Append(s, e)) /\ Sorted(Append(s, e), R)
BY AppendList

LEMMA TailList ==
    ASSUME NEW S, NEW s \in Seq(S), s # <<>>, Once(s)
    PROVE  /\ Tail(s) \in Seq(S) /\ Once(Tail(s)) /\ Len(Tail(s)) = Len(s) - 1
           /\ Head(s) \in Range(s) /\ Range(Tail(s)) = Range(s) \ {Head(s)}
<1> DEFINE t == Tail(s)
           n == Len(s)
<1>1. /\ t \in Seq(S) /\ Len(t) = n - 1 /\ n \in Nat \ {0} /\ Head(s) = s[1]
      /\ \A i \in 1..n - 1 : t[i] = s[i + 1]
  BY HeadTailProperties, EmptySeq
<1>2. \A i \in 1..n : i = 1 \/ (i - 1 \in 1..n - 1 /\ (i - 1) + 1 = i)
  BY <1>1
<1>3. \A i \in 1..n - 1 : i + 1 \in 1..n /\ i + 1 # 1
  BY <1>1
<1> HIDE DEF t, n
<1>4. \A x : /\ x \in Range(s) <=> \E i \in 1..n : s[i] = x
             /\ x \in Range(t) <=> \E i \in 1..n - 1 : t[i] = x
  BY <1>1, InRange DEF n
<1>5. 1 \in 1..n
  BY <1>1
<1>6. \A i, j \in 1..n : s[i] = s[j] => i = j
  BY DEF Once, n
<1>7. Once(t)
  <2>1. ASSUME NEW i \in 1..n - 1, NEW j \in 1..n - 1, t[i] = t[j] PROVE i = j
    <3>1. i + 1 = j + 1
      BY <1>1, <1>3, <1>6, <2>1
    <3> QED
      BY <3>1
  <2> QED
    BY <1>1, <2>1 DEF Once
<1>8. Range(t) = Range(s) \ {Head(s)}
  <2>1. ASSUME NEW x \in Range(t) PROVE x \in Range(s) /\ x # s[1]
    <3>1. PICK i \in 1..n - 1 : t[i] = x
      BY <1>4
    <3>2. i + 1 \in 1..n /\ i + 1 # 1 /\ s[i + 1] = x
      BY <1>1, <1>3, <3>1
    <3> QED
      BY <1>4, <1>5, <1>6, <3>2
  <2>2. ASSUME NEW x \in Range(s), x # s[1] PROVE x \in Range(t)
    <3>1. PICK i \in 1..n : s[i] = x
      BY <1>4
    <3>2. i - 1 \in 1..n - 1 /\ t[i - 1] = x
      BY <1>1, <1>2, <2>2, <3>1
    <3> QED
      BY <1>4, <3>2
  <2> QED
    BY <1>1, <2>1, <2>2
<1> QED
  BY <1>1, <1>4, <1>5, <1>7, <1>8 DEF t, n

LEMMA SplitList ==
    ASSUME NEW S, NEW s \in Seq(S), NEW n \in 0..Len(s), NEW R
    PROVE  LET w == SubSeq(s, 1, n)
               u == SubSeq(s, n + 1, Len(s))
           IN  /\ w \in Seq(S) /\ u \in Seq(S)
               /\ Range(w) \cup Range(u) = Range(s)
               /\ Once(s) => Once(w) /\ Once(u) /\ Range(w) \cap Range(u) = {}
               /\ Sorted(s, R) => /\ Sorted(w, R) /\ Sorted(u, R)
                                  /\ Below(Range(w), Range(u), R)
<1> DEFINE w == SubSeq(s, 1, n)
           u == SubSeq(s, n + 1, Len(s))
           m == Len(s)
<1>1. m \in Nat /\ n \in Nat /\ n <= m /\ \A i \in 1..m : s[i] \in S
  BY LenProperties, ElementOfSeq
<1>2. w \in Seq(S) /\ Len(w) = n /\ \A i \in 1..n : w[i] = s[i]
  <2>1. \A i \in 1..n : s[i] \in S
    BY <1>1
  <2>2. /\ w \in Seq(S) /\ Len(w) = (IF 1 <= n THEN n - 1 + 1 ELSE 0)
        /\ \A i \in 1..n - 1 + 1 : w[i] = s[1 + i - 1]
    BY <1>1, <2>1, SubSeqProperties
  <2>3. n - 1 + 1 = n /\ \A i \in 1..n : 1 + i - 1 = i
    BY <1>1
  <2> QED
    BY <1>1, <2>2, <2>3
<1>3. u \in Seq(S) /\ Len(u) = m - n /\ \A i \in 1..m - n : u[i] = s[n + i]
  <2>1. \A i \in n + 1..m : s[i] \in S
    BY <1>1
  <2>2. n + 1 \in Int /\ m \in Int
    BY <1>1
  <2>3. /\ u \in Seq(S) /\ Len(u) = (IF n + 1 <= m THEN m - (n + 1) + 1 ELSE 0)
        /\ \A i \in 1..m - (n + 1) + 1 : u[i] = s[(n + 1) + i - 1]
    BY <2>1, <2>2, SubSeqProperties
  <2>4. m - (n + 1) + 1 = m - n /\ \A i \in 1..m - n : (n + 1) + i - 1 = n + i
    BY <1>1
  <2>5. Len(u) = m - n
    BY <1>1, <2>3
  <2>6. \A i \in 1..m - n : u[i] = s[n + i]
    BY <2>3, <2>4
  <2> QED
    BY <2>3, <2>5, <2>6
<1> HIDE DEF w, u, m
<1>4. \A x : /\ x \in Range(s) <=> \E i \in 1..m : s[i] = x
             /\ x \in Range(w) <=> \E i \in 1..n : w[i] = x
             /\ x \in Range(u) <=> \E i \in 1..m - n : u[i] = x
  <2>1. \A x : x \in Range(s) <=> \E i \in 1..m : s[i] = x
    BY InRange DEF m
  <2>2. \A x : x \in Range(w) <=> \E i \in 1..n : w[i] = x
    BY <1>2, InRange
  <2>3. \A x : x \in Range(u) <=> \E i \in 1..m - n : u[i] = x
    BY <1>3, InRange
  <2> QED
    BY <2>1, <2>2, <2>3
<1>5. /\ \A i \in 1..n : i \in 1..m
      /\ \A i \in 1..m - n : n + i \in 1..m /\ n < n + i
      /\ \A i \in 1..m : i \in 1..n \/ (i - n \in 1..m - n /\ n + (i - n) = i)
  BY <1>1
<1>6. Range(w) \cup Range(u) = Range(s)
  <2>1. \A x : x \in Range(w) \/ x \in Range(u) => x \in Range(s)
    <3>1. ASSUME NEW x \in Range(w) PROVE x \in Range(s)
      BY <1>2, <1>4, <1>5
    <3>2. ASSUME NEW x \in Range(u) PROVE x \in Range(s)
      BY <1>3, <1>4, <1>5
    <3> QED
      BY <3>1, <3>2
  <2>2. \A x : x \in Range(s) => x \in Range(w) \/ x \in Range(u)
    <3> SUFFICES ASSUME NEW x \in Range(s) PROVE x \in Range(w) \/ x \in Range(u)
      OBVIOUS
    <3>1. PICK i \in 1..m : s[i] = x
      BY <1>4
    <3>2. CASE i \in 1..n
      BY <1>2, <1>4, <3>1, <3>2
    <3>3. CASE i - n \in 1..m - n /\ n + (i - n) = i
      BY <1>3, <1>4, <3>1, <3>3
    <3> QED
      BY <1>5, <3>2, <3>3
  <2> QED
    BY <2>1, <2>2
<1>7. ASSUME Once(s) PROVE Once(w) /\ Once(u) /\ Range(w) \cap Range(u) = {}
  <2>1. \A i, j \in 1..m : s[i] = s[j] => i = j
    BY <1>7 DEF Once, m
  <2>2. Once(w)
    BY <1>2, <1>5, <2>1 DEF Once
  <2>3. Once(u)
    <3>1. ASSUME NEW i \in 1..m - n, NEW j \in 1..m - n, u[i] = u[j] PROVE i = j
      <4>1. n + i = n + j
        BY <1>3, <1>5, <2>1, <3>1
      <4> QED
        BY <1>1, <4>1
    <3> QED
      BY <1>3, <3>1 DEF Once
  <2>4. ASSUME NEW x \in Range(w), x \in Range(u) PROVE FALSE
    <3>1. PICK i \in 1..n : s[i] = x
      BY <1>2, <1>4
    <3>2. PICK j \in 1..m - n : s[n + j] = x
      BY <1>3, <1>4, <2>4
    <3>3. i = n + j
      BY <1>5, <2>1, <3>1, <3>2
    <3> QED
      BY <1>1, <3>3
  <2> QED
    BY <2>2, <2>3, <2>4
<1>8. ASSUME Sorted(s, R)
      PROVE  Sorted(w, R) /\ Sorted(u, R) /\ Below(Range(w), Range(u), R)
  <2>1. \A i, j \in 1..m : i < j => s[i] < s[j] \/ s[j] \in R
    BY <1>8 DEF Sorted, m
  <2>2. Sorted(w, R)
    BY <1>2, <1>5, <2>1 DEF Sorted
  <2>3. Sorted(u, R)
    <3>1. ASSUME NEW i \in 1..m - n, NEW j \in 1..m - n, i < j PROVE u[i] < u[j] \/ u[j] \in R
      <4>1. n + i < n + j
        BY <1>1, <3>1
      <4> QED
        BY <1>3, <1>5, <2>1, <4>1
    <3> QED
      BY <1>3, <3>1 DEF Sorted
  <2>4. ASSUME NEW a \in Range(w), NEW b \in Range(u) PROVE a < b \/ b \in R
    <3>1. PICK i \in 1..n : s[i] = a
      BY <1>2, <1>4
    <3>2. PICK j \in 1..m - n : s[n + j] = b
      BY <1>3, <1>4
    <3>3. i \in 1..m /\ n + j \in 1..m /\ i < n + j
      BY <1>1, <1>5
    <3> QED
      BY <2>1, <3>1, <3>2, <3>3
  <2> QED
    BY <2>2, <2>3, <2>4 DEF Below
<1> QED
  BY <1>2, <1>3, <1>6, <1>7, <1>8 DEF w, u, m

LEMMA ConcatList ==
    ASSUME NEW s \in Seq(Event), NEW t \in Seq(Event)
    PROVE  /\ s \o t \in Seq(Event) /\ Range(s \o t) = Range(s) \cup Range(t)
           /\ Once(s) /\ Once(t) /\ Range(s) \cap Range(t) = {} => Once(s \o t)
           /\ \A R : Sorted(s, R) /\ Sorted(t, R) /\ Below(Range(s), Range(t), R)
                    => Sorted(s \o t, R)
<1> DEFINE v == s \o t
           m == Len(s)
           n == Len(t)
<1>1. /\ v \in Seq(Event) /\ Len(v) = m + n /\ m \in Nat /\ n \in Nat
      /\ \A i \in 1..m + n : v[i] = IF i <= m THEN s[i] ELSE t[i - m]
  BY ConcatProperties, LenProperties
<1>2. Range(v) = Range(s) \cup Range(t)
  BY RangeConcatenation
<1> HIDE DEF v, m, n
<1>3. \A i \in 1..m + n : \/ i \in 1..m /\ v[i] = s[i]
                          \/ i > m /\ i - m \in 1..n /\ v[i] = t[i - m]
  BY <1>1
<1>4. /\ \A i \in 1..m : s[i] \in Range(s)
      /\ \A i \in 1..n : t[i] \in Range(t)
  BY InRange DEF m, n
<1>5. ASSUME Once(s), Once(t), Range(s) \cap Range(t) = {} PROVE Once(v)
  <2>1. ASSUME NEW i \in 1..m + n, NEW j \in 1..m + n, v[i] = v[j] PROVE i = j
    <3>1. CASE i \in 1..m /\ v[i] = s[i] /\ j \in 1..m /\ v[j] = s[j]
      BY <1>5, <2>1, <3>1 DEF Once, m
    <3>2. CASE i - m \in 1..n /\ v[i] = t[i - m] /\ j - m \in 1..n /\ v[j] = t[j - m]
      <4>1. i - m = j - m
        BY <1>5, <2>1, <3>2 DEF Once, n
      <4> QED
        BY <1>1, <4>1
    <3>3. CASE i \in 1..m /\ v[i] = s[i] /\ j - m \in 1..n /\ v[j] = t[j - m]
      BY <1>4, <1>5, <2>1, <3>3
    <3>4. CASE i - m \in 1..n /\ v[i] = t[i - m] /\ j \in 1..m /\ v[j] = s[j]
      BY <1>4, <1>5, <2>1, <3>4
    <3> QED
      BY <1>3, <3>1, <3>2, <3>3, <3>4
  <2> QED
    BY <1>1, <2>1 DEF Once
<1>6. ASSUME NEW R, Sorted(s, R), Sorted(t, R), Below(Range(s), Range(t), R) PROVE Sorted(v, R)
  <2>1. ASSUME NEW i \in 1..m + n, NEW j \in 1..m + n, i < j
        PROVE  v[i] < v[j] \/ v[j] \in R
    <3>1. CASE i \in 1..m /\ v[i] = s[i] /\ j \in 1..m /\ v[j] = s[j]
      BY <1>6, <2>1, <3>1 DEF Sorted, m
    <3>2. CASE i > m /\ i - m \in 1..n /\ v[i] = t[i - m] /\ j - m \in 1..n /\ v[j] = t[j - m]
      <4>1. i - m < j - m
        BY <1>1, <2>1
      <4> QED
        BY <1>6, <3>2, <4>1 DEF Sorted, n
    <3>3. CASE i \in 1..m /\ v[i] = s[i] /\ j - m \in 1..n /\ v[j] = t[j - m]
      BY <1>4, <1>6, <3>3 DEF Below
    <3>4. CASE i > m /\ j \in 1..m
      BY <1>1, <2>1, <3>4
    <3> QED
      BY <1>3, <3>1, <3>2, <3>3, <3>4
  <2> QED
    BY <1>1, <2>1 DEF Sorted
<1> QED
  BY <1>1, <1>2, <1>5, <1>6 DEF v

-----------------------------------------------------------------------------
(* The inductive invariant.                                                *)

(* Each vector of the task is in use at one point only; a log without a    *)
(* handle has no buffered lines.                                           *)
ControlInv ==
    /\ IsFiniteSet(open)
    /\ pc # "retry" => todo = <<>> /\ kept = <<>>
    /\ pc = "retry" => diskBuf = <<>> /\ Len(todo) + Len(kept) <= DiskBufCap
    /\ \A l \in Log \ open : buf[l] = <<>>

(* The channel holds the last events sent, in order. *)
QueueInv ==
    /\ Len(queue) <= Len(logOf)
    /\ \A i \in 1..Len(queue) : queue[i] = (Len(logOf) - Len(queue)) + i

Has(l) == snap[l] # None

(* Whatever is in a log, or in the copy of a running clean, was sent to    *)
(* it, and disk_buf holds only events that are marked as retried.          *)
HomeInv ==
    /\ \A l \in Log : \A e \in Range(file[l]) \cup Range(buf[l]) : e \in Sent /\ logOf[e] = l
    /\ \A l \in Log : Has(l) => \A e \in Range(snap[l]) : e \in Sent /\ logOf[e] = l
    /\ cur # 0 => cur \in Sent
    /\ lost \subseteq Sent
    /\ Range(todo) \cup Range(kept) \cup Range(diskBuf) \subseteq Sent \cap retried

(* How many of its places e is in.  Counting lost as a place makes the     *)
(* count one.                                                              *)
One(b) == IF b THEN 1 ELSE 0
Places(e) ==
    One(e \in Range(queue)) + One(e \in Range(todo)) + One(e \in Range(kept))
    + One(e \in Range(diskBuf)) + One(e \in Range(file[logOf[e]]))
    + One(e \in Range(buf[logOf[e]])) + One(e = cur) + One(e \in lost)
PlaceInv == \A e \in Sent : Places(e) = 1

(* No vector names an event twice, and the logs are in order. *)
LogOk(f, b, R) ==
    /\ Once(f) /\ Once(b) /\ Sorted(f, R) /\ Sorted(b, R) /\ Below(Range(f), Range(b), R)
SnapOk(s, b, R) ==
    /\ s \in Seq(Event) /\ Once(s) /\ Sorted(s, R) /\ Below(Range(s), Range(b), R)
OnceInv == Once(todo) /\ Once(kept) /\ Once(diskBuf)
LogsInv == \A l \in Log : LogOk(file[l], buf[l], retried)
SnapsInv ==
    \A l \in Log : Has(l) => /\ SnapOk(snap[l], buf[l], retried)
                             /\ Range(snap[l]) \subseteq Range(file[l]) \cup lost

(* The events after the one that is being written are in the channel, or   *)
(* were lost to it.                                                        *)
CurInv ==
    cur # 0 => /\ \A e \in Sent : e > cur => e \in Range(queue) \cup lost
               /\ \A l \in Log : Has(l) => \A e \in Range(snap[l]) : e < cur

IInv == /\ TypeOK /\ ControlInv /\ QueueInv /\ HomeInv /\ PlaceInv
        /\ OnceInv /\ LogsInv /\ SnapsInv /\ CurInv

-----------------------------------------------------------------------------
(* Types.                                                                  *)

TypeInv == TypeOK /\ ControlInv

LEMMA Bounds ==
    /\ MaxEvents \in Nat /\ RetryAfter \in Nat /\ MaxCleans \in Nat
    /\ ChanCap \in Nat \ {0} /\ DiskBufCap \in Nat \ {0} /\ MaxHandles \in Nat \ {0}
    /\ BufLines \in Nat \ {0}
BY WriterAssumption DEF WriterAssumption

LEMMA PartTypes ==
    ASSUME TypeOK, NEW l \in Log, NEW n \in 0..Len(buf[l])
    PROVE  /\ Written(l, n) \in Seq(Event) /\ Unwritten(l, n) \in Seq(Event)
           /\ Reaches(l, n) \in Seq(Event)
           /\ Misses(l, n) \subseteq Event /\ Range(Unwritten(l, n)) \subseteq Event
<1>1. buf[l] \in Seq(Event) /\ file[l] \in Seq(Event)
  BY DEF TypeOK
<1>2. Written(l, n) \in Seq(Event) /\ Unwritten(l, n) \in Seq(Event)
  BY <1>1, SplitList DEF Written, Unwritten
<1>3. Range(Written(l, n)) \subseteq Event /\ Range(Unwritten(l, n)) \subseteq Event
  BY <1>2, RangeOfSeq
<1>4. file[l] \o Written(l, n) \in Seq(Event)
  BY <1>1, <1>2, ConcatProperties
<1> QED
  BY <1>1, <1>2, <1>3, <1>4 DEF Reaches, Misses

(* The event that is being written or retried, and its log. *)
LEMMA TargetType ==
    ASSUME TypeOK, HomeInv, Busy
    PROVE  ToLog \in Event /\ ToLog \in Sent /\ Target \in Log
<1>1. Sent \subseteq Event /\ \A e \in Sent : logOf[e] \in Log
  BY Bounds, ElementOfSeq, LenProperties DEF TypeOK, Sent, Event
<1>2. CASE pc = "write"
  BY <1>1, <1>2 DEF TypeOK, HomeInv, ToLog, Target
<1>3. CASE pc = "retry" /\ todo # <<>>
  <2>1. Head(todo) \in Range(todo)
    <3>1. todo \in Seq(Event) /\ Len(todo) \in Nat \ {0} /\ Head(todo) = todo[1]
      BY <1>3, EmptySeq DEF TypeOK
    <3> QED
      BY <3>1, InRange
  <2>2. Head(todo) \in Sent
    BY <2>1 DEF HomeInv
  <2> QED
    BY <1>1, <1>3, <2>2 DEF ToLog, Target
<1> QED
  BY <1>2, <1>3 DEF Busy

LEMMA DropType ==
    ASSUME TypeInv, NEW l \in Log, DropHandle(l)
    PROVE  /\ open' \subseteq Log /\ Cardinality(open') <= MaxHandles /\ linked' \subseteq open'
           /\ buf' \in [Log -> Seq(Event)] /\ file' \in [Log -> Seq(Event)]
           /\ lost' \subseteq Event /\ IsFiniteSet(open')
           /\ \A k \in Log \ open' : buf'[k] = <<>>
<1>1. PICK n \in 0..Len(buf[l]) :
        /\ open' = open \ {l} /\ linked' = linked \ {l}
        /\ file' = [file EXCEPT ![l] = Reaches(l, n)]
        /\ buf' = [buf EXCEPT ![l] = <<>>]
        /\ lost' = lost \cup Misses(l, n) \cup Range(Unwritten(l, n))
  BY DEF DropHandle
<1>2. Reaches(l, n) \in Seq(Event) /\ Misses(l, n) \subseteq Event
      /\ Range(Unwritten(l, n)) \subseteq Event
  BY PartTypes DEF TypeInv
<1>3. IsFiniteSet(open') /\ Cardinality(open') <= Cardinality(open)
  BY <1>1, FS_Subset DEF TypeInv, ControlInv
<1>4. Cardinality(open') \in Nat /\ Cardinality(open) \in Nat
  BY <1>3, FS_CardinalityType DEF TypeInv, ControlInv
<1>5. Cardinality(open') <= MaxHandles
  BY <1>3, <1>4, Bounds DEF TypeInv, TypeOK
<1>6. <<>> \in Seq(Event)
  BY EmptySeq
<1>7. file' \in [Log -> Seq(Event)] /\ buf' \in [Log -> Seq(Event)]
  BY <1>1, <1>2, <1>6 DEF TypeInv, TypeOK
<1>8. \A k \in Log \ open' : buf'[k] = <<>>
  BY <1>1 DEF TypeInv, TypeOK, ControlInv
<1> QED
  BY <1>1, <1>2, <1>3, <1>5, <1>7, <1>8 DEF TypeInv, TypeOK

LEMMA TypeInit == Init => TypeInv
<1> SUFFICES ASSUME Init PROVE TypeInv
  OBVIOUS
<1>1. /\ <<>> \in Seq(Event) /\ <<>> \in Seq(Log) /\ Len(<<>>) = 0
      /\ None \in Seq(Event \cup {0})
  BY EmptySeq DEF None
<1>2. Cardinality(open) = 0 /\ IsFiniteSet(open)
  BY FS_EmptySet DEF Init
<1>3. TypeOK
  <2>1. /\ buf \in [Log -> Seq(Event)] /\ file \in [Log -> Seq(Event)]
        /\ snap \in [Log -> Seq(Event \cup {0})]
    BY <1>1 DEF Init
  <2>2. closed \in BOOLEAN /\ healthy \in BOOLEAN
    BY DEF Init
  <2> QED
    BY <1>1, <1>2, <2>1, <2>2, Bounds DEF Init, TypeOK
<1>4. ControlInv
  BY <1>2 DEF Init, ControlInv
<1> QED
  BY <1>3, <1>4 DEF TypeInv

(* The parts of the type that most steps leave alone. *)
OutType ==
    /\ dirty \subseteq Log
    /\ open \subseteq Log /\ Cardinality(open) <= MaxHandles /\ linked \subseteq open
    /\ buf \in [Log -> Seq(Event)] /\ file \in [Log -> Seq(Event)]
    /\ IsFiniteSet(open) /\ \A l \in Log \ open : buf[l] = <<>>

TaskType ==
    /\ pc \in {"recv", "retry", "write", "done"}
    /\ cur \in Event \cup {0} /\ (pc \in {"retry", "write"} <=> cur # 0)
    /\ todo \in Seq(Event) /\ kept \in Seq(Event)
    /\ diskBuf \in Seq(Event) /\ Len(diskBuf) <= DiskBufCap
    /\ pc # "retry" => todo = <<>> /\ kept = <<>>
    /\ pc = "retry" => diskBuf = <<>> /\ Len(todo) + Len(kept) <= DiskBufCap

ChanType ==
    /\ logOf \in Seq(Log) /\ Len(logOf) <= MaxEvents
    /\ queue \in Seq(Event) /\ Len(queue) <= ChanCap
    /\ closed \in BOOLEAN

TimeType == healthy \in BOOLEAN /\ since \in 0..RetryAfter

PastType ==
    /\ snap \in [Log -> Seq(Event \cup {0})] /\ cleans \in 0..MaxCleans
    /\ lost \subseteq Event /\ retried \subseteq Event

LEMMA TypeParts ==
    /\ TypeInv <=> OutType /\ TaskType /\ ChanType /\ TimeType /\ PastType
    /\ TypeInv' <=> OutType' /\ TaskType' /\ ChanType' /\ TimeType' /\ PastType'
BY DEF TypeInv, TypeOK, ControlInv, OutType, TaskType, ChanType, TimeType, PastType

LEMMA PartsKept ==
    /\ OutType /\ UNCHANGED outVars => OutType'
    /\ TaskType /\ UNCHANGED <<pc, cur, todo, kept, diskBuf>> => TaskType'
    /\ ChanType /\ UNCHANGED chanVars => ChanType'
    /\ TimeType /\ UNCHANGED <<healthy, since>> => TimeType'
    /\ PastType /\ UNCHANGED <<snap, cleans, lost, retried>> => PastType'
<1>1. OutType /\ UNCHANGED outVars => OutType'
  BY DEF OutType, outVars
<1>2. TaskType /\ UNCHANGED <<pc, cur, todo, kept, diskBuf>> => TaskType'
  BY DEF TaskType
<1>3. ChanType /\ UNCHANGED chanVars => ChanType'
  BY DEF ChanType, chanVars
<1>4. TimeType /\ UNCHANGED <<healthy, since>> => TimeType'
  BY DEF TimeType
<1>5. PastType /\ UNCHANGED <<snap, cleans, lost, retried>> => PastType'
  BY DEF PastType
<1> QED
  BY <1>1, <1>2, <1>3, <1>4, <1>5

LEMMA TypeChannel ==
    ASSUME TypeInv, Close \/ Tick \/ \E l \in Log : Send(l)
    PROVE  TypeInv'
<1>1. OutType' /\ TaskType'
  BY TypeParts, PartsKept DEF Close, Tick, Send, bufVars, outVars
<1>2. ChanType /\ TimeType /\ PastType
  BY TypeParts
<1>3. CASE Close
  <2>1. ChanType'
    BY <1>2, <1>3 DEF ChanType, Close
  <2>2. TimeType' /\ PastType'
    BY <1>2, <1>3, PartsKept DEF Close, bufVars, cleanVars
  <2> QED
    BY <1>1, <2>1, <2>2, TypeParts
<1>4. CASE Tick
  <2>1. ChanType' /\ PastType'
    BY <1>2, <1>4, PartsKept DEF Tick, cleanVars
  <2>2. healthy' \in BOOLEAN
    BY <1>2, <1>4 DEF TimeType, Tick
  <2>3. since' \in 0..RetryAfter
    BY <1>2, <1>4, Bounds DEF TimeType, Tick
  <2> QED
    BY <1>1, <2>1, <2>2, <2>3, TypeParts DEF TimeType
<1>5. CASE \E l \in Log : Send(l)
  <2>1. PICK l \in Log : Send(l)
    BY <1>5
  <2> DEFINE n == Len(logOf) + 1
             q == Append(queue, n)
  <2>2. n \in Event /\ Len(logOf) \in Nat
    BY <1>2, <2>1, Bounds, LenProperties DEF ChanType, Send, Event
  <2>3. logOf' \in Seq(Log) /\ Len(logOf') <= MaxEvents
    BY <1>2, <2>1, <2>2, Bounds, AppendProperties DEF ChanType, Send
  <2>4. q \in Seq(Event) /\ q # <<>> /\ Len(q) = Len(queue) + 1 /\ Len(queue) \in Nat
    BY <1>2, <2>2, AppendProperties, LenProperties DEF ChanType
  <2> HIDE DEF n, q
  <2>5. Head(q) \in Event /\ Tail(q) \in Seq(Event) /\ Len(Tail(q)) = Len(queue)
    BY <2>4, HeadTailProperties
  <2>6. \/ Len(queue) < ChanCap /\ queue' = q /\ lost' = lost
        \/ queue' = Tail(q) /\ lost' = lost \cup {Head(q)}
    BY <2>1 DEF Send, q, n
  <2>7. queue' \in Seq(Event) /\ Len(queue') <= ChanCap
    <3>1. CASE queue' = q /\ Len(queue) < ChanCap
      BY <2>4, <3>1, Bounds
    <3>2. CASE queue' = Tail(q)
      BY <1>2, <2>5, <3>2 DEF ChanType
    <3> QED
      BY <2>6, <3>1, <3>2
  <2>8. closed' \in BOOLEAN
    BY <1>2, <2>1 DEF ChanType, Send
  <2>9. TimeType'
    BY <1>2, <2>1, PartsKept DEF Send, bufVars
  <2>10. PastType'
    BY <1>2, <2>1, <2>5, <2>6 DEF PastType, Send, cleanVars
  <2> QED
    BY <1>1, <2>3, <2>7, <2>8, <2>9, <2>10, TypeParts DEF ChanType
<1> QED
  BY <1>3, <1>4, <1>5

LEMMA TypeRecv ==
    ASSUME TypeInv, Recv
    PROVE  TypeInv'
<1>1. OutType /\ TaskType /\ ChanType /\ TimeType /\ PastType
  BY TypeParts
<1>2. OutType' /\ PastType'
  BY <1>1, PartsKept DEF Recv, outVars, cleanVars
<1>3. queue \in Seq(Event) /\ queue # <<>> /\ Len(queue) \in Nat /\ Len(queue) <= ChanCap
  BY <1>1, LenProperties DEF ChanType, Recv
<1>4. Head(queue) \in Event /\ Tail(queue) \in Seq(Event) /\ Len(Tail(queue)) = Len(queue) - 1
  BY <1>3, HeadTailProperties
<1>5. Head(queue) # 0
  BY <1>4, Bounds DEF Event
<1>6. Len(Tail(queue)) <= ChanCap
  BY <1>3, <1>4, Bounds
<1>7. ChanType'
  BY <1>1, <1>4, <1>6 DEF ChanType, Recv
<1>8. TimeType'
  BY <1>1 DEF TimeType, Recv
<1>9. pc = "recv" /\ todo = <<>> /\ kept = <<>> /\ kept' = <<>>
  BY <1>1 DEF TaskType, Recv
<1>11. CASE pc' = "retry" /\ todo' = diskBuf /\ diskBuf' = <<>>
  <2>1. <<>> \in Seq(Event) /\ Len(<<>>) = 0 /\ Len(diskBuf) \in Nat
    BY <1>1, EmptySeq, LenProperties DEF TaskType
  <2>2. Len(todo') + Len(kept') <= DiskBufCap /\ Len(diskBuf') <= DiskBufCap
    BY <1>1, <1>9, <1>11, <2>1, Bounds DEF TaskType
  <2>3. cur' = Head(queue)
    BY DEF Recv
  <2>4. TaskType'
    BY <1>1, <1>4, <1>5, <1>9, <1>11, <2>1, <2>2, <2>3 DEF TaskType
  <2> QED
    BY <1>2, <1>7, <1>8, <2>4, TypeParts
<1>12. \/ pc' = "write" /\ todo' = todo /\ diskBuf' = diskBuf
       \/ pc' = "retry" /\ todo' = diskBuf /\ diskBuf' = <<>>
  BY DEF Recv
<1>13. CASE pc' = "write" /\ UNCHANGED <<todo, diskBuf>>
  <2>1. cur' = Head(queue)
    BY DEF Recv
  <2>2. TaskType'
    BY <1>1, <1>4, <1>5, <1>9, <1>13, <2>1 DEF TaskType
  <2> QED
    BY <1>2, <1>7, <1>8, <2>2, TypeParts
<1> QED
  BY <1>11, <1>12, <1>13

LEMMA TypeEvict ==
    ASSUME TypeInv, NEW l \in Log, Evict(l)
    PROVE  TypeInv'
<1>1. OutType /\ TaskType /\ ChanType /\ TimeType /\ PastType
  BY TypeParts
<1>2. TaskType' /\ ChanType' /\ TimeType'
  BY <1>1, PartsKept DEF Evict, bufVars
<1>3. DropHandle(l) /\ UNCHANGED <<dirty, snap, cleans, retried>>
  BY DEF Evict, cleanVars
<1>4. OutType' /\ PastType'
  BY <1>1, <1>3, DropType DEF OutType, PastType
<1> QED
  BY <1>2, <1>4, TypeParts

LEMMA TypeOpenLog ==
    ASSUME TypeInv, HomeInv, OpenLog
    PROVE  TypeInv'
<1>1. OutType /\ TaskType /\ ChanType /\ TimeType /\ PastType
  BY TypeParts
<1>2. TaskType' /\ ChanType' /\ TimeType' /\ PastType'
  BY <1>1, PartsKept DEF OpenLog, bufVars, cleanVars
<1>3. Target \in Log
  BY TargetType DEF OpenLog, TypeInv
<1>4. IsFiniteSet(open) /\ Cardinality(open) \in Nat
  BY <1>1, FS_CardinalityType DEF OutType
<1>5. /\ open' = open \cup {Target} /\ Target \notin open /\ linked' = linked \cup {Target}
      /\ Cardinality(open) < MaxHandles
      /\ UNCHANGED <<dirty, buf, file>>
  BY <1>4, Bounds DEF OpenLog, HandlesFull
<1>6. IsFiniteSet(open') /\ Cardinality(open') = Cardinality(open) + 1
  BY <1>4, <1>5, FS_AddElement
<1>7. Cardinality(open') <= MaxHandles
  BY <1>4, <1>5, <1>6, Bounds
<1>8. OutType'
  BY <1>1, <1>3, <1>5, <1>6, <1>7 DEF OutType
<1> QED
  BY <1>2, <1>8, TypeParts

(* One retry is over, and the event goes to remaining or not. *)
LEMMA RetryType ==
    ASSUME TypeInv, pc = "retry", todo # <<>>, todo' = Tail(todo),
           kept' \in {kept, Append(kept, Head(todo))}, UNCHANGED <<pc, cur, diskBuf>>
    PROVE  TaskType'
<1>1. TaskType
  BY TypeParts
<1>2. Len(todo) \in Nat /\ Len(kept) \in Nat /\ todo \in Seq(Event) /\ kept \in Seq(Event)
  BY <1>1, LenProperties DEF TaskType
<1>3. Tail(todo) \in Seq(Event) /\ Head(todo) \in Event /\ Len(Tail(todo)) = Len(todo) - 1
  BY <1>2, HeadTailProperties
<1>4. Append(kept, Head(todo)) \in Seq(Event) /\ Len(Append(kept, Head(todo))) = Len(kept) + 1
  BY <1>2, <1>3, AppendProperties
<1>5. kept' \in Seq(Event) /\ Len(todo') + Len(kept') <= DiskBufCap
  <2>1. CASE kept' = kept
    BY <1>1, <1>2, <1>3, <2>1, Bounds DEF TaskType
  <2>2. CASE kept' = Append(kept, Head(todo))
    BY <1>1, <1>2, <1>3, <1>4, <2>2, Bounds DEF TaskType
  <2> QED
    BY <2>1, <2>2
<1> QED
  BY <1>1, <1>3, <1>5 DEF TaskType

LEMMA WrittenType ==
    ASSUME TypeInv, pc = "write", pc' = "recv", cur' = 0, UNCHANGED <<todo, kept>>,
           diskBuf' \in Seq(Event), Len(diskBuf') <= DiskBufCap
    PROVE  TaskType'
<1>1. TaskType
  BY TypeParts
<1> QED
  BY <1>1 DEF TaskType

LEMMA TypeOpenFails ==
    ASSUME TypeInv, HomeInv, OpenFails
    PROVE  TypeInv'
<1>1. OutType /\ TaskType /\ ChanType /\ TimeType /\ PastType
  BY TypeParts
<1>2. OutType' /\ ChanType'
  BY <1>1, PartsKept DEF OpenFails
<1>3. UNCHANGED <<snap, cleans>> /\ Busy
  BY DEF OpenFails, cleanVars
<1>4. CASE pc = "write"
  <2>1. /\ BufferEvent /\ pc' = "recv" /\ cur' = 0 /\ UNCHANGED <<todo, kept>>
    BY <1>4 DEF OpenFails
  <2>2. cur \in Event
    BY <1>1, <1>4 DEF TaskType
  <2>2a. TimeType'
    <3>1. healthy' = FALSE /\ since' = 0
      BY <2>1 DEF BufferEvent
    <3>2. since' \in 0..RetryAfter
      BY <3>1, Bounds
    <3> QED
      BY <3>1, <3>2 DEF TimeType
  <2>3. /\ Append(diskBuf, cur) \in Seq(Event) /\ Len(diskBuf) \in Nat
        /\ Len(Append(diskBuf, cur)) = Len(diskBuf) + 1
    BY <1>1, <2>2, AppendProperties, LenProperties DEF TaskType
  <2>4. CASE /\ Len(diskBuf) < DiskBufCap /\ diskBuf' = Append(diskBuf, cur)
             /\ retried' = retried \cup {cur} /\ lost' = lost
    <3>1. diskBuf' \in Seq(Event) /\ Len(diskBuf') <= DiskBufCap
      BY <2>3, <2>4, Bounds
    <3>2. TaskType'
      BY <1>4, <2>1, <3>1, WrittenType
    <3>3. PastType'
      BY <1>1, <1>3, <2>2, <2>4 DEF PastType
    <3> QED
      BY <1>2, <2>2a, <3>2, <3>3, TypeParts
  <2>5. CASE diskBuf' = diskBuf /\ retried' = retried /\ lost' = lost \cup {cur}
    <3>1. TaskType'
      BY <1>1, <1>4, <2>1, <2>5, WrittenType DEF TaskType
    <3>2. PastType'
      BY <1>1, <1>3, <2>2, <2>5 DEF PastType
    <3> QED
      BY <1>2, <2>2a, <3>1, <3>2, TypeParts
  <2> QED
    BY <2>1, <2>4, <2>5 DEF BufferEvent
<1>5. CASE pc = "retry"
  <2>1. /\ todo # <<>> /\ kept' = Append(kept, Head(todo)) /\ todo' = Tail(todo)
        /\ UNCHANGED <<pc, cur, diskBuf, healthy, since, lost, retried>>
    BY <1>5 DEF OpenFails, Busy, bufVars
  <2>2. TaskType'
    BY <1>5, <2>1, RetryType
  <2>3. PastType' /\ TimeType'
    BY <1>1, <1>3, <2>1, PartsKept
  <2> QED
    BY <1>2, <2>2, <2>3, TypeParts
<1> QED
  BY <1>3, <1>4, <1>5 DEF Busy

LEMMA AppendType ==
    ASSUME TypeInv, NEW l \in open, NEW e \in Event, AppendLine(l, e),
           UNCHANGED <<open, linked>>, dirty' \subseteq Log
    PROVE  OutType' /\ lost' \subseteq Event
<1>1. OutType /\ PastType
  BY TypeParts
<1>2. l \in Log /\ buf[l] \in Seq(Event) /\ Len(buf[l]) \in Nat
  BY <1>1, LenProperties DEF OutType
<1>3. CASE buf' = [buf EXCEPT ![l] = Append(@, e)] /\ UNCHANGED <<file, lost>>
  <2>1. Append(buf[l], e) \in Seq(Event)
    BY <1>2, AppendProperties
  <2> QED
    BY <1>1, <1>2, <1>3, <2>1 DEF OutType, PastType
<1>4. CASE /\ buf' = [buf EXCEPT ![l] = <<e>>]
           /\ file' = [file EXCEPT ![l] = Reaches(l, Len(buf[l]))]
           /\ lost' = lost \cup Misses(l, Len(buf[l]))
  <2>1. <<e>> \in Seq(Event) /\ Len(buf[l]) \in 0..Len(buf[l])
    BY <1>2, OneLine
  <2>2. Reaches(l, Len(buf[l])) \in Seq(Event) /\ Misses(l, Len(buf[l])) \subseteq Event
    BY <1>2, <2>1, PartTypes DEF TypeInv
  <2> QED
    BY <1>1, <1>2, <1>4, <2>1, <2>2 DEF OutType, PastType
<1> QED
  BY <1>3, <1>4 DEF AppendLine

LEMMA TypeWriteLine ==
    ASSUME TypeInv, HomeInv, WriteLine
    PROVE  TypeInv'
<1>1. OutType /\ TaskType /\ ChanType /\ TimeType /\ PastType
  BY TypeParts
<1>2. ChanType' /\ Busy /\ Target \in open /\ UNCHANGED <<open, linked, snap, cleans, retried>>
  BY <1>1, PartsKept DEF WriteLine, cleanVars
<1>3. ToLog \in Event /\ Target \in Log
  BY <1>2, TargetType DEF TypeInv
<1>4. dirty' \subseteq Log
  BY <1>1, <1>3 DEF WriteLine, Advance, OutType
<1>5. OutType' /\ lost' \subseteq Event
  BY <1>2, <1>3, <1>4, AppendType DEF WriteLine
<1>6. PastType'
  BY <1>1, <1>2, <1>5 DEF PastType
<1>7. CASE pc = "write"
  <2>1. /\ pc' = "recv" /\ cur' = 0 /\ healthy' = TRUE
        /\ UNCHANGED <<todo, kept, diskBuf, since>>
    BY <1>7 DEF WriteLine, Advance
  <2>2. TaskType'
    BY <1>1, <1>7, <2>1, WrittenType DEF TaskType
  <2>3. TimeType'
    BY <1>1, <2>1 DEF TimeType
  <2> QED
    BY <1>2, <1>5, <1>6, <2>2, <2>3, TypeParts
<1>8. CASE pc = "retry"
  <2>1. todo # <<>> /\ todo' = Tail(todo) /\ UNCHANGED <<pc, cur, kept, diskBuf, healthy, since>>
    BY <1>2, <1>8 DEF WriteLine, Advance, bufVars, Busy
  <2>2. TaskType'
    BY <1>8, <2>1, RetryType
  <2>3. TimeType'
    BY <1>1, <2>1, PartsKept
  <2> QED
    BY <1>2, <1>5, <1>6, <2>2, <2>3, TypeParts
<1> QED
  BY <1>2, <1>7, <1>8 DEF Busy

LEMMA TypeWriteFails ==
    ASSUME TypeInv, HomeInv, WriteFails
    PROVE  TypeInv'
<1>1. OutType /\ TaskType /\ ChanType /\ TimeType /\ PastType
  BY TypeParts
<1>2. /\ ChanType' /\ TimeType' /\ Busy /\ Target \in open
      /\ UNCHANGED <<diskBuf, dirty, snap, cleans, retried>>
  BY <1>1, PartsKept DEF WriteFails, cleanVars, bufVars
<1>3. Target \in Log
  BY <1>2, TargetType DEF TypeInv
<1>4. CASE pc = "write"
  <2>1. PICK n \in 0..(Len(buf[Target]) - 1) :
          /\ file' = [file EXCEPT ![Target] = Reaches(Target, n)]
          /\ buf' = [buf EXCEPT ![Target] = Unwritten(Target, n)]
          /\ lost' = lost \cup Misses(Target, n) \cup {cur}
    BY <1>4 DEF WriteFails
  <2>2. pc' = "recv" /\ cur' = 0 /\ UNCHANGED <<todo, kept, open, linked>>
    BY <1>4 DEF WriteFails
  <2>3. n \in 0..Len(buf[Target])
    BY <1>1, <1>3, LenProperties DEF OutType
  <2>4. /\ Reaches(Target, n) \in Seq(Event) /\ Unwritten(Target, n) \in Seq(Event)
        /\ Misses(Target, n) \subseteq Event
    BY <1>3, <2>3, PartTypes DEF TypeInv
  <2>5. cur \in Event
    BY <1>1, <1>4 DEF TaskType
  <2>6. OutType'
    BY <1>1, <1>2, <1>3, <2>1, <2>2, <2>4 DEF OutType
  <2>7. PastType'
    BY <1>1, <1>2, <2>1, <2>4, <2>5 DEF PastType
  <2>8. TaskType'
    BY <1>1, <1>2, <1>4, <2>2, WrittenType DEF TaskType
  <2> QED
    BY <1>2, <2>6, <2>7, <2>8, TypeParts
<1>5. CASE pc = "retry"
  <2>1. /\ DropHandle(Target) /\ todo # <<>>
        /\ kept' = Append(kept, Head(todo)) /\ todo' = Tail(todo) /\ UNCHANGED <<pc, cur>>
    BY <1>2, <1>5 DEF WriteFails, Busy
  <2>2. TaskType'
    BY <1>2, <1>5, <2>1, RetryType
  <2>3. OutType' /\ PastType'
    BY <1>1, <1>2, <1>3, <2>1, DropType DEF OutType, PastType
  <2> QED
    BY <1>2, <2>2, <2>3, TypeParts
<1> QED
  BY <1>2, <1>4, <1>5 DEF Busy

LEMMA TypeRetried ==
    ASSUME TypeInv, Retried
    PROVE  TypeInv'
<1>1. OutType /\ TaskType /\ ChanType /\ TimeType /\ PastType
  BY TypeParts
<1>2. OutType' /\ ChanType' /\ PastType'
  BY <1>1, PartsKept DEF Retried, cleanVars
<1>3. /\ pc = "retry" /\ todo = <<>> /\ diskBuf' = kept /\ kept' = <<>> /\ pc' = "write"
      /\ since' = 0 /\ cur' = cur /\ todo' = todo /\ healthy' = (kept = <<>>)
  BY DEF Retried
<1>4. <<>> \in Seq(Event) /\ Len(<<>>) = 0 /\ Len(kept) \in Nat
  BY <1>1, EmptySeq, LenProperties DEF TaskType
<1>5. Len(diskBuf') <= DiskBufCap
  BY <1>1, <1>3, <1>4, Bounds DEF TaskType
<1>6. TaskType'
  BY <1>1, <1>3, <1>4, <1>5 DEF TaskType
<1>7. healthy' \in BOOLEAN
  BY <1>3
<1>8. since' \in 0..RetryAfter
  BY <1>3, Bounds
<1> QED
  BY <1>2, <1>6, <1>7, <1>8, TypeParts DEF TimeType

LEMMA TypeFlushSync ==
    ASSUME TypeInv, FlushSync
    PROVE  TypeInv'
<1>1. OutType /\ TaskType /\ ChanType /\ TimeType /\ PastType
  BY TypeParts
<1>2. TaskType' /\ ChanType' /\ TimeType'
  BY <1>1, PartsKept DEF FlushSync, bufVars
<1>3. PICK n \in [Flushed -> 0..BufLines] :
         /\ \A l \in Flushed : n[l] <= Len(buf[l])
         /\ file' = [l \in Log |-> IF l \in Flushed THEN Reaches(l, n[l]) ELSE file[l]]
         /\ buf' = [l \in Log |-> IF l \in Unlinked THEN <<>>
                                  ELSE IF l \in Flushed THEN Unwritten(l, n[l])
                                  ELSE buf[l]]
  BY DEF FlushSync
<1>4. ASSUME NEW l \in Flushed
      PROVE  /\ l \in Log /\ n[l] \in 0..Len(buf[l])
             /\ Reaches(l, n[l]) \in Seq(Event) /\ Unwritten(l, n[l]) \in Seq(Event)
  <2>1. l \in Log
    BY <1>1 DEF Flushed, OutType
  <2>2. Len(buf[l]) \in Nat
    BY <1>1, <2>1, LenProperties DEF OutType
  <2>3. n[l] \in 0..Len(buf[l])
    BY <1>3, <2>2, Bounds
  <2> QED
    BY <2>1, <2>3, PartTypes DEF TypeInv
<1>5. <<>> \in Seq(Event) /\ \A l \in Log : buf[l] \in Seq(Event) /\ file[l] \in Seq(Event)
  BY <1>1, EmptySeq DEF OutType
<1>6. file' \in [Log -> Seq(Event)] /\ buf' \in [Log -> Seq(Event)]
  BY <1>3, <1>4, <1>5
<1>7. /\ open' = open \ Unlinked /\ linked' = linked /\ dirty' = {}
      /\ lost' = lost \cup UNION {Range(buf[l]) : l \in Unlinked}
      /\ UNCHANGED <<snap, cleans, retried>>
  BY DEF FlushSync, cleanVars
<1>8. Unlinked \cap linked = {} /\ Unlinked \subseteq open /\ Flushed \subseteq open
  BY <1>1 DEF Unlinked, Flushed, OutType
<1>9. IsFiniteSet(open') /\ Cardinality(open') <= MaxHandles
  <2>1. IsFiniteSet(open') /\ Cardinality(open') <= Cardinality(open)
    BY <1>1, <1>7, FS_Subset DEF OutType
  <2>2. Cardinality(open') \in Nat /\ Cardinality(open) \in Nat
    BY <1>1, <2>1, FS_CardinalityType DEF OutType
  <2> QED
    BY <1>1, <2>1, <2>2, Bounds DEF OutType
<1>10. \A l \in Log \ open' : buf'[l] = <<>>
  BY <1>1, <1>3, <1>7, <1>8 DEF OutType
<1>11. OutType'
  BY <1>1, <1>6, <1>7, <1>8, <1>9, <1>10 DEF OutType
<1>12. \A l \in Log : Range(buf[l]) \subseteq Event
  BY <1>5, RangeOfSeq
<1>13. PastType'
  BY <1>1, <1>7, <1>8, <1>12 DEF PastType, OutType
<1> QED
  BY <1>2, <1>11, <1>13, TypeParts

LEMMA TypeFinish ==
    ASSUME TypeInv, Finish
    PROVE  TypeInv'
<1>1. OutType /\ TaskType /\ ChanType /\ TimeType /\ PastType
  BY TypeParts
<1>2. TimeType' /\ logOf' = logOf /\ closed' = closed /\ UNCHANGED <<snap, cleans, retried>>
  BY <1>1, PartsKept DEF Finish, cleanVars
<1>3. <<>> \in Seq(Event) /\ Len(<<>>) = 0
  BY EmptySeq
<1>4. ChanType'
  BY <1>1, <1>2, <1>3, Bounds DEF ChanType, Finish
<1>5. pc = "recv" /\ pc' = "done" /\ diskBuf' = <<>> /\ UNCHANGED <<cur, todo, kept>>
  BY DEF Finish
<1>6. TaskType'
  BY <1>1, <1>3, <1>5, Bounds DEF TaskType
<1>7. PICK n \in [open -> 0..BufLines] :
      /\ \A l \in open : n[l] <= Len(buf[l])
      /\ file' = [l \in Log |-> IF l \in open THEN Reaches(l, n[l]) ELSE file[l]]
      /\ lost' = lost \cup Range(queue) \cup Range(diskBuf)
                      \cup UNION {Misses(l, n[l]) \cup Range(Unwritten(l, n[l])) : l \in open}
      /\ buf' = [l \in Log |-> <<>>]
      /\ open' = {} /\ linked' = {} /\ dirty' = {}
  BY DEF Finish, CloseHandles
<1>8. ASSUME NEW l \in open
      PROVE  /\ l \in Log /\ n[l] \in 0..Len(buf[l]) /\ Reaches(l, n[l]) \in Seq(Event)
             /\ Misses(l, n[l]) \cup Range(Unwritten(l, n[l])) \subseteq Event
  <2>1. l \in Log
    BY <1>1 DEF OutType
  <2>2. Len(buf[l]) \in Nat
    BY <1>1, <2>1, LenProperties DEF OutType
  <2>3. n[l] \in 0..Len(buf[l])
    BY <1>7, <2>2, Bounds
  <2> QED
    BY <2>1, <2>3, PartTypes DEF TypeInv
<1>9. file' \in [Log -> Seq(Event)]
  BY <1>1, <1>7, <1>8 DEF OutType
<1>10. Cardinality(open') = 0 /\ IsFiniteSet(open')
  BY <1>7, FS_EmptySet
<1>11. OutType'
  BY <1>3, <1>7, <1>9, <1>10, Bounds DEF OutType
<1>12. Range(queue) \subseteq Event /\ Range(diskBuf) \subseteq Event
  BY <1>1, RangeOfSeq DEF ChanType, TaskType
<1>13. PastType'
  BY <1>1, <1>2, <1>7, <1>8, <1>12 DEF PastType
<1> QED
  BY <1>2, <1>4, <1>6, <1>11, <1>13, TypeParts

LEMMA TypeDeleteLog ==
    ASSUME TypeInv, NEW l \in Log, DeleteLog(l)
    PROVE  TypeInv'
<1>1. OutType /\ TaskType /\ ChanType /\ TimeType /\ PastType
  BY TypeParts
<1>2. TaskType' /\ ChanType' /\ TimeType'
  BY <1>1, PartsKept DEF DeleteLog, bufVars
<1>3. <<>> \in Seq(Event) /\ Range(file[l]) \subseteq Event
  BY <1>1, EmptySeq, RangeOfSeq DEF OutType
<1>4. /\ file' = [file EXCEPT ![l] = <<>>] /\ linked' = linked \ {l}
      /\ lost' = lost \cup Range(file[l])
      /\ UNCHANGED <<dirty, open, buf, snap, cleans, retried>>
  BY DEF DeleteLog, cleanVars
<1>5. OutType'
  BY <1>1, <1>3, <1>4 DEF OutType
<1>6. PastType'
  BY <1>1, <1>3, <1>4 DEF PastType
<1> QED
  BY <1>2, <1>5, <1>6, TypeParts

(* A clean keeps some of the lines, in order. *)
LEMMA PickList ==
    ASSUME NEW S, NEW s \in Seq(S), NEW n \in Nat, NEW at \in [1..n -> 1..Len(s)],
           \A i, j \in 1..n : i < j => at[i] < at[j], NEW R
    PROVE  LET t == [i \in 1..n |-> s[at[i]]]
           IN  /\ t \in Seq(S) /\ Range(t) \subseteq Range(s)
               /\ Once(s) => Once(t)
               /\ Sorted(s, R) => Sorted(t, R)
<1> DEFINE t == [i \in 1..n |-> s[at[i]]]
<1>1. \A i \in 1..n : s[at[i]] \in S
  BY ElementOfSeq
<1>2. t \in [1..n -> S]
  BY <1>1
<1>3. t \in Seq(S)
  BY <1>2, SeqDef
<1>4. DOMAIN t = 1..n /\ \A i \in 1..n : t[i] = s[at[i]]
  OBVIOUS
<1> HIDE DEF t
<1>5. 1..Len(t) = 1..n
  BY <1>3, <1>4, LenProperties
<1>6. \A i \in 1..n : t[i] \in Range(s)
  BY <1>4, InRange
<1>7. Range(t) \subseteq Range(s)
  <2>1. \A x : x \in Range(t) <=> \E i \in 1..n : t[i] = x
    BY <1>3, <1>5, InRange
  <2> QED
    BY <1>6, <2>1
<1>8. \A i, j \in 1..n : at[i] = at[j] => i = j
  <2>1. Len(s) \in Nat
    BY LenProperties
  <2>2. \A i \in 1..n : at[i] \in Nat
    BY <2>1
  <2>3. \A i, j \in 1..n : i = j \/ i < j \/ j < i
    OBVIOUS
  <2> QED
    BY <2>2, <2>3
<1>9. Once(s) => Once(t)
  BY <1>4, <1>5, <1>8 DEF Once
<1>10. Sorted(s, R) => Sorted(t, R)
  BY <1>4, <1>5 DEF Sorted
<1> QED
  BY <1>3, <1>7, <1>9, <1>10 DEF t

LEMMA CleanList ==
    ASSUME TypeInv, NEW l \in Log, CleanReads(l)
    PROVE  \E t \in Seq(Event) :
             /\ snap' = [snap EXCEPT ![l] = t] /\ Range(t) \subseteq Range(file[l])
             /\ Once(file[l]) => Once(t)
             /\ Sorted(file[l], retried) => Sorted(t, retried)
<1>1. PICK n \in 0..Len(file[l]) : \E at \in [1..n -> DOMAIN file[l]] :
         /\ \A i, j \in 1..n : i < j => at[i] < at[j]
         /\ snap' = [snap EXCEPT ![l] = [i \in 1..n |-> file[l][at[i]]]]
  BY DEF CleanReads
<1>2. PICK at \in [1..n -> DOMAIN file[l]] :
         /\ \A i, j \in 1..n : i < j => at[i] < at[j]
         /\ snap' = [snap EXCEPT ![l] = [i \in 1..n |-> file[l][at[i]]]]
  BY <1>1
<1>3. file[l] \in Seq(Event) /\ DOMAIN file[l] = 1..Len(file[l]) /\ n \in Nat
  BY LenProperties DEF TypeInv, TypeOK
<1> DEFINE t == [i \in 1..n |-> file[l][at[i]]]
<1>4. at \in [1..n -> 1..Len(file[l])]
  BY <1>3
<1>5. /\ t \in Seq(Event) /\ Range(t) \subseteq Range(file[l])
      /\ Once(file[l]) => Once(t)
      /\ Sorted(file[l], retried) => Sorted(t, retried)
  BY <1>2, <1>3, <1>4, PickList
<1>6. snap' = [snap EXCEPT ![l] = t]
  BY <1>2
<1> HIDE DEF t
<1> QED
  BY <1>5, <1>6

LEMMA TypeClean ==
    ASSUME TypeInv, SnapsInv, NEW l \in Log, CleanReads(l) \/ CleanRenames(l)
    PROVE  TypeInv'
<1>1. OutType /\ TaskType /\ ChanType /\ TimeType /\ PastType
  BY TypeParts
<1>2. TaskType' /\ ChanType' /\ TimeType'
  BY <1>1, PartsKept DEF CleanReads, CleanRenames, bufVars
<1>3. CASE CleanReads(l)
  <2>1. PICK t \in Seq(Event) : snap' = [snap EXCEPT ![l] = t]
    BY <1>3, CleanList
  <2>2. t \in Seq(Event \cup {0})
    BY <2>1, SeqMonotonic
  <2>3. cleans' \in 0..MaxCleans
    BY <1>1, <1>3, Bounds DEF CleanReads, PastType
  <2>4. PastType'
    BY <1>1, <1>3, <2>1, <2>2, <2>3 DEF PastType, CleanReads
  <2>5. OutType'
    BY <1>1, <1>3, PartsKept DEF CleanReads
  <2> QED
    BY <1>2, <2>4, <2>5, TypeParts
<1>4. CASE CleanRenames(l)
  <2>1. PICK new \in {snap[l], file[l]} :
         /\ file' = [file EXCEPT ![l] = new] /\ linked' = linked \ {l}
         /\ lost' = (lost \cup Range(file[l])) \ Range(new)
    BY <1>4 DEF CleanRenames
  <2>2. /\ snap' = [snap EXCEPT ![l] = None] /\ snap[l] # None
        /\ UNCHANGED <<dirty, open, buf, cleans, retried>>
    BY <1>4 DEF CleanRenames
  <2>3. file[l] \in Seq(Event) /\ snap[l] \in Seq(Event)
    BY <1>1, <2>2 DEF OutType, SnapsInv, SnapOk, Has
  <2>4. None \in Seq(Event \cup {0}) /\ Range(file[l]) \subseteq Event
    BY <2>3, RangeOfSeq DEF None
  <2>5. OutType'
    BY <1>1, <2>1, <2>2, <2>3 DEF OutType
  <2>6. PastType'
    BY <1>1, <2>1, <2>2, <2>4 DEF PastType
  <2> QED
    BY <1>2, <2>5, <2>6, TypeParts
<1> QED
  BY <1>3, <1>4

LEMMA TypeNext ==
    ASSUME TypeInv, HomeInv, SnapsInv, [Next]_vars
    PROVE  TypeInv'
<1>1. CASE UNCHANGED vars
  BY <1>1 DEF vars, TypeInv, TypeOK, ControlInv
<1>2. CASE WriterStep
  BY <1>2, TypeEvict, TypeRecv, TypeOpenLog, TypeOpenFails, TypeWriteLine, TypeWriteFails,
     TypeRetried, TypeFinish DEF WriterStep
<1>3. CASE Next
  BY <1>2, <1>3, TypeFlushSync, TypeChannel, TypeDeleteLog, TypeClean DEF Next
<1> QED
  BY <1>1, <1>3

-----------------------------------------------------------------------------
(* Where the events are.                                                   *)

LEMMA SentFacts ==
    ASSUME TypeOK
    PROVE  /\ Sent \subseteq Event /\ Len(logOf) \in Nat /\ Len(queue) \in Nat
           /\ \A e \in Sent : e \in Nat /\ e # 0 /\ logOf[e] \in Log
BY Bounds, ElementOfSeq, LenProperties DEF TypeOK, Sent, Event

LEMMA QueueRange ==
    ASSUME TypeOK, QueueInv
    PROVE  /\ Range(queue) \subseteq Sent /\ Once(queue)
           /\ \A e \in Sent : e \in Range(queue) <=> e > Len(logOf) - Len(queue)
<1> DEFINE n == Len(logOf)
           m == Len(queue)
<1>1. n \in Nat /\ m \in Nat /\ m <= n /\ \A i \in 1..m : queue[i] = (n - m) + i
  BY SentFacts DEF QueueInv
<1>2. \A x : x \in Range(queue) <=> \E i \in 1..m : queue[i] = x
  BY InRange DEF TypeOK
<1>3. Sent = 1..n
  BY DEF Sent
<1> HIDE DEF n, m
<1>4. \A i \in 1..m : queue[i] \in 1..n /\ queue[i] > n - m
  BY <1>1
<1>5. \A e \in 1..n : e > n - m => e - (n - m) \in 1..m /\ (n - m) + (e - (n - m)) = e
  BY <1>1
<1>6. \A e \in 1..n : e > n - m => queue[e - (n - m)] = e
  BY <1>1, <1>5
<1>7. Once(queue)
  BY <1>1 DEF Once, m
<1>8. Range(queue) \subseteq Sent
  BY <1>2, <1>3, <1>4
<1>9. \A e \in Sent : e \in Range(queue) <=> e > n - m
  BY <1>2, <1>3, <1>4, <1>5, <1>6
<1> QED
  BY <1>7, <1>8, <1>9 DEF n, m

(* An event is in no two places. *)
LEMMA Elsewhere ==
    ASSUME PlaceInv, NEW e \in Sent
    PROVE  LET l == logOf[e]
               waits == e \in Range(todo) \/ e \in Range(kept) \/ e \in Range(diskBuf)
           IN  /\ e \in Range(queue) => ~waits /\ e \notin Range(file[l]) /\ e \notin Range(buf[l])
                                        /\ e # cur /\ e \notin lost
               /\ e \in Range(todo) => /\ e \notin Range(kept) /\ e \notin Range(diskBuf)
               /\ e \in Range(kept) => e \notin Range(diskBuf)
               /\ waits => /\ e \notin Range(file[l]) /\ e \notin Range(buf[l])
                           /\ e # cur /\ e \notin lost
               /\ e \in Range(file[l]) => e \notin Range(buf[l]) /\ e # cur /\ e \notin lost
               /\ e \in Range(buf[l]) => e # cur /\ e \notin lost
               /\ e = cur => e \notin lost
BY DEF PlaceInv, Places, One

(* One log's lines move from its buffer on, or are gone. *)
Shifted(f, b, f2, b2, gone, R) ==
    /\ LogOk(f2, b2, R)
    /\ Range(f) \subseteq Range(f2) /\ Range(b2) \subseteq Range(b) /\ gone \subseteq Range(b)
    /\ Range(f2) \cup Range(b2) \cup gone = Range(f) \cup Range(b)
    /\ Range(f2) \cap Range(b2) = {} /\ gone \cap Range(f2) = {} /\ gone \cap Range(b2) = {}

LEMMA ShiftNone ==
    ASSUME NEW f, NEW b, NEW R, LogOk(f, b, R), Range(f) \cap Range(b) = {}
    PROVE  Shifted(f, b, f, b, {}, R)
BY DEF Shifted

LEMMA ShiftSome ==
    ASSUME NEW f \in Seq(Event), NEW b \in Seq(Event), NEW R,
           LogOk(f, b, R), Range(f) \cap Range(b) = {}, NEW n \in 0..Len(b)
    PROVE  LET w == SubSeq(b, 1, n)
               u == SubSeq(b, n + 1, Len(b))
           IN  /\ Shifted(f, b, f \o w, u, {}, R)
               /\ Shifted(f, b, f, u, Range(w), R)
               /\ Shifted(f, b, f \o w, <<>>, Range(u), R)
               /\ Shifted(f, b, f, <<>>, Range(w) \cup Range(u), R)
<1> DEFINE w == SubSeq(b, 1, n)
           u == SubSeq(b, n + 1, Len(b))
<1>1. /\ Once(f) /\ Once(b) /\ Sorted(f, R) /\ Sorted(b, R) /\ Below(Range(f), Range(b), R)
  BY DEF LogOk
<1>2. /\ w \in Seq(Event) /\ u \in Seq(Event) /\ Range(w) \cup Range(u) = Range(b)
      /\ Once(w) /\ Once(u) /\ Range(w) \cap Range(u) = {}
      /\ Sorted(w, R) /\ Sorted(u, R) /\ Below(Range(w), Range(u), R)
  BY <1>1, SplitList
<1> HIDE DEF w, u
<1>3. Below(Range(f), Range(w), R) /\ Below(Range(f), Range(u), R)
  BY <1>1, <1>2 DEF Below
<1>4. /\ Range(f \o w) = Range(f) \cup Range(w) /\ Once(f \o w) /\ Sorted(f \o w, R)
  BY <1>1, <1>2, <1>3, ConcatList
<1>5. Below(Range(f \o w), Range(u), R)
  BY <1>2, <1>3, <1>4 DEF Below
<1>6. Range(<<>>) = {} /\ Once(<<>>) /\ Sorted(<<>>, R)
  BY EmptyList
<1>7. \A A : Below(A, Range(<<>>), R)
  BY <1>6 DEF Below
<1>8. /\ LogOk(f \o w, u, R) /\ LogOk(f, u, R) /\ LogOk(f \o w, <<>>, R) /\ LogOk(f, <<>>, R)
  BY <1>1, <1>2, <1>3, <1>4, <1>5, <1>6, <1>7 DEF LogOk
<1>9. Shifted(f, b, f \o w, u, {}, R)
  BY <1>2, <1>4, <1>8 DEF Shifted
<1>10. Shifted(f, b, f, u, Range(w), R)
  BY <1>2, <1>8 DEF Shifted
<1>11. Shifted(f, b, f \o w, <<>>, Range(u), R)
  BY <1>2, <1>4, <1>6, <1>8 DEF Shifted
<1>12. Shifted(f, b, f, <<>>, Range(w) \cup Range(u), R)
  BY <1>2, <1>6, <1>8 DEF Shifted
<1> QED
  BY <1>9, <1>10, <1>11, <1>12 DEF w, u

LEMMA FileApart ==
    ASSUME PlaceInv, HomeInv
    PROVE  \A l \in Log : Range(file[l]) \cap Range(buf[l]) = {}
<1> SUFFICES ASSUME NEW l \in Log, NEW e \in Range(file[l]), e \in Range(buf[l]) PROVE FALSE
  OBVIOUS
<1>1. e \in Sent /\ logOf[e] = l
  BY DEF HomeInv
<1> QED
  BY <1>1, Elsewhere

(* All logs at once: file and buf become f2 and b2, and gone[l] is what l  *)
(* loses.                                                                  *)
Shift(f2, b2, gone) ==
    \A l \in Log : Shifted(file[l], buf[l], f2[l], b2[l], gone[l], retried)

LEMMA ShiftPlaces ==
    ASSUME TypeOK, HomeInv, PlaceInv, NEW f2, NEW b2, NEW gone, Shift(f2, b2, gone),
           NEW e \in Sent
    PROVE  LET l  == logOf[e]
               l2 == lost \cup UNION {gone[k] : k \in Log}
           IN  One(e \in Range(f2[l])) + One(e \in Range(b2[l])) + One(e \in l2)
               = One(e \in Range(file[l])) + One(e \in Range(buf[l])) + One(e \in lost)
<1> DEFINE l == logOf[e]
           l2 == lost \cup UNION {gone[k] : k \in Log}
<1>1. l \in Log
  BY SentFacts
<1>2. Shifted(file[l], buf[l], f2[l], b2[l], gone[l], retried)
  BY <1>1 DEF Shift
<1>3. e \in l2 <=> e \in lost \/ e \in gone[l]
  <2>1. ASSUME NEW k \in Log, e \in gone[k] PROVE k = l
    <3>1. e \in Range(buf[k])
      BY <2>1 DEF Shift, Shifted
    <3> QED
      BY <3>1 DEF HomeInv
  <2> QED
    BY <1>1, <2>1
<1>4. /\ e \in Range(file[l]) => e \notin Range(buf[l]) /\ e \notin lost
      /\ e \in Range(buf[l]) => e \notin lost
  BY Elsewhere
<1> HIDE DEF l, l2
<1>5. /\ e \in Range(file[l]) => e \in Range(f2[l])
      /\ e \in Range(b2[l]) \/ e \in gone[l] => e \in Range(buf[l])
      /\ e \in Range(f2[l]) \/ e \in Range(b2[l]) \/ e \in gone[l]
           <=> e \in Range(file[l]) \/ e \in Range(buf[l])
      /\ ~(e \in Range(f2[l]) /\ e \in Range(b2[l]))
      /\ ~(e \in gone[l] /\ e \in Range(f2[l])) /\ ~(e \in gone[l] /\ e \in Range(b2[l]))
  BY <1>2 DEF Shifted
<1>6. One(e \in Range(f2[l])) + One(e \in Range(b2[l])) + One(e \in l2)
      = One(e \in Range(file[l])) + One(e \in Range(buf[l])) + One(e \in lost)
  BY <1>3, <1>4, <1>5 DEF One
<1> QED
  BY <1>6 DEF l, l2

LogHome ==
    \A l \in Log : \A e \in Range(file[l]) \cup Range(buf[l]) : e \in Sent /\ logOf[e] = l
SnapHome ==
    \A l \in Log : Has(l) => \A e \in Range(snap[l]) : e \in Sent /\ logOf[e] = l
ListHome ==
    /\ cur # 0 => cur \in Sent
    /\ lost \subseteq Sent
    /\ Range(todo) \cup Range(kept) \cup Range(diskBuf) \subseteq Sent \cap retried

LEMMA HomeParts ==
    /\ HomeInv <=> LogHome /\ SnapHome /\ ListHome
    /\ HomeInv' <=> LogHome' /\ SnapHome' /\ ListHome'
BY DEF HomeInv, LogHome, SnapHome, ListHome

LEMMA LogOkMore ==
    ASSUME NEW f, NEW b, NEW s, NEW R, NEW R2, R \subseteq R2
    PROVE  /\ LogOk(f, b, R) => LogOk(f, b, R2)
           /\ SnapOk(s, b, R) => SnapOk(s, b, R2)
BY DEF LogOk, SnapOk, Sorted, Below

NoneGone == [l \in Log |-> {}]

LEMMA ShiftNothing ==
    ASSUME IInv
    PROVE  Shift(file, buf, NoneGone) /\ UNION {NoneGone[k] : k \in Log} = {}
<1>1. \A l \in Log : Range(file[l]) \cap Range(buf[l]) = {} /\ LogOk(file[l], buf[l], retried)
  BY FileApart DEF IInv, LogsInv
<1>2. \A l \in Log : NoneGone[l] = {}
  BY DEF NoneGone
<1> QED
  BY <1>1, <1>2, ShiftNone DEF Shift

(* The logs after a step that only moves lines on. *)
LEMMA ShiftKeeps ==
    ASSUME IInv, NEW b2, NEW gone, Shift(file', b2, gone),
           UNCHANGED <<logOf, snap>>, retried \subseteq retried', lost \subseteq lost'
    PROVE  /\ \A l \in Log : LogOk(file'[l], b2[l], retried')
           /\ \A l \in Log : \A e \in Range(file'[l]) \cup Range(b2[l]) :
                e \in Sent' /\ logOf'[e] = l
           /\ SnapHome'
           /\ \A l \in Log : Has(l)' => /\ SnapOk(snap'[l], b2[l], retried')
                                        /\ Range(snap'[l]) \subseteq Range(file'[l]) \cup lost'
<1>1. \A l \in Log : Shifted(file[l], buf[l], file'[l], b2[l], gone[l], retried)
  BY DEF Shift
<1>2. \A l \in Log : LogOk(file'[l], b2[l], retried')
  BY <1>1, LogOkMore DEF Shifted
<1>3. \A l \in Log : /\ Range(file'[l]) \cup Range(b2[l]) \subseteq Range(file[l]) \cup Range(buf[l])
                     /\ Range(file[l]) \subseteq Range(file'[l])
                     /\ Range(b2[l]) \subseteq Range(buf[l])
  BY <1>1 DEF Shifted
<1>4. Sent' = Sent
  BY DEF Sent
<1>5. \A l \in Log : \A e \in Range(file'[l]) \cup Range(b2[l]) : e \in Sent' /\ logOf'[e] = l
  BY <1>3, <1>4 DEF IInv, HomeInv
<1>6. SnapHome' /\ \A l \in Log : Has(l)' <=> Has(l)
  BY <1>4 DEF IInv, HomeInv, SnapHome, Has
<1>7. ASSUME NEW l \in Log, Has(l)
      PROVE  /\ SnapOk(snap[l], b2[l], retried')
             /\ Range(snap[l]) \subseteq Range(file'[l]) \cup lost'
  <2>1. SnapOk(snap[l], buf[l], retried) /\ Range(snap[l]) \subseteq Range(file[l]) \cup lost
    BY <1>7 DEF IInv, SnapsInv
  <2>2. SnapOk(snap[l], b2[l], retried)
    BY <1>3, <2>1 DEF SnapOk, Below
  <2>3. SnapOk(snap[l], b2[l], retried')
    BY <2>2, LogOkMore
  <2> QED
    BY <1>3, <2>1, <2>3
<1> QED
  BY <1>2, <1>5, <1>6, <1>7

LEMMA ShiftAll ==
    ASSUME IInv, NEW gone, Shift(file', buf', gone),
           UNCHANGED <<logOf, snap>>, retried \subseteq retried', lost \subseteq lost'
    PROVE  LogsInv' /\ LogHome' /\ SnapHome' /\ SnapsInv'
BY ShiftKeeps DEF LogsInv, LogHome, SnapsInv

LEMMA CurKept ==
    ASSUME IInv, UNCHANGED <<logOf, snap>>, cur' \in {cur, 0},
           Range(queue) \cup lost \subseteq Range(queue') \cup lost'
    PROVE  CurInv'
<1>1. Sent' = Sent /\ \A l \in Log : Has(l)' <=> Has(l)
  BY DEF Sent, Has
<1> QED
  BY <1>1 DEF IInv, CurInv

(* Steps that leave the logs, the channel's order and the lists' own       *)
(* properties alone. *)
LEMMA StillAll ==
    ASSUME IInv, UNCHANGED <<logOf, snap, file, buf>>, retried \subseteq retried', lost \subseteq lost'
    PROVE  LogsInv' /\ LogHome' /\ SnapHome' /\ SnapsInv'
<1>1. Shift(file', buf', NoneGone)
  BY ShiftNothing
<1> QED
  BY <1>1, ShiftAll

LEMMA InvInit == Init => IInv
<1> SUFFICES ASSUME Init PROVE IInv
  OBVIOUS
<1>1. TypeOK /\ ControlInv
  BY TypeInit DEF TypeInv
<1>2. /\ Range(<<>>) = {} /\ Once(<<>>) /\ \A R : Sorted(<<>>, R)
      /\ Len(<<>>) = 0
  BY EmptyList
<1>3. \A A, R : Below(A, {}, R)
  BY DEF Below
<1>4. Sent = {}
  BY <1>2 DEF Init, Sent
<1>5. QueueInv
  BY <1>2 DEF Init, QueueInv
<1>6. \A l \in Log : file[l] = <<>> /\ buf[l] = <<>> /\ ~Has(l)
  BY DEF Init, Has
<1>7. HomeInv
  BY <1>2, <1>6 DEF Init, HomeInv
<1>8. LogsInv
  BY <1>2, <1>3, <1>6 DEF LogsInv, LogOk
<1>9. OnceInv /\ PlaceInv /\ CurInv /\ SnapsInv
  BY <1>2, <1>4, <1>6 DEF Init, OnceInv, PlaceInv, CurInv, SnapsInv
<1> QED
  BY <1>1, <1>5, <1>7, <1>8, <1>9 DEF IInv

(* The timer, the end of the stream and opening a log. *)
LEMMA InvQuiet ==
    ASSUME IInv, TypeInv',
           UNCHANGED <<logOf, queue, cur, todo, kept, diskBuf, buf, file, snap, lost, retried>>
    PROVE  IInv'
<1>1. LogsInv' /\ LogHome' /\ SnapHome' /\ SnapsInv'
  BY StillAll
<1>2. Sent' = Sent
  BY DEF Sent
<1>3. QueueInv' /\ OnceInv' /\ CurInv'
  BY CurKept DEF IInv, QueueInv, OnceInv
<1>4. ListHome' /\ PlaceInv'
  BY <1>2 DEF IInv, HomeInv, ListHome, PlaceInv, Places
<1> QED
  BY <1>1, <1>3, <1>4, HomeParts DEF IInv, TypeInv

LEMMA InvSend ==
    ASSUME IInv, TypeInv', NEW l \in Log, Send(l)
    PROVE  IInv'
<1> DEFINE n == Len(logOf)
           m == Len(queue)
           q == Append(queue, n + 1)
<1>1. /\ TypeOK /\ QueueInv /\ n \in Nat /\ m \in Nat /\ m <= n /\ queue \in Seq(Event)
      /\ logOf \in Seq(Log)
  BY SentFacts DEF IInv, QueueInv, TypeOK
<1>2. /\ logOf' = Append(logOf, l)
      /\ UNCHANGED <<cur, todo, kept, diskBuf, buf, file, snap, retried>>
  BY DEF Send, bufVars, outVars, cleanVars
<1>3. n + 1 \in Event
  BY <1>1, Bounds DEF Send, Event
<1>4. /\ Len(logOf') = n + 1 /\ \A e \in Sent : logOf'[e] = logOf[e]
  BY <1>1, <1>2, AppendProperties DEF Sent
<1>5. Sent' = Sent \cup {n + 1} /\ n + 1 \notin Sent
  BY <1>1, <1>4 DEF Sent
<1>6. /\ q \in Seq(Event) /\ Len(q) = m + 1 /\ q # <<>> /\ \A i \in 1..m : q[i] = queue[i]
      /\ q[m + 1] = n + 1 /\ Range(q) = Range(queue) \cup {n + 1}
  <2>1. /\ q \in Seq(Event) /\ Len(q) = m + 1 /\ \A i \in 1..m : q[i] = queue[i]
        /\ q[m + 1] = n + 1
    BY <1>1, <1>3, AppendProperties
  <2>2. Range(q) = Range(queue) \cup {n + 1}
    BY <1>1, <1>3, AppendList
  <2>3. q # <<>>
    BY <1>1, <2>1, EmptySeq
  <2> QED
    BY <2>1, <2>2, <2>3
<1>7. \A i \in 1..m + 1 : q[i] = (n - m) + i
  BY <1>1, <1>6 DEF QueueInv
<1> HIDE DEF n, m, q
<1>8. Once(q)
  BY <1>1, <1>6, <1>7 DEF Once
<1>9. /\ Tail(q) \in Seq(Event) /\ Len(Tail(q)) = m /\ \A i \in 1..m : Tail(q)[i] = q[i + 1]
      /\ Head(q) = q[1] /\ Head(q) \in Range(q) /\ Range(Tail(q)) = Range(q) \ {Head(q)}
  BY <1>1, <1>6, <1>8, HeadTailProperties, TailList
<1>10. \/ queue' = q /\ lost' = lost
       \/ queue' = Tail(q) /\ lost' = lost \cup {Head(q)} /\ m > 0
  BY <1>1, Bounds DEF Send, q, n, m
<1>11. QueueInv'
  <2>1. CASE queue' = q
    <3>1. Len(queue') = m + 1 /\ Len(logOf') = n + 1 /\ (n + 1) - (m + 1) = n - m
      BY <1>1, <1>4, <1>6, <2>1
    <3>2. \A i \in 1..m + 1 : queue'[i] = (n - m) + i
      BY <1>7, <2>1
    <3>3. m + 1 <= n + 1
      BY <1>1
    <3> QED
      BY <3>1, <3>2, <3>3 DEF QueueInv
  <2>2. CASE queue' = Tail(q)
    <3>1. Len(queue') = m /\ Len(logOf') = n + 1
      BY <1>4, <1>9, <2>2
    <3>2. ASSUME NEW i \in 1..m PROVE queue'[i] = ((n + 1) - m) + i
      <4>1. i + 1 \in 1..m + 1 /\ (n - m) + (i + 1) = ((n + 1) - m) + i
        BY <1>1
      <4>2. queue'[i] = q[i + 1]
        BY <1>9, <2>2
      <4> QED
        BY <1>7, <4>1, <4>2
    <3>3. m <= n + 1
      BY <1>1
    <3> QED
      BY <3>1, <3>2, <3>3 DEF QueueInv
  <2> QED
    BY <1>10, <2>1, <2>2
<1>12. /\ Range(queue') \cup lost' = Range(queue) \cup lost \cup {n + 1}
       /\ Range(queue') \subseteq Range(queue) \cup {n + 1}
       /\ lost \subseteq lost' /\ lost' \subseteq lost \cup Range(queue)
       /\ lost' \ lost = Range(queue) \ Range(queue') /\ n + 1 \in Range(queue')
  <2>1. Range(queue) \subseteq Sent /\ lost \cap Range(queue) = {} /\ n + 1 \notin Range(queue)
    <3>1. Range(queue) \subseteq Sent
      BY <1>1, QueueRange
    <3> QED
      BY <1>5, <3>1, Elsewhere DEF IInv
  <2>2. CASE queue' = q /\ lost' = lost
    BY <1>6, <2>2
  <2>3. CASE queue' = Tail(q) /\ lost' = lost \cup {Head(q)} /\ m > 0
    <3>1. Head(q) # n + 1
      BY <1>1, <1>7, <1>9, <2>3
    <3>2. Head(q) \in Range(queue)
      BY <1>6, <1>9, <3>1
    <3> QED
      BY <1>6, <1>9, <2>1, <2>3, <3>1, <3>2
  <2> QED
    BY <1>10, <2>2, <2>3
<1>13. HomeInv'
  <2>1. lost' \subseteq Sent
    BY <1>1, <1>12, QueueRange DEF IInv, HomeInv
  <2> QED
    BY <1>2, <1>4, <1>5, <2>1 DEF IInv, HomeInv, Has
<1>14. PlaceInv'
  <2>1. ASSUME NEW e \in Sent PROVE Places(e)' = 1
    <3>1. One(e \in Range(queue')) + One(e \in lost') = One(e \in Range(queue)) + One(e \in lost)
      BY <1>5, <1>12, Elsewhere DEF One, IInv
    <3>2. Places(e) = 1
      BY DEF IInv, PlaceInv
    <3>3. logOf'[e] = logOf[e]
      BY <1>4
    <3> QED
      BY <1>2, <3>1, <3>2, <3>3 DEF Places, One
  <2>2. ASSUME NEW e, e = n + 1 PROVE Places(e)' = 1
    <3>1. logOf'[e] = l
      BY <1>1, <1>2, <2>2, AppendProperties DEF n
    <3>2. /\ e \notin Range(todo') \cup Range(kept') \cup Range(diskBuf')
          /\ e \notin Range(file'[l]) /\ e \notin Range(buf'[l])
          /\ e # cur' /\ e \notin lost' /\ e \in Range(queue')
      <4>1. e \notin lost' /\ e \in Range(queue')
        <5>1. Range(queue) \subseteq Sent /\ lost \subseteq Sent
          BY <1>1, QueueRange DEF IInv, HomeInv
        <5> QED
          BY <1>5, <1>12, <2>2, <5>1
      <4>2. e # cur'
        <5>1. e # 0
          BY <1>1, <2>2
        <5> QED
          BY <1>2, <1>5, <2>2, <5>1 DEF IInv, HomeInv
      <4>3. e \notin Range(file'[l]) /\ e \notin Range(buf'[l])
        BY <1>2, <1>5, <2>2 DEF IInv, HomeInv
      <4>4. e \notin Range(todo') \cup Range(kept') \cup Range(diskBuf')
        BY <1>2, <1>5, <2>2 DEF IInv, HomeInv
      <4> QED
        BY <4>1, <4>2, <4>3, <4>4
    <3>3. /\ One(e \in Range(queue')) = 1 /\ One(e \in Range(todo')) = 0
          /\ One(e \in Range(kept')) = 0 /\ One(e \in Range(diskBuf')) = 0
          /\ One(e \in Range(file'[l])) = 0 /\ One(e \in Range(buf'[l])) = 0
          /\ One(e = cur') = 0 /\ One(e \in lost') = 0
      BY <3>2 DEF One
    <3> QED
      BY <3>1, <3>3 DEF Places
  <2> QED
    BY <1>5, <2>1, <2>2 DEF PlaceInv
<1>15. OnceInv' /\ LogsInv'
  BY <1>2 DEF IInv, OnceInv, LogsInv
<1>16. SnapsInv'
  BY <1>2, <1>12 DEF IInv, SnapsInv, Has
<1>17. CurInv'
  BY <1>2, <1>5, <1>12 DEF IInv, CurInv, Has
<1> QED
  BY <1>11, <1>13, <1>14, <1>15, <1>16, <1>17 DEF IInv, TypeInv

-----------------------------------------------------------------------------
(* Steps that move lines on and leave the stream and the cleans alone.     *)

(* The places of e other than its log and lost. *)
Waiting(e) ==
    One(e \in Range(queue)) + One(e \in Range(todo)) + One(e \in Range(kept))
    + One(e \in Range(diskBuf)) + One(e = cur)

All(gone) == UNION {gone[l] : l \in Log}

LEMMA OneType == \A b \in BOOLEAN : One(b) \in {0, 1}
BY DEF One

LEMMA PlacesSum ==
    ASSUME NEW e
    PROVE  /\ Places(e) = Waiting(e) + One(e \in Range(file[logOf[e]]))
                          + One(e \in Range(buf[logOf[e]])) + One(e \in lost)
           /\ Places(e)' = Waiting(e)' + One(e \in Range(file'[logOf'[e]]))
                          + One(e \in Range(buf'[logOf'[e]])) + One(e \in lost')
BY DEF Places, Waiting, One

LEMMA MoveOn ==
    ASSUME IInv, TypeInv', UNCHANGED <<logOf, snap>>, retried \subseteq retried',
           lost \subseteq lost', NEW gone, Shift(file', buf', gone),
           QueueInv', OnceInv', ListHome', CurInv',
           \A e \in Sent : Waiting(e)' + One(e \in lost')
                           = Waiting(e) + One(e \in lost \cup All(gone))
    PROVE  IInv'
<1>1. LogsInv' /\ LogHome' /\ SnapHome' /\ SnapsInv'
  BY ShiftAll
<1>2. ASSUME NEW e \in Sent PROVE Places(e)' = 1
  <2> DEFINE l == logOf[e]
             a == One(e \in Range(file'[l])) + One(e \in Range(buf'[l]))
             b == One(e \in Range(file[l])) + One(e \in Range(buf[l]))
             x == One(e \in lost \cup All(gone))
             y == One(e \in lost)
             z == One(e \in lost')
             w == Waiting(e)
             v == Waiting(e)'
  <2>1. a + x = b + y
    BY ShiftPlaces DEF IInv, All
  <2>2. v + z = w + x
    BY <1>2
  <2>3. w + b + y = 1
    BY PlacesSum DEF IInv, PlaceInv, One, Waiting
  <2>4. Places(e)' = v + a + z
    BY PlacesSum DEF One, Waiting
  <2>5. /\ a \in Int /\ b \in Int /\ x \in Int /\ y \in Int /\ z \in Int /\ w \in Int
        /\ v \in Int
    BY DEF One, Waiting
  <2> HIDE DEF a, b, x, y, z, w, v
  <2>6. v + a + z = 1
    BY <2>1, <2>2, <2>3, <2>5
  <2> QED
    BY <2>4, <2>6
<1>3. PlaceInv'
  BY <1>2 DEF PlaceInv, Sent
<1> QED
  BY <1>1, <1>3, HomeParts DEF IInv, TypeInv

(* A line that leaves a buffer is in none of the other places. *)
LEMMA GoneApart ==
    ASSUME IInv, NEW f2, NEW b2, NEW gone, Shift(f2, b2, gone), NEW e \in Sent,
           e \in Range(queue) \cup Range(todo) \cup Range(kept) \cup Range(diskBuf) \/ e = cur
    PROVE  e \notin lost \cup All(gone)
<1>1. e \notin lost /\ e \notin Range(buf[logOf[e]])
  BY Elsewhere DEF IInv
<1>2. ASSUME NEW l \in Log, e \in gone[l] PROVE FALSE
  <2>1. e \in Range(buf[l])
    BY <1>2 DEF Shift, Shifted
  <2> QED
    BY <1>1, <2>1 DEF IInv, HomeInv
<1> QED
  BY <1>1, <1>2 DEF All

OneGone(l, g) == [k \in Log |-> IF k = l THEN g ELSE {}]

LEMMA ShiftOne ==
    ASSUME IInv, NEW l \in Log, NEW f2, NEW b2, NEW g,
           Shifted(file[l], buf[l], f2[l], b2[l], g, retried),
           \A k \in Log : k # l => f2[k] = file[k] /\ b2[k] = buf[k]
    PROVE  Shift(f2, b2, OneGone(l, g)) /\ All(OneGone(l, g)) = g
<1>1. All(OneGone(l, g)) = g
  BY DEF All, OneGone
<1>2. \A k \in Log : Shifted(file[k], buf[k], file[k], buf[k], {}, retried)
  BY FileApart, ShiftNone DEF IInv, LogsInv
<1>3. Shift(f2, b2, OneGone(l, g))
  BY <1>2 DEF Shift, OneGone
<1> QED
  BY <1>1, <1>3

LEMMA ReachShift ==
    ASSUME IInv, NEW l \in Log, NEW n \in 0..Len(buf[l])
    PROVE  /\ Shifted(file[l], buf[l], Reaches(l, n), Unwritten(l, n), Misses(l, n), retried)
           /\ Shifted(file[l], buf[l], Reaches(l, n), <<>>,
                      Misses(l, n) \cup Range(Unwritten(l, n)), retried)
<1>1. /\ file[l] \in Seq(Event) /\ buf[l] \in Seq(Event) /\ LogOk(file[l], buf[l], retried)
      /\ Range(file[l]) \cap Range(buf[l]) = {}
  BY FileApart DEF IInv, TypeOK, LogsInv
<1> DEFINE w == Written(l, n)
           u == Unwritten(l, n)
<1>2. /\ Shifted(file[l], buf[l], file[l] \o w, u, {}, retried)
      /\ Shifted(file[l], buf[l], file[l], u, Range(w), retried)
      /\ Shifted(file[l], buf[l], file[l] \o w, <<>>, Range(u), retried)
      /\ Shifted(file[l], buf[l], file[l], <<>>, Range(w) \cup Range(u), retried)
  BY <1>1, ShiftSome DEF Written, Unwritten
<1> HIDE DEF w, u
<1>3. {} \cup Range(u) = Range(u)
  OBVIOUS
<1>4. CASE l \in linked
  <2>1. Reaches(l, n) = file[l] \o w /\ Misses(l, n) = {}
    BY <1>4 DEF Reaches, Misses, w
  <2> QED
    BY <1>2, <1>3, <2>1 DEF u
<1>5. CASE l \notin linked
  <2>1. Reaches(l, n) = file[l] /\ Misses(l, n) = Range(w)
    BY <1>5 DEF Reaches, Misses, w
  <2> QED
    BY <1>2, <2>1 DEF u
<1> QED
  BY <1>4, <1>5

LEMMA DropShift ==
    ASSUME IInv, NEW l \in Log, DropHandle(l)
    PROVE  \E gone : Shift(file', buf', gone) /\ lost' = lost \cup All(gone)
<1>1. PICK n \in 0..Len(buf[l]) :
        /\ file' = [file EXCEPT ![l] = Reaches(l, n)]
        /\ buf' = [buf EXCEPT ![l] = <<>>]
        /\ lost' = lost \cup Misses(l, n) \cup Range(Unwritten(l, n))
  BY DEF DropHandle
<1>2. PICK gone : /\ Shift(file', buf', gone)
                  /\ All(gone) = Misses(l, n) \cup Range(Unwritten(l, n))
  <2>1. /\ file \in [Log -> Seq(Event)] /\ buf \in [Log -> Seq(Event)]
    BY DEF IInv, TypeOK
  <2>2. /\ file'[l] = Reaches(l, n) /\ buf'[l] = <<>>
        /\ \A k \in Log : k # l => file'[k] = file[k] /\ buf'[k] = buf[k]
    BY <1>1, <2>1
  <2> DEFINE g == Misses(l, n) \cup Range(Unwritten(l, n))
  <2>3. Shifted(file[l], buf[l], file'[l], buf'[l], g, retried)
    <3>1. Shifted(file[l], buf[l], Reaches(l, n), <<>>, g, retried)
      BY ReachShift
    <3> QED
      BY <2>2, <3>1
  <2> HIDE DEF g
  <2>4. Shift(file', buf', OneGone(l, g)) /\ All(OneGone(l, g)) = g
    BY <2>2, <2>3, ShiftOne
  <2> QED
    BY <2>4 DEF g
<1> QED
  BY <1>1, <1>2

LEMMA GoneSent ==
    ASSUME IInv, NEW f2, NEW b2, NEW gone, Shift(f2, b2, gone)
    PROVE  All(gone) \subseteq Sent
<1>1. ASSUME NEW l \in Log, NEW e \in gone[l] PROVE e \in Sent
  <2>1. e \in Range(buf[l])
    BY <1>1 DEF Shift, Shifted
  <2> QED
    BY <2>1 DEF IInv, HomeInv
<1> QED
  BY <1>1 DEF All

(* The handles alone lose lines. *)
LEMMA InvHandles ==
    ASSUME IInv, TypeInv', UNCHANGED <<logOf, snap, retried, queue, cur, todo, kept, diskBuf>>,
           NEW gone, Shift(file', buf', gone), lost' = lost \cup All(gone)
    PROVE  IInv'
<1>1. Sent' = Sent /\ lost' \subseteq Sent
  BY GoneSent DEF Sent, IInv, HomeInv
<1>2. QueueInv' /\ OnceInv'
  BY DEF IInv, QueueInv, OnceInv
<1>3. ListHome'
  BY <1>1 DEF IInv, HomeInv, ListHome
<1>4. CurInv'
  BY CurKept
<1>5. \A e \in Sent : Waiting(e)' = Waiting(e)
  BY DEF Waiting
<1> QED
  BY <1>2, <1>3, <1>4, <1>5, MoveOn

LEMMA InvEvict ==
    ASSUME IInv, TypeInv', NEW l \in Log, Evict(l)
    PROVE  IInv'
<1>1. PICK gone : Shift(file', buf', gone) /\ lost' = lost \cup All(gone)
  BY DropShift DEF Evict
<1>2. UNCHANGED <<logOf, snap, retried, queue, cur, todo, kept, diskBuf>>
  BY DEF Evict, chanVars, bufVars, cleanVars
<1> QED
  BY <1>1, <1>2, InvHandles

LEMMA InvFlushSync ==
    ASSUME IInv, TypeInv', FlushSync
    PROVE  IInv'
<1>1. PICK n \in [Flushed -> 0..BufLines] :
         /\ \A l \in Flushed : n[l] <= Len(buf[l])
         /\ file' = [l \in Log |-> IF l \in Flushed THEN Reaches(l, n[l]) ELSE file[l]]
         /\ buf' = [l \in Log |-> IF l \in Unlinked THEN <<>>
                                  ELSE IF l \in Flushed THEN Unwritten(l, n[l])
                                  ELSE buf[l]]
  BY DEF FlushSync
<1>2. /\ UNCHANGED <<logOf, snap, retried, queue, cur, todo, kept, diskBuf>>
      /\ lost' = lost \cup UNION {Range(buf[l]) : l \in Unlinked}
  BY DEF FlushSync, chanVars, bufVars, cleanVars
<1> DEFINE gone == [l \in Log |-> IF l \in Unlinked THEN Range(buf[l]) ELSE {}]
<1>3. Flushed \subseteq linked /\ Unlinked \subseteq Log /\ Unlinked \cap linked = {}
  BY DEF Flushed, Unlinked, IInv, TypeOK
<1>4. ASSUME NEW l \in Log
      PROVE  Shifted(file[l], buf[l], file'[l], buf'[l], gone[l], retried)
  <2>1. buf[l] \in Seq(Event) /\ Len(buf[l]) \in Nat
    BY LenProperties DEF IInv, TypeOK
  <2>2. CASE l \in Unlinked
    <3>1. PICK m \in 0..Len(buf[l]) : TRUE
      BY <2>1
    <3>2. /\ Shifted(file[l], buf[l], Reaches(l, m), <<>>,
                     Misses(l, m) \cup Range(Unwritten(l, m)), retried)
          /\ Reaches(l, m) = file[l]
      BY <1>3, <2>2, ReachShift DEF Reaches
    <3>3. Misses(l, m) \cup Range(Unwritten(l, m)) = Range(buf[l])
      <4>1. Range(Written(l, m)) \cup Range(Unwritten(l, m)) = Range(buf[l])
        BY <2>1, SplitList DEF Written, Unwritten
      <4> QED
        BY <1>3, <2>2, <4>1 DEF Misses
    <3>4. file'[l] = file[l] /\ buf'[l] = <<>> /\ gone[l] = Range(buf[l])
      BY <1>1, <1>3, <2>2
    <3> QED
      BY <3>2, <3>3, <3>4
  <2>3. CASE l \in Flushed
    <3>1. n[l] \in 0..Len(buf[l]) /\ l \notin Unlinked
      BY <1>1, <1>3, <2>1, <2>3, Bounds
    <3>2. file'[l] = Reaches(l, n[l]) /\ buf'[l] = Unwritten(l, n[l]) /\ gone[l] = {}
      BY <1>1, <2>3, <3>1
    <3>3. Misses(l, n[l]) = {}
      BY <1>3, <2>3 DEF Misses
    <3>4. Shifted(file[l], buf[l], Reaches(l, n[l]), Unwritten(l, n[l]), Misses(l, n[l]), retried)
      BY <3>1, ReachShift
    <3> QED
      BY <3>2, <3>3, <3>4
  <2>4. CASE l \notin Unlinked /\ l \notin Flushed
    <3>1. file'[l] = file[l] /\ buf'[l] = buf[l] /\ gone[l] = {}
      BY <1>1, <2>4
    <3>2. Range(file[l]) \cap Range(buf[l]) = {} /\ LogOk(file[l], buf[l], retried)
      BY FileApart DEF IInv, LogsInv
    <3> QED
      BY <3>1, <3>2, ShiftNone
  <2> QED
    BY <2>2, <2>3, <2>4
<1>5. All(gone) = UNION {Range(buf[l]) : l \in Unlinked}
  BY <1>3 DEF All
<1>6. Shift(file', buf', gone)
  BY <1>4 DEF Shift
<1> HIDE DEF gone
<1> QED
  BY <1>2, <1>5, <1>6, InvHandles

(* An event moves from todo to kept, or to its log. *)
LEMMA HeadMoves ==
    ASSUME IInv, pc = "retry", todo # <<>>, todo' = Tail(todo)
    PROVE  /\ Head(todo) \in Sent \cap retried /\ Head(todo) \in Event
           /\ Head(todo) \in Range(todo) /\ Once(todo')
           /\ Range(todo') = Range(todo) \ {Head(todo)}
           /\ Head(todo) \notin Range(kept)
           /\ kept' = Append(kept, Head(todo)) =>
                Once(kept') /\ Range(kept') = Range(kept) \cup {Head(todo)}
<1>1. todo \in Seq(Event) /\ kept \in Seq(Event) /\ Once(todo) /\ Once(kept)
  BY DEF IInv, TypeOK, OnceInv
<1>2. Once(todo') /\ Head(todo) \in Range(todo) /\ Range(todo') = Range(todo) \ {Head(todo)}
  BY <1>1, TailList
<1>3. Head(todo) \in Sent \cap retried
  BY <1>2 DEF IInv, HomeInv
<1>4. Head(todo) \in Event
  BY <1>3, SentFacts DEF IInv
<1>5. Head(todo) \notin Range(kept)
  BY <1>2, <1>3, Elsewhere DEF IInv
<1> QED
  BY <1>1, <1>2, <1>3, <1>4, <1>5, AppendList

LEMMA SentPositive ==
    ASSUME IInv
    PROVE  0 \notin Sent
BY SentFacts DEF IInv, Sent

LEMMA InvOpenFails ==
    ASSUME IInv, TypeInv', OpenFails
    PROVE  IInv'
<1>1. /\ UNCHANGED <<logOf, queue, snap, file, buf>> /\ Busy
  BY DEF OpenFails, chanVars, outVars, cleanVars
<1>2. /\ Shift(file', buf', NoneGone) /\ All(NoneGone) = {}
  BY <1>1, ShiftNothing DEF All
<1>3. Sent' = Sent /\ QueueInv'
  BY <1>1 DEF Sent, IInv, QueueInv
<1>4. lost \cup All(NoneGone) = lost
  BY <1>2
<1>5. CASE pc = "write"
  <2>1. BufferEvent /\ cur' = 0 /\ UNCHANGED <<todo, kept>>
    BY <1>5 DEF OpenFails
  <2>2. cur \in Event /\ cur \in Sent /\ diskBuf \in Seq(Event) /\ Once(diskBuf)
    BY <1>5 DEF IInv, TypeOK, HomeInv, OnceInv
  <2>3. /\ cur \notin Range(queue) /\ cur \notin Range(todo) /\ cur \notin Range(kept)
        /\ cur \notin Range(diskBuf) /\ cur \notin lost
    BY <2>2, Elsewhere DEF IInv
  <2>4. CASE /\ diskBuf' = Append(diskBuf, cur) /\ retried' = retried \cup {cur} /\ lost' = lost
    <3>1. Once(diskBuf') /\ Range(diskBuf') = Range(diskBuf) \cup {cur}
      BY <2>2, <2>3, <2>4, AppendList
    <3>2. OnceInv'
      BY <2>1, <3>1 DEF IInv, OnceInv
    <3>3. ListHome'
      BY <1>3, <2>1, <2>2, <2>4, <3>1 DEF IInv, HomeInv, ListHome
    <3>4. CurInv'
      BY <1>1, <2>1, <2>4, CurKept
    <3>5. ASSUME NEW e \in Sent
          PROVE  Waiting(e)' + One(e \in lost') = Waiting(e) + One(e \in lost \cup All(NoneGone))
      <4>1. /\ e # cur' /\ (e \in Range(diskBuf') <=> e \in Range(diskBuf) \/ e = cur)
            /\ e = cur => e \notin Range(diskBuf)
        BY <2>1, <2>3, <3>1, SentPositive
      <4> QED
        BY <1>1, <1>4, <2>1, <2>4, <4>1 DEF Waiting, One
    <3> QED
      BY <1>1, <1>2, <1>3, <2>4, <3>2, <3>3, <3>4, <3>5, MoveOn
  <2>5. CASE diskBuf' = diskBuf /\ retried' = retried /\ lost' = lost \cup {cur}
    <3>1. OnceInv'
      BY <2>1, <2>5 DEF IInv, OnceInv
    <3>2. ListHome'
      BY <1>3, <2>1, <2>2, <2>5 DEF IInv, HomeInv, ListHome
    <3>3. CurInv'
      BY <1>1, <2>1, <2>5, CurKept
    <3>4. ASSUME NEW e \in Sent
          PROVE  Waiting(e)' + One(e \in lost') = Waiting(e) + One(e \in lost \cup All(NoneGone))
      <4>1. /\ e # cur' /\ (e \in lost' <=> e \in lost \/ e = cur)
            /\ e = cur => e \notin lost
        BY <2>1, <2>3, <2>5, SentPositive
      <4> QED
        BY <1>1, <1>4, <2>1, <2>5, <4>1 DEF Waiting, One
    <3> QED
      BY <1>1, <1>2, <1>3, <2>5, <3>1, <3>2, <3>3, <3>4, MoveOn
  <2> QED
    BY <2>1, <2>4, <2>5 DEF BufferEvent
<1>6. CASE pc = "retry"
  <2>1. /\ todo # <<>> /\ kept' = Append(kept, Head(todo)) /\ todo' = Tail(todo)
        /\ UNCHANGED <<cur, diskBuf, lost, retried>>
    BY <1>1, <1>6 DEF OpenFails, Busy, bufVars
  <2> DEFINE h == Head(todo)
  <2>2. /\ h \in Sent \cap retried /\ h \in Range(todo) /\ h \notin Range(kept)
        /\ Once(todo') /\ Range(todo') = Range(todo) \ {h}
        /\ Once(kept') /\ Range(kept') = Range(kept) \cup {h}
    BY <1>6, <2>1, HeadMoves
  <2> HIDE DEF h
  <2>3. OnceInv'
    BY <2>1, <2>2 DEF IInv, OnceInv
  <2>4. ListHome'
    BY <1>3, <2>1, <2>2 DEF IInv, HomeInv, ListHome
  <2>5. CurInv'
    BY <1>1, <2>1, CurKept
  <2>6. ASSUME NEW e \in Sent
        PROVE  Waiting(e)' + One(e \in lost') = Waiting(e) + One(e \in lost \cup All(NoneGone))
    <3>1. /\ e = h => e \in Range(todo) /\ e \notin Range(kept)
          /\ e \in Range(todo') <=> e \in Range(todo) /\ e # h
          /\ e \in Range(kept') <=> e \in Range(kept) \/ e = h
      BY <2>2
    <3> QED
      BY <1>1, <1>4, <2>1, <3>1 DEF Waiting, One
  <2> QED
    BY <1>1, <1>2, <1>3, <2>1, <2>3, <2>4, <2>5, <2>6, MoveOn
<1> QED
  BY <1>1, <1>5, <1>6 DEF Busy

LEMMA InvRetried ==
    ASSUME IInv, TypeInv', Retried
    PROVE  IInv'
<1>1. /\ UNCHANGED <<logOf, queue, snap, file, buf, lost, retried, cur, todo>>
      /\ diskBuf' = kept /\ kept' = <<>> /\ diskBuf = <<>>
  BY DEF Retried, chanVars, outVars, cleanVars, IInv, ControlInv
<1>2. /\ Shift(file', buf', NoneGone) /\ All(NoneGone) = {}
  BY <1>1, ShiftNothing DEF All
<1>3. Sent' = Sent /\ QueueInv'
  BY <1>1 DEF Sent, IInv, QueueInv
<1>4. Range(<<>>) = {} /\ Once(<<>>)
  BY EmptyList
<1>5. OnceInv'
  BY <1>1, <1>4 DEF IInv, OnceInv
<1>6. ListHome'
  BY <1>1, <1>3, <1>4 DEF IInv, HomeInv, ListHome
<1>7. CurInv'
  BY <1>1, CurKept
<1>8. ASSUME NEW e \in Sent
      PROVE  Waiting(e)' + One(e \in lost') = Waiting(e) + One(e \in lost \cup All(NoneGone))
  <2>1. e \notin Range(diskBuf) /\ e \notin Range(kept')
    BY <1>1, <1>4
  <2>2. lost \cup All(NoneGone) = lost
    BY <1>2
  <2> QED
    BY <1>1, <2>1, <2>2 DEF Waiting, One
<1> QED
  BY <1>1, <1>2, <1>3, <1>5, <1>6, <1>7, <1>8, MoveOn

LEMMA InvRecv ==
    ASSUME IInv, TypeInv', Recv
    PROVE  IInv'
<1> DEFINE n == Len(logOf)
           m == Len(queue)
           h == Head(queue)
<1>1. /\ UNCHANGED <<logOf, kept, buf, file, snap, lost, retried>>
      /\ pc = "recv" /\ queue # <<>> /\ cur' = h /\ queue' = Tail(queue)
  BY DEF Recv, outVars, cleanVars
<1>2. TypeOK /\ QueueInv /\ HomeInv /\ PlaceInv /\ cur = 0 /\ todo = <<>>
      /\ queue \in Seq(Event)
  BY <1>1 DEF IInv, TypeOK, ControlInv
<1>3. /\ n \in Nat /\ m \in Nat /\ m # 0 /\ m <= n /\ h = queue[1] /\ Len(queue') = m - 1
      /\ \A i \in 1..m - 1 : queue'[i] = queue[i + 1]
      /\ \A i \in 1..m : queue[i] = (n - m) + i
  BY <1>1, <1>2, SentFacts, HeadTailProperties, EmptySeq DEF QueueInv
<1>4. /\ Range(queue) \subseteq Sent /\ Once(queue)
      /\ \A e \in Sent : e \in Range(queue) <=> e > n - m
  BY <1>2, QueueRange
<1>5. /\ h \in Range(queue) /\ Range(queue') = Range(queue) \ {h}
  BY <1>1, <1>2, <1>4, TailList
<1> HIDE DEF n, m, h
<1>6. h = (n - m) + 1
  BY <1>3
<1>7. Sent' = Sent /\ \A e \in Sent : e \in Nat /\ logOf[e] \in Log
  BY <1>1, <1>2, SentFacts DEF Sent
<1>8. /\ Shift(file', buf', NoneGone) /\ lost \cup All(NoneGone) = lost
  BY <1>1, ShiftNothing DEF All
<1>9. QueueInv'
  <2>1. Len(logOf') = n
    BY <1>1 DEF n
  <2>2. m - 1 <= n
    BY <1>3
  <2>3. ASSUME NEW i \in 1..m - 1 PROVE queue'[i] = (n - (m - 1)) + i
    <3>1. i + 1 \in 1..m /\ (n - m) + (i + 1) = (n - (m - 1)) + i
      BY <1>3
    <3> QED
      BY <1>3, <3>1
  <2> QED
    BY <1>3, <2>1, <2>2, <2>3 DEF QueueInv
<1>10. CurInv'
  <2>1. ASSUME NEW e \in Sent, e > h PROVE e \in Range(queue')
    <3>1. e > n - m /\ e # h
      BY <1>3, <1>6, <1>7, <2>1
    <3> QED
      BY <1>4, <1>5, <3>1
  <2>2. ASSUME NEW l \in Log, Has(l), NEW e \in Range(snap[l]) PROVE e < h
    <3>1. e \in Sent /\ logOf[e] = l /\ (e \in Range(file[l]) \/ e \in lost)
      BY <2>2 DEF IInv, HomeInv, SnapsInv
    <3>2. e \notin Range(queue)
      BY <1>2, <3>1, Elsewhere
    <3>3. ~(e > n - m) /\ e \in Nat
      BY <1>4, <1>7, <3>1, <3>2
    <3> QED
      BY <1>3, <1>6, <3>3
  <2>3. \A l \in Log : Has(l)' <=> Has(l)
    BY <1>1 DEF Has
  <2>4. \A e \in Sent' : e > cur' => e \in Range(queue') \cup lost'
    BY <1>1, <1>7, <2>1
  <2>5. \A l \in Log : Has(l)' => \A e \in Range(snap'[l]) : e < cur'
    BY <1>1, <2>2, <2>3
  <2> QED
    BY <2>4, <2>5 DEF CurInv
<1>11. Range(<<>>) = {} /\ Once(<<>>)
  BY EmptyList
<1>12. \/ UNCHANGED <<todo, diskBuf>>
       \/ todo' = diskBuf /\ diskBuf' = <<>>
  BY DEF Recv
<1>13. OnceInv'
  BY <1>1, <1>11, <1>12 DEF IInv, OnceInv
<1>14. /\ Range(todo') \cup Range(diskBuf') = Range(todo) \cup Range(diskBuf)
       /\ Range(todo') \cap Range(diskBuf') = {} /\ Range(todo) = {}
  BY <1>2, <1>11, <1>12
<1>15. ListHome'
  BY <1>1, <1>4, <1>5, <1>7, <1>14 DEF IInv, HomeInv, ListHome
<1>16. ASSUME NEW e \in Sent
       PROVE  Waiting(e)' + One(e \in lost') = Waiting(e) + One(e \in lost \cup All(NoneGone))
  <2>1. e # cur
    BY <1>2, SentPositive
  <2>2. /\ e \in Range(queue) <=> e \in Range(queue') \/ e = cur'
        /\ e = cur' => e \notin Range(queue')
    BY <1>1, <1>5
  <2>3. One(e \in Range(queue)) = One(e \in Range(queue')) + One(e = cur')
    BY <2>2 DEF One
  <2>4. One(e \in Range(todo')) + One(e \in Range(diskBuf'))
        = One(e \in Range(todo)) + One(e \in Range(diskBuf))
    BY <1>14 DEF One
  <2> QED
    BY <1>1, <1>8, <2>1, <2>3, <2>4 DEF Waiting, One
<1> QED
  BY <1>1, <1>8, <1>9, <1>10, <1>13, <1>15, <1>16, MoveOn

LEMMA InvWriteFails ==
    ASSUME IInv, TypeInv', WriteFails
    PROVE  IInv'
<1>1. /\ UNCHANGED <<logOf, queue, diskBuf, snap, retried>> /\ Busy
  BY DEF WriteFails, chanVars, bufVars, cleanVars
<1>2. Sent' = Sent /\ QueueInv' /\ Target \in Log
  BY <1>1, TargetType DEF Sent, IInv, QueueInv
<1>3. CASE pc = "write"
  <2> DEFINE l == Target
  <2>1. PICK n \in 0..(Len(buf[l]) - 1) :
          /\ file' = [file EXCEPT ![l] = Reaches(l, n)]
          /\ buf' = [buf EXCEPT ![l] = Unwritten(l, n)]
          /\ lost' = lost \cup Misses(l, n) \cup {cur}
    BY <1>3 DEF WriteFails
  <2>2. cur' = 0 /\ UNCHANGED <<todo, kept>> /\ cur \in Sent
    BY <1>3 DEF WriteFails, IInv, TypeOK, HomeInv
  <2> HIDE DEF l
  <2>3. l \in Log /\ n \in 0..Len(buf[l])
    BY <1>2, LenProperties DEF l, IInv, TypeOK
  <2>4. /\ file'[l] = Reaches(l, n) /\ buf'[l] = Unwritten(l, n)
        /\ \A k \in Log : k # l => file'[k] = file[k] /\ buf'[k] = buf[k]
    BY <2>1, <2>3 DEF IInv, TypeOK
  <2> DEFINE g == Misses(l, n)
             gone == OneGone(l, g)
  <2>5. Shifted(file[l], buf[l], file'[l], buf'[l], g, retried)
    <3>1. Shifted(file[l], buf[l], Reaches(l, n), Unwritten(l, n), g, retried)
      BY <2>3, ReachShift
    <3> QED
      BY <2>4, <3>1
  <2> HIDE DEF g
  <2>6. Shift(file', buf', gone) /\ All(gone) = g
    BY <2>3, <2>4, <2>5, ShiftOne
  <2>7. lost' = lost \cup All(gone) \cup {cur}
    BY <2>1, <2>6 DEF g
  <2> HIDE DEF gone
  <2>8. lost' \subseteq Sent
    BY <2>2, <2>6, <2>7, GoneSent DEF IInv, HomeInv
  <2>9. OnceInv'
    BY <1>1, <2>2 DEF IInv, OnceInv
  <2>10. ListHome'
    BY <1>1, <1>2, <2>2, <2>8 DEF IInv, HomeInv, ListHome
  <2>11. CurInv'
    BY <1>1, <2>2, <2>7, CurKept
  <2>12. ASSUME NEW e \in Sent
         PROVE  Waiting(e)' + One(e \in lost') = Waiting(e) + One(e \in lost \cup All(gone))
    <3>1. /\ e # cur' /\ (e \in lost' <=> e \in lost \cup All(gone) \/ e = cur)
          /\ e = cur => e \notin lost \cup All(gone)
      BY <2>2, <2>6, <2>7, SentPositive, GoneApart
    <3> QED
      BY <1>1, <2>2, <3>1 DEF Waiting, One
  <2> QED
    BY <1>1, <1>2, <2>6, <2>7, <2>9, <2>10, <2>11, <2>12, MoveOn
<1>4. CASE pc = "retry"
  <2>1. /\ todo # <<>> /\ kept' = Append(kept, Head(todo)) /\ todo' = Tail(todo)
        /\ cur' = cur /\ DropHandle(Target)
    BY <1>1, <1>4 DEF WriteFails, Busy
  <2>2. PICK gone : Shift(file', buf', gone) /\ lost' = lost \cup All(gone)
    BY <1>2, <2>1, DropShift
  <2> DEFINE h == Head(todo)
  <2>3. /\ h \in Sent \cap retried /\ h \in Range(todo) /\ h \notin Range(kept)
        /\ Once(todo') /\ Range(todo') = Range(todo) \ {h}
        /\ Once(kept') /\ Range(kept') = Range(kept) \cup {h}
    BY <1>4, <2>1, HeadMoves
  <2> HIDE DEF h
  <2>4. OnceInv'
    BY <1>1, <2>3 DEF IInv, OnceInv
  <2>5. lost' \subseteq Sent
    BY <2>2, GoneSent DEF IInv, HomeInv
  <2>6. ListHome'
    BY <1>1, <1>2, <2>1, <2>3, <2>5 DEF IInv, HomeInv, ListHome
  <2>7. CurInv'
    BY <1>1, <2>1, <2>2, CurKept
  <2>8. ASSUME NEW e \in Sent
        PROVE  Waiting(e)' + One(e \in lost') = Waiting(e) + One(e \in lost \cup All(gone))
    <3>1. /\ e = h => e \in Range(todo) /\ e \notin Range(kept)
          /\ e \in Range(todo') <=> e \in Range(todo) /\ e # h
          /\ e \in Range(kept') <=> e \in Range(kept) \/ e = h
      BY <2>3
    <3> QED
      BY <1>1, <2>1, <2>2, <3>1 DEF Waiting, One
  <2> QED
    BY <1>1, <1>2, <2>2, <2>4, <2>6, <2>7, <2>8, MoveOn
<1> QED
  BY <1>1, <1>3, <1>4 DEF Busy

LEMMA InvFinish ==
    ASSUME IInv, TypeInv', Finish
    PROVE  IInv'
<1>1. PICK n \in [open -> 0..BufLines] :
      /\ \A l \in open : n[l] <= Len(buf[l])
      /\ file' = [l \in Log |-> IF l \in open THEN Reaches(l, n[l]) ELSE file[l]]
      /\ lost' = lost \cup Range(queue) \cup Range(diskBuf)
                      \cup UNION {Misses(l, n[l]) \cup Range(Unwritten(l, n[l])) : l \in open}
      /\ buf' = [l \in Log |-> <<>>]
  BY DEF Finish, CloseHandles
<1>2. /\ UNCHANGED <<logOf, cur, todo, kept, snap, retried>> /\ cur = 0
      /\ queue' = <<>> /\ diskBuf' = <<>>
  BY DEF Finish, cleanVars, IInv, TypeOK
<1>3. open \subseteq Log /\ \A l \in Log \ open : buf[l] = <<>>
  BY DEF IInv, TypeOK, ControlInv
<1> DEFINE gone == [l \in Log |-> IF l \in open THEN Misses(l, n[l]) \cup Range(Unwritten(l, n[l]))
                                  ELSE {}]
<1>4. ASSUME NEW l \in Log
      PROVE  Shifted(file[l], buf[l], file'[l], buf'[l], gone[l], retried)
  <2>1. Len(buf[l]) \in Nat
    BY LenProperties DEF IInv, TypeOK
  <2>2. CASE l \in open
    <3>1. n[l] \in 0..Len(buf[l])
      BY <1>1, <2>1, <2>2, Bounds
    <3>2. file'[l] = Reaches(l, n[l]) /\ buf'[l] = <<>>
          /\ gone[l] = Misses(l, n[l]) \cup Range(Unwritten(l, n[l]))
      BY <1>1, <2>2
    <3>3. Shifted(file[l], buf[l], Reaches(l, n[l]), <<>>,
                  Misses(l, n[l]) \cup Range(Unwritten(l, n[l])), retried)
      BY <3>1, ReachShift
    <3> QED
      BY <3>2, <3>3
  <2>3. CASE l \notin open
    <3>1. file'[l] = file[l] /\ buf'[l] = buf[l] /\ gone[l] = {}
      BY <1>1, <1>3, <2>3
    <3>2. Range(file[l]) \cap Range(buf[l]) = {} /\ LogOk(file[l], buf[l], retried)
      BY FileApart DEF IInv, LogsInv
    <3> QED
      BY <3>1, <3>2, ShiftNone
  <2> QED
    BY <2>2, <2>3
<1>5. All(gone) = UNION {Misses(l, n[l]) \cup Range(Unwritten(l, n[l])) : l \in open}
  BY <1>3 DEF All
<1>6. Shift(file', buf', gone)
  BY <1>4 DEF Shift
<1>7. lost' = lost \cup All(gone) \cup Range(queue) \cup Range(diskBuf)
  BY <1>1, <1>5
<1> HIDE DEF gone
<1>8. Range(<<>>) = {} /\ Once(<<>>) /\ Len(<<>>) = 0
  BY EmptyList
<1>9. Sent' = Sent /\ Len(logOf) \in Nat /\ Range(queue) \subseteq Sent
  BY <1>2, SentFacts, QueueRange DEF Sent, IInv
<1>10. QueueInv'
  BY <1>2, <1>8, <1>9 DEF QueueInv
<1>11. OnceInv' /\ CurInv'
  BY <1>2, <1>8 DEF IInv, OnceInv, CurInv
<1>12. lost' \subseteq Sent
  BY <1>6, <1>7, <1>9, GoneSent DEF IInv, HomeInv
<1>13. ListHome'
  BY <1>2, <1>8, <1>9, <1>12 DEF IInv, HomeInv, ListHome
<1>14. ASSUME NEW e \in Sent
       PROVE  Waiting(e)' + One(e \in lost') = Waiting(e) + One(e \in lost \cup All(gone))
  <2>1. /\ e \in Range(queue) \/ e \in Range(diskBuf) => e \notin lost \cup All(gone)
        /\ ~(e \in Range(queue) /\ e \in Range(diskBuf))
    BY <1>6, GoneApart, Elsewhere DEF IInv
  <2>2. e \notin Range(queue') /\ e \notin Range(diskBuf')
    BY <1>2, <1>8
  <2>3. One(e \in lost') = One(e \in lost \cup All(gone)) + One(e \in Range(queue))
                           + One(e \in Range(diskBuf))
    BY <1>7, <2>1 DEF One
  <2> QED
    BY <1>2, <2>2, <2>3 DEF Waiting, One
<1> QED
  BY <1>2, <1>6, <1>7, <1>10, <1>11, <1>13, <1>14, MoveOn

(* A line enters a buffer that was emptied first when it was full. *)
LEMMA AppendShift ==
    ASSUME IInv, NEW l \in Log, NEW e \in Event, AppendLine(l, e)
    PROVE  \E b2 \in [Log -> Seq(Event)] : \E gone :
             /\ Shift(file', b2, gone) /\ lost' = lost \cup All(gone)
             /\ buf'[l] = Append(b2[l], e)
             /\ \A k \in Log : k # l => buf'[k] = b2[k]
<1>1. /\ buf \in [Log -> Seq(Event)] /\ file \in [Log -> Seq(Event)]
      /\ buf[l] \in Seq(Event) /\ Len(buf[l]) \in Nat
  BY LenProperties DEF IInv, TypeOK
<1>2. CASE buf' = [buf EXCEPT ![l] = Append(@, e)] /\ UNCHANGED <<file, lost>>
  <2>1. /\ Shift(file', buf, NoneGone) /\ lost' = lost \cup All(NoneGone)
    BY <1>2, ShiftNothing DEF All
  <2>2. buf'[l] = Append(buf[l], e) /\ \A k \in Log : k # l => buf'[k] = buf[k]
    BY <1>1, <1>2
  <2> QED
    BY <1>1, <2>1, <2>2
<1>3. CASE /\ buf' = [buf EXCEPT ![l] = <<e>>]
           /\ file' = [file EXCEPT ![l] = Reaches(l, Len(buf[l]))]
           /\ lost' = lost \cup Misses(l, Len(buf[l]))
  <2> DEFINE b2 == [buf EXCEPT ![l] = <<>>]
             n == Len(buf[l])
             g == Misses(l, n)
             gone == OneGone(l, g)
  <2>1. n \in 0..Len(buf[l]) /\ <<>> \in Seq(Event)
    BY <1>1, EmptySeq
  <2>2. Unwritten(l, n) = <<>>
    <3>1. Unwritten(l, n) = SubSeq(buf[l], n + 1, n)
      BY DEF Unwritten
    <3> QED
      BY <1>1, <3>1, SubSeqEmpty
  <2>3. Shifted(file[l], buf[l], Reaches(l, n), Unwritten(l, n), g, retried)
    BY <2>1, ReachShift
  <2>4. /\ b2 \in [Log -> Seq(Event)] /\ b2[l] = <<>>
        /\ file'[l] = Reaches(l, n)
        /\ \A k \in Log : k # l => file'[k] = file[k] /\ b2[k] = buf[k] /\ buf'[k] = b2[k]
    BY <1>1, <1>3, <2>1
  <2>5. lost' = lost \cup g
    BY <1>3
  <2>6. buf'[l] = Append(<<>>, e)
    BY <1>1, <1>3
  <2> HIDE DEF b2, n, g
  <2>7. Shifted(file[l], buf[l], file'[l], b2[l], g, retried)
    BY <2>2, <2>3, <2>4
  <2>8. Shift(file', b2, gone) /\ All(gone) = g
    BY <2>4, <2>7, ShiftOne
  <2> HIDE DEF gone
  <2> QED
    BY <2>4, <2>5, <2>6, <2>8
<1> QED
  BY <1>2, <1>3 DEF AppendLine

(* What is already in the log, or in the copy of a clean, may precede the  *)
(* event that is written next.                                             *)
LEMMA WrittenLast ==
    ASSUME IInv, Busy
    PROVE  LET l == Target
           IN  /\ Below(Range(file[l]) \cup Range(buf[l]), {ToLog}, retried)
               /\ Has(l) => Below(Range(snap[l]), {ToLog}, retried)
               /\ ToLog \notin Range(file[l]) /\ ToLog \notin Range(buf[l])
<1> DEFINE l == Target
           t == ToLog
<1>1. t \in Sent /\ l \in Log /\ logOf[t] = l
  BY TargetType DEF IInv, Target
<1>2. CASE pc = "write"
  <2>1. t = cur /\ cur # 0
    BY <1>2 DEF ToLog, IInv, TypeOK
  <2>2. ASSUME NEW e \in Range(file[l]) \cup Range(buf[l]) PROVE e < t
    <3>1. e \in Sent /\ logOf[e] = l
      BY <1>1 DEF IInv, HomeInv
    <3>2. e # cur /\ e \notin Range(queue) /\ e \notin lost
      BY <3>1, Elsewhere DEF IInv
    <3>3. ~(e > cur)
      BY <2>1, <3>1, <3>2 DEF IInv, CurInv
    <3>4. e \in Nat /\ t \in Nat
      BY <1>1, <3>1, SentFacts DEF IInv
    <3> QED
      BY <2>1, <3>2, <3>3, <3>4
  <2>3. ASSUME Has(l), NEW e \in Range(snap[l]) PROVE e < t
    BY <1>1, <2>1, <2>3 DEF IInv, CurInv
  <2>4. t \notin Range(file[l]) /\ t \notin Range(buf[l])
    BY <1>1, <2>1, Elsewhere DEF IInv
  <2> QED
    BY <2>2, <2>3, <2>4 DEF Below
<1>3. CASE pc = "retry" /\ todo # <<>>
  <2>1. t \in Range(todo) /\ t \in retried
    <3>1. t = Head(todo)
      BY <1>3 DEF ToLog
    <3>2. Head(todo) \in Range(todo)
      BY <1>3, TailList DEF IInv, TypeOK, OnceInv
    <3> QED
      BY <3>1, <3>2 DEF IInv, HomeInv
  <2>2. t \notin Range(file[l]) /\ t \notin Range(buf[l])
    BY <1>1, <2>1, Elsewhere DEF IInv
  <2> QED
    BY <2>1, <2>2 DEF Below
<1> QED
  BY <1>2, <1>3 DEF Busy

LEMMA InvWriteLine ==
    ASSUME IInv, TypeInv', WriteLine
    PROVE  IInv'
<1> DEFINE l == Target
           t == ToLog
<1>1. /\ UNCHANGED <<logOf, queue, diskBuf, snap, retried, kept>> /\ Busy
      /\ AppendLine(l, t) /\ Advance
  BY DEF WriteLine, chanVars, bufVars, cleanVars, Advance
<1>2. l \in Log /\ t \in Event /\ t \in Sent /\ logOf[t] = l
  BY <1>1, TargetType DEF IInv, Target
<1>2b. PICK b2 \in [Log -> Seq(Event)] : \E gone :
             /\ Shift(file', b2, gone) /\ lost' = lost \cup All(gone)
             /\ buf'[l] = Append(b2[l], t)
             /\ \A k \in Log : k # l => buf'[k] = b2[k]
  BY <1>1, <1>2, AppendShift
<1>3. PICK gone :
             /\ Shift(file', b2, gone) /\ lost' = lost \cup All(gone)
             /\ buf'[l] = Append(b2[l], t)
             /\ \A k \in Log : k # l => buf'[k] = b2[k]
  BY <1>2b
<1>4. /\ Below(Range(file[l]) \cup Range(buf[l]), {t}, retried)
      /\ Has(l) => Below(Range(snap[l]), {t}, retried)
      /\ t \notin Range(file[l]) /\ t \notin Range(buf[l])
  BY <1>1, WrittenLast
<1>5. \/ pc = "write" /\ t = cur /\ cur' = 0 /\ UNCHANGED todo
      \/ pc = "retry" /\ t = Head(todo) /\ todo # <<>> /\ todo' = Tail(todo) /\ cur' = cur
  <2>1. CASE pc = "write"
    BY <1>1, <2>1 DEF Advance, ToLog
  <2>2. CASE pc = "retry" /\ todo # <<>>
    BY <1>1, <2>2 DEF Advance, ToLog
  <2> QED
    BY <1>1, <2>1, <2>2 DEF Busy
<1> HIDE DEF l, t
<1>6. /\ Range(file'[l]) \cup Range(b2[l]) \subseteq Range(file[l]) \cup Range(buf[l])
      /\ Range(b2[l]) \subseteq Range(buf[l]) /\ b2[l] \in Seq(Event)
  BY <1>2, <1>3 DEF Shift, Shifted
<1>7. Range(buf'[l]) = Range(b2[l]) \cup {t}
  BY <1>2, <1>3, <1>6, AppendRange
<1>8. /\ \A k \in Log : LogOk(file'[k], b2[k], retried)
      /\ \A k \in Log : \A e \in Range(file'[k]) \cup Range(b2[k]) : e \in Sent' /\ logOf'[e] = k
      /\ SnapHome'
      /\ \A k \in Log : Has(k)' => /\ SnapOk(snap'[k], b2[k], retried)
                                   /\ Range(snap'[k]) \subseteq Range(file'[k]) \cup lost'
  BY <1>1, <1>3, ShiftKeeps
<1>9. Sent' = Sent /\ \A k \in Log : Has(k)' <=> Has(k)
  BY <1>1 DEF Sent, Has
<1>10. LogsInv'
  <2>1. LogOk(file'[l], buf'[l], retried)
    <3>1. /\ Once(file'[l]) /\ Once(b2[l]) /\ Sorted(file'[l], retried) /\ Sorted(b2[l], retried)
          /\ Below(Range(file'[l]), Range(b2[l]), retried)
      BY <1>2, <1>8 DEF LogOk
    <3>2. Below(Range(file'[l]), {t}, retried) /\ Below(Range(b2[l]), {t}, retried)
      BY <1>4, <1>6 DEF Below
    <3>3. t \notin Range(b2[l])
      BY <1>4, <1>6
    <3>4. Once(buf'[l]) /\ Sorted(buf'[l], retried)
      BY <1>2, <1>3, <1>6, <3>1, <3>2, <3>3, AppendOrder
    <3>5. Below(Range(file'[l]), Range(buf'[l]), retried)
      BY <1>7, <3>1, <3>2 DEF Below
    <3> QED
      BY <3>1, <3>4, <3>5 DEF LogOk
  <2> QED
    BY <1>1, <1>3, <1>8, <2>1 DEF LogsInv
<1>11. LogHome'
  <2>1. \A e \in Range(file'[l]) \cup Range(buf'[l]) : e \in Sent' /\ logOf'[e] = l
    BY <1>1, <1>2, <1>7, <1>8, <1>9
  <2> QED
    BY <1>3, <1>8, <2>1 DEF LogHome
<1>12. SnapsInv'
  <2>1. ASSUME NEW k \in Log, Has(k)' PROVE SnapOk(snap'[k], buf'[k], retried)
    <3>1. SnapOk(snap'[k], b2[k], retried)
      BY <1>8, <2>1
    <3>2. CASE k = l
      <4>1. Below(Range(snap'[k]), {t}, retried)
        BY <1>1, <1>4, <1>9, <2>1, <3>2
      <4> QED
        BY <1>7, <3>1, <3>2, <4>1 DEF SnapOk, Below
    <3> QED
      BY <1>3, <3>1, <3>2
  <2> QED
    BY <1>1, <1>8, <2>1 DEF SnapsInv
<1>13. QueueInv' /\ CurInv'
  <2>1. cur' \in {cur, 0}
    BY <1>5
  <2>2. CurInv'
    BY <1>1, <1>3, <2>1, CurKept
  <2> QED
    BY <1>1, <2>2 DEF IInv, QueueInv
<1>14. /\ Once(todo') /\ Range(todo') \subseteq Range(todo)
       /\ \A e \in Sent : Waiting(e) = Waiting(e)' + One(e = t)
  <2>1. CASE pc = "write" /\ t = cur /\ cur' = 0 /\ UNCHANGED todo
    <3>1. ASSUME NEW e \in Sent PROVE Waiting(e) = Waiting(e)' + One(e = t)
      <4>1. e # cur'
        BY <2>1, SentPositive
      <4> QED
        BY <1>1, <2>1, <4>1 DEF Waiting, One
    <3> QED
      BY <2>1, <3>1 DEF IInv, OnceInv
  <2>2. CASE pc = "retry" /\ t = Head(todo) /\ todo # <<>> /\ todo' = Tail(todo) /\ cur' = cur
    <3>1. Once(todo') /\ t \in Range(todo) /\ Range(todo') = Range(todo) \ {t}
      BY <2>2, HeadMoves
    <3>2. ASSUME NEW e \in Sent PROVE Waiting(e) = Waiting(e)' + One(e = t)
      <4>1. One(e \in Range(todo)) = One(e \in Range(todo')) + One(e = t)
        BY <3>1 DEF One
      <4> QED
        BY <1>1, <2>2, <4>1 DEF Waiting, One
    <3> QED
      BY <3>1, <3>2
  <2> QED
    BY <1>5, <2>1, <2>2
<1>15. OnceInv'
  BY <1>1, <1>14 DEF IInv, OnceInv
<1>16. ListHome'
  <2>1. lost' \subseteq Sent
    BY <1>3, GoneSent DEF IInv, HomeInv
  <2>2. cur' # 0 => cur' \in Sent
    BY <1>5 DEF IInv, HomeInv
  <2> QED
    BY <1>1, <1>9, <1>14, <2>1, <2>2 DEF IInv, HomeInv, ListHome
<1>17. ASSUME NEW e \in Sent PROVE Places(e)' = 1
  <2> DEFINE k == logOf[e]
             a == One(e \in Range(file'[k])) + One(e \in Range(b2[k]))
             b == One(e \in Range(file[k])) + One(e \in Range(buf[k]))
             y == One(e \in lost)
             z == One(e \in lost')
             o == One(e = t)
             w == Waiting(e)
             v == Waiting(e)'
  <2>1. k \in Log
    BY SentFacts DEF IInv
  <2>2. a + z = b + y
    BY <1>3, ShiftPlaces DEF IInv, All
  <2>3. w = v + o
    BY <1>14
  <2>4. w + b + y = 1
    BY PlacesSum DEF IInv, PlaceInv, One, Waiting
  <2>5. One(e \in Range(buf'[k])) = One(e \in Range(b2[k])) + o
    <3>1. CASE k = l
      <4>1. e = t => e \notin Range(b2[k])
        BY <1>4, <1>6, <3>1
      <4> QED
        BY <1>7, <3>1, <4>1 DEF One
    <3>2. CASE k # l
      <4>1. buf'[k] = b2[k] /\ e # t
        BY <1>2, <1>3, <2>1, <3>2
      <4> QED
        BY <4>1 DEF One
    <3> QED
      BY <3>1, <3>2
  <2>6. Places(e)' = v + One(e \in Range(file'[k])) + One(e \in Range(buf'[k])) + z
    BY <1>1, PlacesSum
  <2>7. Places(e)' = v + a + o + z
    BY <2>5, <2>6 DEF One, Waiting
  <2>8. /\ a \in Int /\ b \in Int /\ y \in Int /\ z \in Int /\ w \in Int
        /\ v \in Int /\ o \in Int
    BY DEF One, Waiting
  <2> HIDE DEF a, b, y, z, o, w, v
  <2>9. v + a + o + z = 1
    BY <2>2, <2>3, <2>4, <2>8
  <2> QED
    BY <2>7, <2>9
<1>18. PlaceInv'
  BY <1>9, <1>17 DEF PlaceInv
<1> QED
  BY <1>8, <1>10, <1>11, <1>12, <1>13, <1>15, <1>16, <1>18, HomeParts DEF IInv, TypeInv

-----------------------------------------------------------------------------
(* Deleted and cleaned logs.                                               *)

LEMMA BeforeCur ==
    ASSUME IInv, cur # 0, NEW l \in Log, NEW e \in Range(file[l])
    PROVE  e < cur
<1>1. e \in Sent /\ logOf[e] = l /\ cur \in Sent
  BY DEF IInv, HomeInv
<1>2. e # cur /\ e \notin Range(queue) /\ e \notin lost
  BY <1>1, Elsewhere DEF IInv
<1>3. ~(e > cur)
  BY <1>1, <1>2 DEF IInv, CurInv
<1>4. e \in Nat /\ cur \in Nat
  BY <1>1, SentFacts DEF IInv
<1> QED
  BY <1>2, <1>3, <1>4

LEMMA InvCleanReads ==
    ASSUME IInv, TypeInv', NEW l \in Log, CleanReads(l)
    PROVE  IInv'
<1>1. PICK t \in Seq(Event) :
        /\ snap' = [snap EXCEPT ![l] = t] /\ Range(t) \subseteq Range(file[l])
        /\ Once(file[l]) => Once(t)
        /\ Sorted(file[l], retried) => Sorted(t, retried)
  BY CleanList DEF IInv, TypeInv
<1>2. UNCHANGED <<logOf, queue, cur, todo, kept, diskBuf, buf, file, lost, retried>>
  BY DEF CleanReads, chanVars, bufVars, outVars
<1>3. snap'[l] = t /\ \A k \in Log : k # l => snap'[k] = snap[k] /\ (Has(k)' <=> Has(k))
  BY <1>1 DEF IInv, TypeOK, Has
<1>4. Sent' = Sent
  BY <1>2 DEF Sent
<1>5. QueueInv' /\ OnceInv' /\ LogsInv'
  BY <1>2 DEF IInv, QueueInv, OnceInv, LogsInv
<1>6. LogHome' /\ ListHome'
  BY <1>2, <1>4 DEF IInv, HomeInv, LogHome, ListHome
<1>7. SnapHome'
  <2>1. \A e \in Range(snap'[l]) : e \in Sent /\ logOf[e] = l
    BY <1>1, <1>3 DEF IInv, HomeInv
  <2> QED
    BY <1>2, <1>3, <1>4, <2>1 DEF IInv, HomeInv, SnapHome
<1>8. PlaceInv'
  BY <1>2, <1>4 DEF IInv, PlaceInv, Places
<1>9. SnapsInv'
  <2>1. SnapOk(t, buf[l], retried) /\ Range(t) \subseteq Range(file[l]) \cup lost
    BY <1>1 DEF IInv, LogsInv, LogOk, SnapOk, Below
  <2> QED
    BY <1>2, <1>3, <2>1 DEF IInv, SnapsInv
<1>10. CurInv'
  <2>1. cur # 0 => \A e \in Range(t) : e < cur
    BY <1>1, BeforeCur
  <2>2. cur' # 0 => \A e \in Sent' : e > cur' => e \in Range(queue') \cup lost'
    BY <1>2, <1>4 DEF IInv, CurInv
  <2>3. ASSUME cur' # 0, NEW k \in Log, Has(k)' PROVE \A e \in Range(snap'[k]) : e < cur'
    BY <1>2, <1>3, <2>1, <2>3 DEF IInv, CurInv
  <2> QED
    BY <2>2, <2>3 DEF CurInv
<1> QED
  BY <1>5, <1>6, <1>7, <1>8, <1>9, <1>10, HomeParts DEF IInv, TypeInv

(* The file of l is replaced. *)
LEMMA InvReplace ==
    ASSUME IInv, TypeInv', NEW l \in Log, NEW new \in Seq(Event),
           UNCHANGED <<logOf, queue, cur, todo, kept, diskBuf, buf, retried>>,
           file' = [file EXCEPT ![l] = new],
           lost' = (lost \cup Range(file[l])) \ Range(new),
           \A k \in Log : Has(k)' => Has(k) /\ snap'[k] = snap[k] /\ (k = l => new = <<>>),
           LogOk(new, buf[l], retried),
           Range(new) \subseteq Range(file[l]) \cup lost,
           \A e \in Range(new) : e \in Sent /\ logOf[e] = l,
           cur # 0 => \A e \in Range(new) : e < cur
    PROVE  IInv'
<1>1. file'[l] = new /\ \A k \in Log : k # l => file'[k] = file[k]
  BY DEF IInv, TypeOK
<1>2. Sent' = Sent /\ Range(file[l]) \subseteq Sent
  BY DEF Sent, IInv, HomeInv
<1>3. QueueInv' /\ OnceInv'
  BY DEF IInv, QueueInv, OnceInv
<1>4. LogsInv'
  BY <1>1 DEF IInv, LogsInv
<1>5. LogHome'
  BY <1>1, <1>2 DEF IInv, HomeInv, LogHome
<1>6. lost' \subseteq Sent
  BY <1>2 DEF IInv, HomeInv
<1>7. ListHome'
  BY <1>2, <1>6 DEF IInv, HomeInv, ListHome
<1>8. SnapHome'
  BY <1>2 DEF IInv, HomeInv, SnapHome
<1>9. ASSUME NEW e \in Sent PROVE Places(e)' = 1
  <2> DEFINE k == logOf[e]
  <2>1. k \in Log
    BY SentFacts DEF IInv
  <2>2. e \in Range(file[k]) => e \notin lost
    BY Elsewhere DEF IInv
  <2>3. One(e \in Range(file'[k])) + One(e \in lost') = One(e \in Range(file[k])) + One(e \in lost)
    <3>1. CASE k = l
      BY <1>1, <2>2, <3>1 DEF One
    <3>2. CASE k # l
      <4>1. e \notin Range(file[l]) /\ e \notin Range(new)
        BY <3>2 DEF IInv, HomeInv
      <4>2. file'[k] = file[k] /\ (e \in lost' <=> e \in lost)
        BY <1>1, <2>1, <3>2, <4>1
      <4> QED
        BY <4>2 DEF One
    <3> QED
      BY <3>1, <3>2
  <2>4. Places(e) = 1
    BY DEF IInv, PlaceInv
  <2>5. Waiting(e)' = Waiting(e)
    BY DEF Waiting
  <2>6. /\ Places(e) = Waiting(e) + One(e \in Range(file[k])) + One(e \in Range(buf[k])) + One(e \in lost)
        /\ Places(e)' = Waiting(e) + One(e \in Range(file'[k])) + One(e \in Range(buf[k])) + One(e \in lost')
    BY <2>5, PlacesSum
  <2> HIDE DEF k
  <2> QED
    BY <2>3, <2>4, <2>6 DEF One, Waiting
<1>10. PlaceInv'
  BY <1>2, <1>9 DEF PlaceInv
<1>11. SnapsInv'
  <2>1. ASSUME NEW k \in Log, Has(k)'
        PROVE  SnapOk(snap'[k], buf'[k], retried') /\ Range(snap'[k]) \subseteq Range(file'[k]) \cup lost'
    <3>1. Has(k) /\ snap'[k] = snap[k] /\ (k = l => new = <<>>)
      BY <2>1
    <3>2. SnapOk(snap[k], buf[k], retried) /\ Range(snap[k]) \subseteq Range(file[k]) \cup lost
      BY <3>1 DEF IInv, SnapsInv
    <3>3. CASE k = l
      <4>1. Range(new) = {}
        BY <3>1, <3>3, EmptyList
      <4> QED
        BY <3>1, <3>2, <3>3, <4>1
    <3>4. CASE k # l
      <4>1. \A e \in Range(snap[k]) : e \notin Range(new)
        BY <3>1, <3>4 DEF IInv, HomeInv
      <4> QED
        BY <1>1, <3>1, <3>2, <3>4, <4>1
    <3> QED
      BY <3>3, <3>4
  <2> QED
    BY <2>1 DEF SnapsInv
<1>12. CurInv'
  <2>1. ASSUME cur # 0, NEW e \in Sent, e > cur PROVE e \in Range(queue') \cup lost'
    <3>1. e \in Nat /\ cur \in Nat
      BY <2>1, SentFacts DEF IInv, HomeInv
    <3>2. e \notin Range(new)
      <4>1. ~(e < cur)
        BY <2>1, <3>1
      <4> QED
        BY <2>1, <4>1
    <3> QED
      BY <2>1, <3>2 DEF IInv, CurInv
  <2>2. ASSUME cur # 0, NEW k \in Log, Has(k)' PROVE \A e \in Range(snap'[k]) : e < cur'
    BY <2>2 DEF IInv, CurInv
  <2> QED
    BY <1>2, <2>1, <2>2 DEF CurInv
<1> QED
  BY <1>3, <1>4, <1>5, <1>7, <1>8, <1>10, <1>11, <1>12, HomeParts DEF IInv, TypeInv

LEMMA InvDeleteLog ==
    ASSUME IInv, TypeInv', NEW l \in Log, DeleteLog(l)
    PROVE  IInv'
<1>1. /\ UNCHANGED <<logOf, queue, cur, todo, kept, diskBuf, buf, retried, snap>>
      /\ file' = [file EXCEPT ![l] = <<>>] /\ lost' = lost \cup Range(file[l])
  BY DEF DeleteLog, chanVars, bufVars, cleanVars
<1> DEFINE new == <<>>
<1>2. Range(new) = {} /\ Once(new) /\ \A R : Sorted(new, R)
  BY EmptyList
<1>3. LogOk(new, buf[l], retried)
  BY <1>2 DEF IInv, LogsInv, LogOk, Below
<1>4. new \in Seq(Event)
  BY EmptySeq
<1>5. \A k \in Log : Has(k)' => Has(k) /\ snap'[k] = snap[k] /\ (k = l => new = <<>>)
  BY <1>1 DEF Has
<1>6. file' = [file EXCEPT ![l] = new] /\ lost' = (lost \cup Range(file[l])) \ Range(new)
  BY <1>1, <1>2
<1>7. /\ Range(new) \subseteq Range(file[l]) \cup lost
      /\ \A e \in Range(new) : e \in Sent /\ logOf[e] = l
      /\ cur # 0 => \A e \in Range(new) : e < cur
  BY <1>2
<1> HIDE DEF new
<1> QED
  BY <1>1, <1>3, <1>4, <1>5, <1>6, <1>7, InvReplace

LEMMA InvCleanRenames ==
    ASSUME IInv, TypeInv', NEW l \in Log, CleanRenames(l)
    PROVE  IInv'
<1>1. PICK new \in {snap[l], file[l]} :
         /\ file' = [file EXCEPT ![l] = new]
         /\ lost' = (lost \cup Range(file[l])) \ Range(new)
  BY DEF CleanRenames
<1>2. /\ UNCHANGED <<logOf, queue, cur, todo, kept, diskBuf, buf, retried>> /\ Has(l)
      /\ snap' = [snap EXCEPT ![l] = None]
  BY DEF CleanRenames, chanVars, bufVars, Has
<1>3. \A k \in Log : Has(k)' => Has(k) /\ snap'[k] = snap[k] /\ (k = l => new = <<>>)
  BY <1>2 DEF Has, IInv, TypeOK
<1>4. LogOk(file[l], buf[l], retried)
  BY DEF IInv, LogsInv
<1>5. CASE new = snap[l]
  <2>1. SnapOk(new, buf[l], retried) /\ Range(new) \subseteq Range(file[l]) \cup lost
    BY <1>2, <1>5 DEF IInv, SnapsInv
  <2>2. new \in Seq(Event) /\ LogOk(new, buf[l], retried)
    BY <1>4, <2>1 DEF SnapOk, LogOk
  <2>3. /\ \A e \in Range(new) : e \in Sent /\ logOf[e] = l
        /\ cur # 0 => \A e \in Range(new) : e < cur
    BY <1>2, <1>5 DEF IInv, HomeInv, CurInv
  <2> QED
    BY <1>1, <1>2, <1>3, <2>1, <2>2, <2>3, InvReplace
<1>6. CASE new = file[l]
  <2>1. new \in Seq(Event) /\ LogOk(new, buf[l], retried)
        /\ Range(new) \subseteq Range(file[l]) \cup lost
    BY <1>4, <1>6 DEF IInv, TypeOK
  <2>2. /\ \A e \in Range(new) : e \in Sent /\ logOf[e] = l
        /\ cur # 0 => \A e \in Range(new) : e < cur
    BY <1>6, BeforeCur DEF IInv, HomeInv
  <2> QED
    BY <1>1, <1>2, <1>3, <2>1, <2>2, InvReplace
<1> QED
  BY <1>1, <1>5, <1>6

-----------------------------------------------------------------------------
(* The theorems.                                                           *)

LEMMA InvNext == IInv /\ [Next]_vars => IInv'
<1> SUFFICES ASSUME IInv, [Next]_vars PROVE IInv'
  OBVIOUS
<1>1. TypeInv'
  BY TypeNext DEF IInv, TypeInv
<1>2. CASE \E l \in Log : Evict(l)
  BY <1>1, <1>2, InvEvict
<1>3. CASE Recv
  BY <1>1, <1>3, InvRecv
<1>4. CASE OpenLog
  <2>1. UNCHANGED <<logOf, queue, cur, todo, kept, diskBuf, buf, file, snap, lost, retried>>
    BY <1>4 DEF OpenLog, chanVars, bufVars, cleanVars
  <2> QED
    BY <1>1, <2>1, InvQuiet
<1>5. CASE OpenFails
  BY <1>1, <1>5, InvOpenFails
<1>6. CASE WriteLine
  BY <1>1, <1>6, InvWriteLine
<1>7. CASE WriteFails
  BY <1>1, <1>7, InvWriteFails
<1>8. CASE Retried
  BY <1>1, <1>8, InvRetried
<1>9. CASE Finish
  BY <1>1, <1>9, InvFinish
<1>10. CASE FlushSync
  BY <1>1, <1>10, InvFlushSync
<1>11. CASE Close
  <2>1. UNCHANGED <<logOf, queue, cur, todo, kept, diskBuf, buf, file, snap, lost, retried>>
    BY <1>11 DEF Close, outVars, bufVars, cleanVars
  <2> QED
    BY <1>1, <2>1, InvQuiet
<1>12. CASE Tick
  <2>1. UNCHANGED <<logOf, queue, cur, todo, kept, diskBuf, buf, file, snap, lost, retried>>
    BY <1>12 DEF Tick, chanVars, outVars, cleanVars
  <2> QED
    BY <1>1, <2>1, InvQuiet
<1>13. ASSUME NEW l \in Log, Send(l) \/ DeleteLog(l) \/ CleanReads(l) \/ CleanRenames(l)
       PROVE  IInv'
  BY <1>1, <1>13, InvSend, InvDeleteLog, InvCleanReads, InvCleanRenames
<1>14. CASE UNCHANGED vars
  <2>1. UNCHANGED <<logOf, queue, cur, todo, kept, diskBuf, buf, file, snap, lost, retried>>
    BY <1>14 DEF vars
  <2> QED
    BY <1>1, <2>1, InvQuiet
<1> QED
  BY <1>2, <1>3, <1>4, <1>5, <1>6, <1>7, <1>8, <1>9, <1>10, <1>11, <1>12, <1>13, <1>14
     DEF Next, WriterStep

LEMMA InvAlways == Spec => []IInv
<1>1. Init => IInv
  BY InvInit
<1>2. IInv /\ [Next]_vars => IInv'
  BY InvNext
<1> QED
  BY <1>1, <1>2, PTL DEF Spec

LEMMA CountOnce ==
    ASSUME NEW s \in Seq(Event), Once(s), NEW e
    PROVE  Cardinality({i \in DOMAIN s : s[i] = e}) = One(e \in Range(s))
<1> DEFINE C == {i \in DOMAIN s : s[i] = e}
<1>1. DOMAIN s = 1..Len(s)
  BY LenProperties
<1>2. e \in Range(s) <=> \E i \in 1..Len(s) : s[i] = e
  BY InRange
<1>3. CASE e \in Range(s)
  <2>1. PICK i \in 1..Len(s) : s[i] = e
    BY <1>2, <1>3
  <2>2. C = {i}
    BY <1>1, <2>1 DEF Once
  <2>3. Cardinality({i}) = 1
    BY FS_Singleton
  <2> QED
    BY <1>3, <2>2, <2>3 DEF One
<1>4. CASE e \notin Range(s)
  <2>1. C = {}
    BY <1>1, <1>2, <1>4
  <2>2. Cardinality({}) = 0
    BY FS_EmptySet
  <2> QED
    BY <1>4, <2>1, <2>2 DEF One
<1> QED
  BY <1>3, <1>4

LEMMA LineList ==
    ASSUME IInv, NEW l \in Log
    PROVE  /\ Lines(l) \in Seq(Event) /\ Once(Lines(l)) /\ Sorted(Lines(l), retried)
           /\ Range(Lines(l)) = Range(file[l]) \cup Range(buf[l])
<1>1. file[l] \in Seq(Event) /\ buf[l] \in Seq(Event)
  BY DEF IInv, TypeOK
<1>2. /\ Once(file[l]) /\ Once(buf[l]) /\ Sorted(file[l], retried) /\ Sorted(buf[l], retried)
      /\ Below(Range(file[l]), Range(buf[l]), retried)
      /\ Range(file[l]) \cap Range(buf[l]) = {}
  BY FileApart DEF IInv, LogsInv, LogOk
<1> QED
  BY <1>1, <1>2, ConcatList DEF Lines

LEMMA InvAccounted == IInv => Accounted
<1> SUFFICES ASSUME IInv PROVE Accounted
  OBVIOUS
<1> DEFINE waits == todo \o kept \o diskBuf
<1>1. /\ waits \in Seq(Event) /\ Once(waits)
      /\ Range(waits) = Range(todo) \cup Range(kept) \cup Range(diskBuf)
  <2>1. /\ todo \in Seq(Event) /\ kept \in Seq(Event) /\ diskBuf \in Seq(Event)
        /\ Once(todo) /\ Once(kept) /\ Once(diskBuf)
        /\ Range(todo) \subseteq Sent /\ Range(kept) \subseteq Sent
    BY DEF IInv, TypeOK, OnceInv, HomeInv
  <2>2. /\ Range(todo) \cap Range(kept) = {}
        /\ (Range(todo) \cup Range(kept)) \cap Range(diskBuf) = {}
    BY <2>1, Elsewhere DEF IInv
  <2>3. /\ todo \o kept \in Seq(Event) /\ Once(todo \o kept)
        /\ Range(todo \o kept) = Range(todo) \cup Range(kept)
    BY <2>1, <2>2, ConcatList
  <2> QED
    BY <2>1, <2>2, <2>3, ConcatList
<1> HIDE DEF waits
<1>2. queue \in Seq(Event) /\ Once(queue)
  BY QueueRange DEF IInv, TypeOK
<1>3. ASSUME NEW e \in Sent PROVE Copies(e) = IF e \in lost THEN 0 ELSE 1
  <2> DEFINE l == logOf[e]
             s == Lines(l)
  <2>1. /\ s \in Seq(Event) /\ Once(s) /\ Range(s) = Range(file[l]) \cup Range(buf[l])
    BY SentFacts, LineList DEF IInv
  <2>2. Cardinality({i \in DOMAIN queue : queue[i] = e}) = One(e \in Range(queue))
    BY <1>2, CountOnce
  <2>3. Cardinality({i \in DOMAIN waits : waits[i] = e}) = One(e \in Range(waits))
    BY <1>1, CountOnce
  <2>4. Cardinality({i \in DOMAIN s : s[i] = e}) = One(e \in Range(s))
    <3> HIDE DEF s
    <3> QED
      BY <2>1, CountOnce
  <2>5. Copies(e) = One(e \in Range(queue)) + One(e \in Range(waits)) + One(e \in Range(s))
                    + One(e = cur)
    BY <2>2, <2>3, <2>4 DEF Copies, waits, One
  <2>6. Places(e) = 1
    BY DEF IInv, PlaceInv
  <2> HIDE DEF s, l
  <2>7. Places(e) = One(e \in Range(queue)) + One(e \in Range(todo)) + One(e \in Range(kept))
                    + One(e \in Range(diskBuf)) + One(e \in Range(file[l]))
                    + One(e \in Range(buf[l])) + One(e = cur) + One(e \in lost)
    BY DEF Places, l
  <2>8. /\ e \in Range(waits) <=> e \in Range(todo) \/ e \in Range(kept) \/ e \in Range(diskBuf)
        /\ e \in Range(s) <=> e \in Range(file[l]) \/ e \in Range(buf[l])
    BY <1>1, <2>1
  <2> QED
    BY <2>5, <2>6, <2>7, <2>8 DEF One
<1>4. \A l \in Log : \A e \in Range(Lines(l)) : logOf[e] = l
  BY LineList DEF IInv, HomeInv
<1> QED
  BY <1>3, <1>4 DEF Accounted

(* The writer's variables always have their types: the channel, disk_buf   *)
(* and the handle cache stay within subscribe_buf, 10 000 events and       *)
(* MAX_OPEN_HANDLES, whatever fails.                                       *)
THEOREM WriterTypeCorrect == Spec => []TypeOK
<1>1. IInv => TypeOK
  BY DEF IInv
<1> QED
  BY <1>1, InvAlways, PTL

(* file_writer.rs loses no event silently and writes none twice: at every  *)
(* moment each event is in exactly one place on its way to the log of its  *)
(* own cmd, or it was lost for one of the reasons the code accepts.        *)
THEOREM EventsAccounted == Spec => []Accounted
<1>1. IInv => Accounted
  BY InvAccounted
<1> QED
  BY <1>1, InvAlways, PTL

(* Whatever evictions, failed flushes, deletions and cleans a log goes     *)
(* through, it stays in the order of the stream except for the events that *)
(* waited in disk_buf.                                                     *)
THEOREM LogsInOrder == Spec => []OnlyRetriesReorder
<1>1. ASSUME IInv PROVE OnlyRetriesReorder
  <2>1. ASSUME NEW l \in Log, NEW j \in DOMAIN Lines(l), NEW i \in 1..(j - 1)
        PROVE  Lines(l)[i] < Lines(l)[j] \/ Lines(l)[j] \in retried
    <3> DEFINE s == Lines(l)
    <3>1. s \in Seq(Event) /\ Sorted(s, retried)
      BY <1>1, LineList
    <3>2. DOMAIN s = 1..Len(s) /\ Len(s) \in Nat
      BY <3>1, LenProperties
    <3>3. j \in 1..Len(s) /\ i \in 1..Len(s) /\ i < j
      BY <2>1, <3>2
    <3> HIDE DEF s
    <3>4. s[i] < s[j] \/ s[j] \in retried
      BY <3>1, <3>3 DEF Sorted
    <3> QED
      BY <3>4 DEF s
  <2> QED
    BY <2>1 DEF OnlyRetriesReorder
<1> QED
  BY <1>1, InvAlways, PTL

=============================================================================
