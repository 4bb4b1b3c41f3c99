------------------------ MODULE ControlSocketProofs ------------------------
(***************************************************************************)
(* The store that the clients share stays whole, agrees with the daemon,   *)
(* and loses an entry only on purpose; a subscriber is told of everything  *)
(* it missed.  For every number of clients, entries and events.            *)
(***************************************************************************)
EXTENDS ControlSocket, SequenceTheorems, FiniteSetTheorems, TLAPS

-----------------------------------------------------------------------------
(* The inductive invariant.                                                *)

Saving    == {"create", "write", "rename"}
Counted   == {"greet", "stream", "leaked"}
Command(c) == job[c].op # "subscribe"

(* What a client may be doing, and what it has been told. *)
ClientOk(c) ==
    /\ ~Command(c) => pc[c] \in {"load", "send", "wait", "ok", "transient", "done"}
    /\ conn[c] = "sent" => pc[c] \in {"wait", "killed"}
    /\ undo[c] => /\ job[c].op = "add" /\ job[c].entry \in Refused
                  /\ pc[c] \in Saving \cup Over \cup {"load"}
    /\ pc[c] = "permanent" => job[c].op = "add" /\ job[c].entry \in Refused
    /\ pc[c] = "ok" /\ job[c].op = "add" => job[c].entry \notin Refused
    /\ pc[c] = "killed" => Command(c) /\ job[c].entry \in excused
ClientInv == \A c \in Client : ClientOk(c)

(* While no two clients use it at the same time, the temporary file is     *)
(* what its one user wrote, and a client that will save a fresh copy       *)
(* changes the store in its own entry only.                                *)
SaveOk(c) ==
    /\ pc[c] \in {"write", "rename"} => copy[c] \in meant
    /\ pc[c] = "write" => fd[c] = "tmp" /\ tmp = {}
    /\ pc[c] = "rename" => tmp = copy[c]
    /\ pc[c] \in Saving /\ fresh[c] => copy[c] = Changed(c)
SaveInv ==
    ~mixed =>
      /\ store \in meant
      /\ \A c, d \in Client : {pc[c], pc[d]} \subseteq {"write", "rename"} => c = d
      /\ \A c \in Client : SaveOk(c)

(* c added e, was refused or is going to be, and will take it back. *)
TakesBack(c, e) ==
    /\ job[c].op = "add" /\ job[c].entry = e
    /\ IF undo[c] THEN pc[c] \in Saving \cup {"load"}
       ELSE pc[c] \in {"connect", "send", "wait", "transient", "permanent"}

(* A client about e that has saved. *)
Saved(c, e) == c \in Busy(e) /\ pc[c] \notin Saving

MatchOk(e) ==
    /\ e \in Refused /\ e \in store => \E c \in Client : TakesBack(c, e)
    /\ e \notin Refused =>
         /\ \A c, d \in Busy(e) : c = d
         /\ (\A c \in Client : ~Saved(c, e)) => (e \in store <=> e \in daemon)
         /\ \A c \in Client : Saved(c, e) =>
              /\ e \in store <=> job[c].op = "add"
              /\ pc[c] = "ok" => (e \in daemon <=> job[c].op = "add")
MatchInv == ~mixed => \A e \in Entry \ excused : MatchOk(e)

(* A subscriber that is at position p of log l. *)
Sents(g)  == {i \in DOMAIN g : g[i].event # 0}
Events(g) == {g[i].event : i \in Sents(g)}
Warned(g) == UNION {g[i].dropped : i \in DOMAIN g}
Told(g, f, p, l) ==
    /\ \A i, j \in Sents(g) : i < j => g[i].event < g[j].event
    /\ Events(g) \cap Warned(g) = {}
    /\ {k \in f..(p - 1) : l[k] \in Filter} \ Warned(g) = Events(g)
    /\ Events(g) \cup Warned(g) \subseteq f..(p - 1)

TaskOk(c) ==
    task[c] # "none" => ~Command(c) /\ pc[c] \in {"ok", "done"} /\ conn[c] = "closed"
StreamOk(c) ==
    /\ task[c] = "none" => got[c] = <<>> /\ pos[c] = 1 /\ from[c] = 1
    /\ from[c] <= pos[c] /\ pos[c] <= Len(log) + 1
    /\ c \notin left => Told(got[c], from[c], pos[c], log)
Counts == {c \in Client : task[c] \in Counted}
TaskInv   == \A c \in Client : TaskOk(c)
StreamInv == IsFiniteSet(Counts) /\ \A c \in Client : StreamOk(c)

IInv == TypeOK /\ ClientInv /\ SaveInv /\ MatchInv /\ TaskInv /\ StreamInv
-----------------------------------------------------------------------------
(* Types.                                                                  *)

Place == {"load", "create", "write", "rename", "connect", "send", "wait",
          "ok", "permanent", "transient"} \cup Over

ClientType ==
    /\ job \in Jobs /\ pc \in [Client -> Place]
    /\ conn \in [Client -> {"none", "open", "sent", "closed"}]
    /\ acc \in Client \cup {None}
StoreType ==
    /\ copy \in [Client -> SUBSET Entry] /\ undo \in [Client -> BOOLEAN]
    /\ fd \in [Client -> {None, "tmp", "store"}]
    /\ store \in Content /\ tmp \in Content \cup {Absent}
    /\ fresh \in [Client -> BOOLEAN] /\ meant \subseteq SUBSET Entry
    /\ mixed \in BOOLEAN
DaemonType ==
    /\ daemon \subseteq Entry \ Refused /\ up \in BOOLEAN
    /\ faults \in 0..MaxFaults /\ excused \subseteq Entry
StreamType ==
    /\ log \in Seq(Type) /\ Len(log) <= MaxEvents
    /\ task \in [Client -> {"none", "greet", "stream", "ended", "leaked"}]
    /\ pos \in [Client -> 1..(MaxEvents + 1)] /\ from \in [Client -> 1..(MaxEvents + 1)]
    /\ got \in [Client -> Seq([event : Nat, dropped : SUBSET Nat])]
    /\ left \subseteq Client
GaugeOk == gauge = Cardinality(Counts)

LEMMA TypeParts ==
    /\ TypeOK <=> ClientType /\ StoreType /\ DaemonType /\ StreamType /\ GaugeOk
    /\ TypeOK' <=> ClientType' /\ StoreType' /\ DaemonType' /\ StreamType' /\ GaugeOk'
BY DEF TypeOK, ClientType, StoreType, DaemonType, StreamType, GaugeOk, Counts, Counted, Place

LEMMA PartsKept ==
    /\ UNCHANGED storeVars => (StoreType <=> StoreType')
    /\ UNCHANGED streamVars => (StreamType <=> StreamType') /\ (GaugeOk <=> GaugeOk')
    /\ UNCHANGED <<daemon, up, faults, excused>> => (DaemonType <=> DaemonType')
BY DEF storeVars, streamVars, StoreType, StreamType, GaugeOk, Counts, DaemonType

LEMMA Bounds ==
    /\ BufLen \in Nat \ {0} /\ MaxEvents \in Nat /\ MaxFaults \in Nat /\ Refused \subseteq Entry
    /\ Torn \notin SUBSET Entry /\ Absent \notin SUBSET Entry
    /\ \A s \in Stores : s \subseteq Entry \ Refused
BY ControlSocketAssumption DEF ControlSocketAssumption

LEMMA JobFacts ==
    ASSUME NEW j \in Jobs, NEW c \in Client
    PROVE  /\ j[c].op \in {"add", "remove", "subscribe"}
           /\ j[c].op # "subscribe" => j[c].entry \in Entry
<1>1. j[c] \in Job
  BY ControlSocketAssumption DEF ControlSocketAssumption
<1> QED
  BY <1>1 DEF Job

LEMMA GoFacts ==
    ASSUME ClientType, NEW c \in Client, NEW l \in Place, Go(c, l)
    PROVE  /\ pc' \in [Client -> Place] /\ pc'[c] = l
           /\ \A d \in Client : d # c => pc'[d] = pc[d]
BY DEF ClientType, Go

LEMMA AnswerFacts ==
    ASSUME ClientType, NEW c \in Client, NEW l \in Place, Answer(c, l)
    PROVE  /\ pc' \in [Client -> Place] /\ pc'[c] = (IF pc[c] = "wait" THEN l ELSE pc[c])
           /\ \A d \in Client : d # c => pc'[d] = pc[d]
BY DEF ClientType, Answer

LEMMA ClosedFacts ==
    ASSUME ClientType, NEW c \in Client, NEW v \in {"none", "open", "sent", "closed"},
           conn' = [conn EXCEPT ![c] = v]
    PROVE  /\ conn' \in [Client -> {"none", "open", "sent", "closed"}] /\ conn'[c] = v
           /\ \A d \in Client : d # c => conn'[d] = conn[d]
BY DEF ClientType

LEMMA TypeInit == Init => TypeOK
<1> SUFFICES ASSUME Init PROVE TypeOK
  OBVIOUS
<1>1. ClientType
  BY DEF Init, ClientType, Place
<1>2. store \in SUBSET Entry /\ store \subseteq Entry \ Refused
  BY Bounds DEF Init
<1>3. StoreType
  BY <1>2 DEF Init, StoreType, Content
<1>4. DaemonType
  BY <1>2, Bounds DEF Init, DaemonType
<1>5. <<>> \in Seq(Type) /\ Len(<<>>) = 0 /\ <<>> \in Seq([event : Nat, dropped : SUBSET Nat])
  BY EmptySeq
<1>6. 1 \in 1..(MaxEvents + 1)
  BY Bounds
<1>7. StreamType
  BY <1>5, <1>6, Bounds DEF Init, StreamType
<1>8. Counts = {}
  BY DEF Init, Counts, Counted
<1>9. GaugeOk
  BY <1>8, FS_EmptySet DEF Init, GaugeOk
<1> QED
  BY <1>1, <1>3, <1>4, <1>7, <1>9, TypeParts

LEMMA TypeSave ==
    ASSUME TypeOK, NEW c \in Client, Load(c) \/ Create(c) \/ Write(c) \/ Rename(c)
    PROVE  TypeOK'
<1>1. ClientType /\ StoreType /\ DaemonType /\ StreamType /\ GaugeOk
  BY TypeParts
<1>2. StreamType' /\ GaugeOk'
  BY <1>1, PartsKept DEF Load, Create, Write, Rename
<1>3. UNCHANGED <<job, conn, acc, daemon, up, faults>>
  BY DEF Load, Create, Write, Rename
<1>4. job[c].op # "subscribe" => job[c].entry \in Entry
  BY <1>1, JobFacts DEF ClientType
<1>5. CASE Load(c)
  <2>1. UNCHANGED <<undo, fd, store, tmp, meant, mixed>> /\ job[c].entry \in Entry
    BY <1>4, <1>5 DEF Load
  <2>2. CASE Go(c, "failed") /\ UNCHANGED <<copy, fresh, excused>>
    <3>1. ClientType'
      BY <1>1, <1>3, <2>2, GoFacts DEF ClientType, Place, Over
    <3>2. StoreType' /\ DaemonType'
      BY <1>1, <1>3, <2>1, <2>2 DEF StoreType, DaemonType
    <3> QED
      BY <1>2, <3>1, <3>2, TypeParts
  <2>3. CASE /\ store # Torn /\ Go(c, "create")
             /\ copy' = [copy EXCEPT ![c] = Changed(c)]
             /\ fresh' = [fresh EXCEPT ![c] = TRUE]
             /\ excused' \in {excused, excused \cup {job[c].entry}}
    <3>1. ClientType'
      BY <1>1, <1>3, <2>3, GoFacts DEF ClientType, Place
    <3>2. Changed(c) \subseteq Entry
      <4>1. store \in SUBSET Entry
        BY <1>1, <2>3 DEF StoreType, Content
      <4>2. store \subseteq Entry
        BY <4>1
      <4> QED
        BY <2>1, <4>2 DEF Changed
    <3>3. copy' \in [Client -> SUBSET Entry]
      BY <1>1, <2>3, <3>2 DEF StoreType
    <3>4. fresh' \in [Client -> BOOLEAN]
      BY <1>1, <2>3 DEF StoreType
    <3>5. StoreType'
      BY <1>1, <2>1, <3>3, <3>4 DEF StoreType
    <3>6. excused' \subseteq Entry
      BY <1>1, <2>1, <2>3 DEF DaemonType
    <3>7. DaemonType'
      BY <1>1, <1>3, <3>6 DEF DaemonType
    <3> QED
      BY <1>2, <3>1, <3>5, <3>7, TypeParts
  <2> QED
    BY <1>5, <2>2, <2>3 DEF Load
<1>6. CASE Create(c)
  <2>1. /\ tmp' = {} /\ fd' = [fd EXCEPT ![c] = "tmp"] /\ Go(c, "write")
        /\ mixed' = (mixed \/ \E d \in Client \ {c} : pc[d] \in {"write", "rename"})
        /\ meant' = meant \cup {copy[c]} /\ UNCHANGED <<copy, undo, store, fresh, excused>>
    BY <1>6 DEF Create
  <2>2. ClientType'
    BY <1>1, <1>3, <2>1, GoFacts DEF ClientType, Place
  <2>3. mixed' \in BOOLEAN
    BY <1>1, <2>1 DEF StoreType
  <2>4. tmp' \in Content /\ fd' \in [Client -> {None, "tmp", "store"}] /\ meant' \subseteq SUBSET Entry
    BY <1>1, <2>1 DEF StoreType, Content
  <2>5. StoreType'
    BY <1>1, <2>1, <2>3, <2>4 DEF StoreType
  <2>6. DaemonType'
    BY <1>1, <1>3, <2>1 DEF DaemonType
  <2> QED
    BY <1>2, <2>2, <2>5, <2>6, TypeParts
<1>7. CASE Write(c)
  <2>1. /\ Go(c, "rename") /\ UNCHANGED <<copy, undo, fd, fresh, meant, mixed, excused>>
    BY <1>7 DEF Write
  <2>2. tmp' \in {copy[c], tmp, Torn} /\ store' \in {copy[c], store, Torn}
    BY <1>7 DEF Write, Overwritten
  <2>3. ClientType'
    BY <1>1, <1>3, <2>1, GoFacts DEF ClientType, Place
  <2>4. tmp' \in Content \cup {Absent} /\ store' \in Content
    <3>1. copy[c] \in Content /\ tmp \in Content \cup {Absent} /\ store \in Content
          /\ Torn \in Content
      BY <1>1 DEF StoreType, Content
    <3> QED
      BY <2>2, <3>1
  <2>5. StoreType' /\ DaemonType'
    BY <1>1, <1>3, <2>1, <2>4 DEF StoreType, DaemonType
  <2> QED
    BY <1>2, <2>3, <2>5, TypeParts
<1>8. CASE Rename(c)
  <2>1. UNCHANGED <<copy, undo, meant, mixed>>
    BY <1>8 DEF Rename
  <2>2. CASE Go(c, "failed") /\ UNCHANGED <<fd, store, tmp, fresh, excused>>
    <3>1. ClientType'
      BY <1>1, <1>3, <2>2, GoFacts DEF ClientType, Place, Over
    <3>2. StoreType' /\ DaemonType'
      BY <1>1, <1>3, <2>1, <2>2 DEF StoreType, DaemonType
    <3> QED
      BY <1>2, <3>1, <3>2, TypeParts
  <2>3. CASE /\ tmp # Absent /\ store' = tmp /\ tmp' = Absent
             /\ fd' = [d \in Client |-> IF d # c /\ fd[d] = "tmp" THEN "store" ELSE None]
             /\ fresh' = [d \in Client |-> FALSE]
             /\ excused' = (IF fresh[c] THEN excused ELSE Entry)
             /\ Go(c, IF undo[c] THEN "done" ELSE "connect")
    <3>1. (IF undo[c] THEN "done" ELSE "connect") \in Place
      BY DEF Place, Over
    <3>2. ClientType'
      BY <1>1, <1>3, <2>3, <3>1, GoFacts DEF ClientType
    <3>3. store' \in Content /\ tmp' \in Content \cup {Absent}
      BY <1>1, <2>3 DEF StoreType
    <3>4. fresh' \in [Client -> BOOLEAN]
      BY <2>3
    <3>5. fd' \in [Client -> {None, "tmp", "store"}]
      BY <2>3
    <3>6. StoreType'
      BY <1>1, <2>1, <3>3, <3>4, <3>5 DEF StoreType
    <3>7. DaemonType'
      BY <1>1, <1>3, <2>3 DEF DaemonType
    <3> QED
      BY <1>2, <3>2, <3>6, <3>7, TypeParts
  <2> QED
    BY <1>8, <2>2, <2>3 DEF Rename
<1> QED
  BY <1>5, <1>6, <1>7, <1>8

(* The steps of a client after its save, and those of the accept branch    *)
(* that change no registration.                                            *)
LEMMA TypeTalk ==
    ASSUME TypeOK, NEW c \in Client,
           \/ Kill(c) \/ Connect(c) \/ Send(c) \/ NoAnswer(c) \/ Report(c) \/ TakeBack(c)
           \/ Accept(c)
    PROVE  TypeOK'
<1>1. ClientType /\ StoreType /\ DaemonType /\ StreamType /\ GaugeOk
  BY TypeParts
<1>2. StreamType' /\ GaugeOk' /\ UNCHANGED <<job, daemon, up>>
  BY <1>1, PartsKept DEF Kill, Connect, Send, NoAnswer, Report, TakeBack, Accept
<1>3. job[c].op # "subscribe" => job[c].entry \in Entry
  BY <1>1, JobFacts DEF ClientType
<1>4. CASE Kill(c)
  <2>1. /\ Go(c, "killed") /\ UNCHANGED <<acc, storeVars>> /\ faults < MaxFaults
        /\ faults' = faults + 1 /\ excused' = excused \cup {job[c].entry}
        /\ conn' = [conn EXCEPT ![c] = IF @ = "open" THEN "closed" ELSE @]
        /\ job[c].entry \in Entry
    BY <1>3, <1>4 DEF Kill
  <2>2. conn' \in [Client -> {"none", "open", "sent", "closed"}]
    BY <1>1, <2>1 DEF ClientType
  <2>3. ClientType'
    BY <1>1, <1>2, <2>1, <2>2, GoFacts DEF ClientType, Place, Over
  <2>4. faults' \in 0..MaxFaults
    BY <1>1, <2>1, Bounds DEF DaemonType
  <2>5. DaemonType'
    BY <1>1, <1>2, <2>1, <2>4 DEF DaemonType
  <2> QED
    BY <1>1, <1>2, <2>1, <2>3, <2>5, PartsKept, TypeParts
<1>5. CASE Connect(c)
  <2>1. /\ Go(c, IF up THEN "send" ELSE "transient") /\ UNCHANGED <<acc, faults, excused, storeVars>>
        /\ conn' = (IF up THEN [conn EXCEPT ![c] = "open"] ELSE conn)
    BY <1>5 DEF Connect
  <2>2. (IF up THEN "send" ELSE "transient") \in Place
    BY DEF Place
  <2>3. conn' \in [Client -> {"none", "open", "sent", "closed"}]
    BY <1>1, <2>1 DEF ClientType
  <2>4. ClientType'
    BY <1>1, <1>2, <2>1, <2>2, <2>3, GoFacts DEF ClientType
  <2> QED
    BY <1>1, <1>2, <2>1, <2>4, PartsKept, TypeParts
<1>6. CASE Send(c)
  <2>1. UNCHANGED <<acc, faults, excused, storeVars>>
    BY <1>6 DEF Send
  <2>2. CASE Go(c, "wait") /\ conn' = [conn EXCEPT ![c] = "sent"]
    BY <1>1, <1>2, <2>1, <2>2, GoFacts, ClosedFacts, PartsKept, TypeParts DEF ClientType, Place
  <2>3. CASE Go(c, "transient") /\ UNCHANGED conn
    BY <1>1, <1>2, <2>1, <2>3, GoFacts, PartsKept, TypeParts DEF ClientType, Place
  <2> QED
    BY <1>6, <2>2, <2>3 DEF Send
<1>7. CASE NoAnswer(c)
  <2>1. UNCHANGED <<conn, acc, faults, excused, storeVars>> /\ Go(c, "transient")
    BY <1>7 DEF NoAnswer
  <2> QED
    BY <1>1, <1>2, <2>1, GoFacts, PartsKept, TypeParts DEF ClientType, Place
<1>8. CASE Report(c)
  <2>1. /\ UNCHANGED <<conn, acc, faults, storeVars>> /\ Go(c, "done")
    BY <1>8 DEF Report
  <2>2. excused' \subseteq Entry
    BY <1>1, <1>3, <1>8 DEF Report, DaemonType
  <2>3. DaemonType'
    BY <1>1, <1>2, <2>1, <2>2 DEF DaemonType
  <2>4. ClientType'
    BY <1>1, <1>2, <2>1, GoFacts DEF ClientType, Place, Over
  <2> QED
    BY <1>1, <1>2, <2>1, <2>3, <2>4, PartsKept, TypeParts
<1>9. CASE TakeBack(c)
  <2>1. /\ UNCHANGED <<conn, acc, faults, excused, copy, fd, store, tmp, fresh, meant, mixed>>
        /\ \/ Go(c, "load") /\ undo' = [undo EXCEPT ![c] = TRUE]
           \/ Go(c, "done") /\ undo' = undo
    BY <1>9 DEF TakeBack
  <2>2. ClientType'
    BY <1>1, <1>2, <2>1, GoFacts DEF ClientType, Place, Over
  <2>3. undo' \in [Client -> BOOLEAN]
    <3>1. CASE undo' = [undo EXCEPT ![c] = TRUE]
      BY <1>1, <3>1 DEF StoreType
    <3>2. CASE undo' = undo
      BY <1>1, <3>2 DEF StoreType
    <3> QED
      BY <2>1, <3>1, <3>2
  <2>4. StoreType'
    BY <1>1, <2>1, <2>3 DEF StoreType
  <2> QED
    BY <1>1, <1>2, <2>1, <2>2, <2>4, PartsKept, TypeParts
<1>10. CASE Accept(c)
  BY <1>1, <1>2, <1>10, PartsKept, TypeParts DEF Accept, ClientType
<1> QED
  BY <1>4, <1>5, <1>6, <1>7, <1>8, <1>9, <1>10

LEMMA TypeDrop ==
    ASSUME TypeOK, Cancel \/ DropClosed
    PROVE  TypeOK'
<1>1. ClientType /\ StoreType /\ DaemonType /\ StreamType /\ GaugeOk
  BY TypeParts
<1>2. /\ StreamType' /\ GaugeOk' /\ StoreType' /\ DaemonType' /\ UNCHANGED <<job, pc>>
      /\ acc' = None
  BY <1>1, PartsKept DEF Cancel, DropClosed
<1>3. CASE Cancel
  <2>1. acc \in Client
    BY <1>1, <1>3 DEF Cancel, ClientType
  <2>2. conn' = [conn EXCEPT ![acc] = "closed"]
    BY <1>3 DEF Cancel
  <2>3. ClientType'
    BY <1>1, <1>2, <2>1, <2>2 DEF ClientType
  <2> QED
    BY <1>2, <2>3, TypeParts
<1>4. CASE DropClosed
  BY <1>1, <1>2, <1>4, TypeParts DEF DropClosed, ClientType
<1> QED
  BY <1>3, <1>4

LEMMA TypeHandle ==
    ASSUME TypeOK, NEW c \in Client, Handle(c)
    PROVE  TypeOK'
<1>1. ClientType /\ StoreType /\ DaemonType /\ StreamType /\ GaugeOk
  BY TypeParts
<1>2. /\ StreamType' /\ GaugeOk' /\ StoreType' /\ UNCHANGED <<job, up, excused>>
      /\ acc' = None /\ conn' = [conn EXCEPT ![c] = "closed"] /\ job[c].op # "subscribe"
  BY <1>1, PartsKept DEF Handle
<1>3. job[c].entry \in Entry
  BY <1>1, <1>2, JobFacts DEF ClientType
<1>4. \E l \in {"ok", "transient", "permanent"} : Answer(c, l)
  BY DEF Handle
<1>5. ClientType'
  BY <1>1, <1>2, <1>4, AnswerFacts, ClosedFacts DEF ClientType, Place
<1>6. daemon' \subseteq Entry \ Refused
  BY <1>1, <1>3 DEF Handle, DaemonType
<1>7. faults' \in 0..MaxFaults
  <2>1. \/ faults' = faults
        \/ faults < MaxFaults /\ faults' = faults + 1
    BY DEF Handle
  <2>2. CASE faults' = faults
    BY <1>1, <2>2 DEF DaemonType
  <2>3. CASE faults < MaxFaults /\ faults' = faults + 1
    BY <1>1, <2>3, Bounds DEF DaemonType
  <2> QED
    BY <2>1, <2>2, <2>3
<1>8. DaemonType'
  BY <1>1, <1>2, <1>6, <1>7 DEF DaemonType
<1> QED
  BY <1>2, <1>5, <1>8, TypeParts

(* The steps that end or start subscriptions, or move one on. *)
LEMMA GaugeStep ==
    ASSUME TypeOK, TaskInv, ClientInv, IsFiniteSet(Counts), NEW c \in Client,
           Subscribe(c) \/ Leave(c) \/ Greet(c) \/ Lagged(c) \/ Recv(c)
    PROVE  IsFiniteSet(Counts') /\ GaugeOk'
<1>1. ClientType /\ StreamType /\ GaugeOk
  BY TypeParts
<1>2. task \in [Client -> {"none", "greet", "stream", "ended", "leaked"}]
  BY <1>1 DEF StreamType
<1>3. CASE Subscribe(c)
  <2>1. task[c] = "none"
    BY <1>3 DEF Subscribe, TaskInv, TaskOk
  <2>2. task' = [task EXCEPT ![c] = "greet"] /\ gauge' = gauge + 1
    BY <1>3 DEF Subscribe
  <2>3. c \notin Counts /\ Counts' = Counts \cup {c}
    BY <1>2, <2>1, <2>2 DEF Counts, Counted
  <2>4. IsFiniteSet(Counts \cup {c}) /\ Cardinality(Counts \cup {c}) = Cardinality(Counts) + 1
    BY <2>3, FS_AddElement
  <2> QED
    BY <1>1, <2>2, <2>3, <2>4 DEF GaugeOk
<1>4. CASE Leave(c) \/ Lagged(c) \/ Greet(c)
  <2>1. gauge' = gauge
    BY <1>4 DEF Leave, Lagged, Greet
  <2>2. Counts' = Counts
    <3>1. CASE task' = task
      BY <3>1 DEF Counts
    <3>2. CASE Greet(c)
      <4>1. /\ task[c] = "greet"
            /\ task' = [task EXCEPT ![c] = IF c \in left THEN "leaked" ELSE "stream"]
        BY <3>2 DEF Greet
      <4> QED
        BY <1>2, <4>1 DEF Counts, Counted
    <3> QED
      BY <1>4, <3>1, <3>2 DEF Leave, Lagged
  <2> QED
    BY <1>1, <2>1, <2>2 DEF GaugeOk
<1>5. CASE Recv(c)
  <2>1. /\ task[c] = "stream"
        /\ \/ task' = task /\ gauge' = gauge
           \/ task' = [task EXCEPT ![c] = "ended"] /\ gauge' = gauge - 1
    BY <1>5 DEF Recv
  <2>2. CASE task' = task /\ gauge' = gauge
    BY <1>1, <2>2 DEF GaugeOk, Counts
  <2>3. CASE task' = [task EXCEPT ![c] = "ended"] /\ gauge' = gauge - 1
    <3>1. c \in Counts /\ Counts' = Counts \ {c}
      BY <1>2, <2>1, <2>3 DEF Counts, Counted
    <3>2. IsFiniteSet(Counts \ {c}) /\ Cardinality(Counts \ {c}) = Cardinality(Counts) - 1
      BY <3>1, FS_RemoveElement
    <3> QED
      BY <1>1, <2>3, <3>1, <3>2 DEF GaugeOk
  <2> QED
    BY <2>1, <2>2, <2>3
<1> QED
  BY <1>3, <1>4, <1>5

LEMMA OldestFacts ==
    ASSUME log \in Seq(Type)
    PROVE  Oldest \in 1..(Len(log) + 1) /\ Len(log) \in Nat
<1>1. Len(log) \in Nat
  BY LenProperties
<1>2. CASE Len(log) > BufLen
  BY <1>1, <1>2, Bounds DEF Oldest
<1>3. CASE ~(Len(log) > BufLen)
  BY <1>1, <1>3, Bounds DEF Oldest
<1> QED
  BY <1>1, <1>2, <1>3

LEMMA LineFacts ==
    ASSUME StreamType, NEW c \in Client, NEW e \in Nat, NEW n \in SUBSET Nat, Line(c, e, n)
    PROVE  /\ got' \in [Client -> Seq([event : Nat, dropped : SUBSET Nat])]
           /\ \A d \in Client : d # c => got'[d] = got[d]
           /\ c \notin left => got'[c] = Append(got[c], [event |-> e, dropped |-> n])
<1>1. got[c] \in Seq([event : Nat, dropped : SUBSET Nat])
  BY DEF StreamType
<1>2. [event |-> e, dropped |-> n] \in [event : Nat, dropped : SUBSET Nat]
  OBVIOUS
<1>3. Append(got[c], [event |-> e, dropped |-> n]) \in Seq([event : Nat, dropped : SUBSET Nat])
  BY <1>1, <1>2, AppendProperties
<1> QED
  BY <1>3 DEF StreamType, Line

LEMMA TypeStream ==
    ASSUME TypeOK, TaskInv, ClientInv, StreamInv, NEW c \in Client,
           Subscribe(c) \/ Leave(c) \/ Greet(c) \/ Lagged(c) \/ Recv(c)
    PROVE  TypeOK'
<1>1. ClientType /\ StoreType /\ DaemonType /\ StreamType
  BY TypeParts
<1>2. GaugeOk'
  BY GaugeStep DEF StreamInv
<1>3. StoreType' /\ DaemonType' /\ log' = log
  BY <1>1, PartsKept DEF Subscribe, Leave, Greet, Lagged, Recv
<1>4. /\ log \in Seq(Type) /\ Len(log) \in Nat /\ Len(log) <= MaxEvents
      /\ Oldest \in 1..(Len(log) + 1) /\ MaxEvents \in Nat
  BY <1>1, OldestFacts, Bounds DEF StreamType
<1>5. /\ Oldest \in 1..(MaxEvents + 1) /\ Len(log) + 1 \in 1..(MaxEvents + 1)
      /\ pos[c] \in 1..(MaxEvents + 1) /\ pos[c] \in Nat
  BY <1>1, <1>4 DEF StreamType
<1>6. CASE Subscribe(c)
  <2>1. ClientType'
    <3>1. acc' = None /\ conn' = [conn EXCEPT ![c] = "closed"] /\ Answer(c, "ok") /\ job' = job
      BY <1>6 DEF Subscribe
    <3> QED
      BY <1>1, <3>1, AnswerFacts, ClosedFacts DEF ClientType, Place
  <2>2. StreamType'
    BY <1>1, <1>3, <1>5, <1>6 DEF StreamType, Subscribe
  <2> QED
    BY <1>2, <1>3, <2>1, <2>2, TypeParts
<1>7. CASE Leave(c) \/ Greet(c)
  BY <1>1, <1>2, <1>3, <1>7, TypeParts DEF StreamType, ClientType, Leave, Greet
<1>8. CASE Lagged(c)
  <2>1. ClientType'
    BY <1>1, <1>8 DEF ClientType, Lagged
  <2>2. pos' = [pos EXCEPT ![c] = Oldest] /\ Line(c, 0, pos[c]..(Oldest - 1))
        /\ UNCHANGED <<task, left, from>>
    BY <1>8 DEF Lagged
  <2>3. pos[c]..(Oldest - 1) \in SUBSET Nat
    BY <1>4, <1>5
  <2>4. got' \in [Client -> Seq([event : Nat, dropped : SUBSET Nat])]
    BY <1>1, <2>2, <2>3, LineFacts
  <2>5. StreamType'
    BY <1>1, <1>3, <1>5, <2>2, <2>4 DEF StreamType
  <2> QED
    BY <1>2, <1>3, <2>1, <2>5, TypeParts
<1>9. CASE Recv(c)
  <2>1. ClientType'
    BY <1>1, <1>9 DEF ClientType, Recv
  <2>2. /\ pos[c] \in Oldest..Len(log) /\ pos' = [pos EXCEPT ![c] = @ + 1]
        /\ got' = got \/ Line(c, pos[c], {})
        /\ task' = task \/ task' = [task EXCEPT ![c] = "ended"]
        /\ UNCHANGED <<left, from>>
    BY <1>9 DEF Recv
  <2>3. pos[c] + 1 \in 1..(MaxEvents + 1)
    BY <1>4, <1>5, <2>2
  <2>4. got' \in [Client -> Seq([event : Nat, dropped : SUBSET Nat])]
    <3>1. CASE got' = got
      BY <1>1, <3>1 DEF StreamType
    <3>2. CASE Line(c, pos[c], {})
      <4>1. {} \in SUBSET Nat
        OBVIOUS
      <4> QED
        BY <1>1, <1>5, <3>2, <4>1, LineFacts
    <3> QED
      BY <2>2, <3>1, <3>2
  <2>5. pos' \in [Client -> 1..(MaxEvents + 1)]
    BY <1>1, <2>2, <2>3 DEF StreamType
  <2>6. task' \in [Client -> {"none", "greet", "stream", "ended", "leaked"}]
    <3>1. CASE task' = task
      BY <1>1, <3>1 DEF StreamType
    <3>2. CASE task' = [task EXCEPT ![c] = "ended"]
      BY <1>1, <3>2 DEF StreamType
    <3> QED
      BY <2>2, <3>1, <3>2
  <2>7. StreamType'
    BY <1>1, <1>3, <2>2, <2>4, <2>5, <2>6 DEF StreamType
  <2> QED
    BY <1>2, <1>3, <2>1, <2>7, TypeParts
<1> QED
  BY <1>6, <1>7, <1>8, <1>9

LEMMA TypeStop ==
    ASSUME TypeOK, StreamInv, Stop
    PROVE  TypeOK' /\ IsFiniteSet(Counts')
<1>1. ClientType /\ StoreType /\ DaemonType /\ StreamType
  BY TypeParts
<1>2. /\ up' = FALSE /\ acc' = None
      /\ conn' = [c \in Client |-> IF conn[c] \in {"open", "sent"} THEN "closed" ELSE conn[c]]
      /\ task' = [c \in Client |-> IF task[c] \in {"greet", "stream"} THEN "ended" ELSE task[c]]
      /\ gauge' = Cardinality({c \in Client : task[c] = "leaked"})
      /\ UNCHANGED <<job, pc, daemon, faults, excused, log, pos, got, left, from, storeVars>>
  BY DEF Stop
<1>3. StoreType' /\ DaemonType'
  BY <1>1, <1>2, PartsKept DEF DaemonType
<1>4. ClientType'
  BY <1>1, <1>2 DEF ClientType
<1>5. task' \in [Client -> {"none", "greet", "stream", "ended", "leaked"}]
  BY <1>1, <1>2 DEF StreamType
<1>6. StreamType'
  BY <1>1, <1>2, <1>5 DEF StreamType
<1>7. Counts' = {c \in Client : task[c] = "leaked"} /\ Counts' \subseteq Counts
  BY <1>2 DEF Counts, Counted
<1>8. IsFiniteSet(Counts')
  BY <1>7, FS_Subset DEF StreamInv
<1>9. GaugeOk'
  BY <1>2, <1>7 DEF GaugeOk
<1> QED
  BY <1>3, <1>4, <1>6, <1>8, <1>9, TypeParts

LEMMA TypePublish ==
    ASSUME TypeOK, NEW t \in Type, Publish(t)
    PROVE  TypeOK' /\ Counts' = Counts
<1>1. ClientType /\ StoreType /\ DaemonType /\ StreamType /\ GaugeOk
  BY TypeParts
<1>2. StoreType' /\ DaemonType' /\ ClientType' /\ Counts' = Counts /\ GaugeOk'
  BY <1>1, PartsKept DEF Publish, ClientType, Counts, GaugeOk
<1>3. log' \in Seq(Type) /\ Len(log') = Len(log) + 1 /\ Len(log) \in Nat
  BY <1>1, AppendProperties, LenProperties DEF Publish, StreamType
<1>4. Len(log') <= MaxEvents
  BY <1>3, Bounds DEF Publish
<1>5. StreamType'
  BY <1>1, <1>3, <1>4 DEF StreamType, Publish
<1> QED
  BY <1>2, <1>5, TypeParts

LEMMA TypeNext ==
    ASSUME TypeOK, ClientInv, TaskInv, StreamInv, [Next]_vars
    PROVE  TypeOK'
<1>1. CASE UNCHANGED vars
  BY <1>1 DEF vars, TypeOK
<1>2. ASSUME NEW c \in Client, ClientStep(c) \/ Kill(c) \/ Leave(c) \/ TaskStep(c) PROVE TypeOK'
  <2>1. CASE Load(c) \/ Create(c) \/ Write(c) \/ Rename(c)
    BY <2>1, TypeSave
  <2>2. CASE \/ Kill(c) \/ Connect(c) \/ Send(c) \/ NoAnswer(c) \/ Report(c) \/ TakeBack(c)
    BY <2>2, TypeTalk
  <2>3. CASE Leave(c) \/ Greet(c) \/ Lagged(c) \/ Recv(c)
    BY <2>3, TypeStream
  <2> QED
    BY <1>2, <2>1, <2>2, <2>3 DEF ClientStep, TaskStep
<1>3. CASE ServerStep
  <2>1. ASSUME NEW c \in Client, Accept(c) \/ Handle(c) \/ Subscribe(c) PROVE TypeOK'
    BY <2>1, TypeTalk, TypeHandle, TypeStream
  <2> QED
    BY <1>3, <2>1, TypeDrop DEF ServerStep
<1> QED
  BY <1>1, <1>2, <1>3, TypeDrop, TypeStop, TypePublish DEF Next

-----------------------------------------------------------------------------
(* Clients and tasks.                                                      *)

LEMMA ClientFrame ==
    ASSUME NEW d \in Client, ClientOk(d), job' = job, pc'[d] = pc[d], undo'[d] = undo[d],
           conn'[d] \in {conn[d], "closed"}, excused \subseteq excused'
    PROVE  ClientOk(d)'
BY DEF ClientOk, Command

LEMMA ClientSave ==
    ASSUME TypeOK, ClientInv, NEW c \in Client,
           Load(c) \/ Create(c) \/ Write(c) \/ Rename(c)
    PROVE  ClientInv'
<1>1. ClientType /\ ClientOk(c)
  BY TypeParts DEF ClientInv
<1>2. UNCHANGED <<job, undo, conn>>
  BY DEF Load, Create, Write, Rename
<1>3. PICK l \in {"failed", "create", "write", "rename", "done", "connect"} :
        /\ Go(c, l)
        /\ l \in {"done", "connect"} => (l = "done" <=> undo[c])
  BY DEF Load, Create, Write, Rename
<1>4. Command(c) /\ pc[c] \in Saving \cup {"load"}
  BY <1>1 DEF Load, Create, Write, Rename, ClientOk, Command, Saving
<1>5. excused \subseteq excused'
  BY TypeParts DEF Load, Create, Write, Rename, DaemonType
<1>6. pc'[c] = l /\ \A d \in Client : d # c => pc'[d] = pc[d]
  BY <1>1, <1>3, GoFacts DEF Place, Over
<1>7. ClientOk(c)'
  BY <1>1, <1>2, <1>3, <1>4, <1>6 DEF ClientOk, Command, Saving, Over
<1>8. ASSUME NEW d \in Client, d # c PROVE ClientOk(d)'
  BY <1>2, <1>5, <1>6, <1>8, ClientFrame DEF ClientInv
<1> QED
  BY <1>7, <1>8 DEF ClientInv

LEMMA ClientTalk ==
    ASSUME TypeOK, ClientInv, NEW c \in Client,
           \/ Kill(c) \/ Connect(c) \/ Send(c) \/ NoAnswer(c) \/ Report(c) \/ TakeBack(c)
    PROVE  ClientInv'
<1>1. ClientType /\ ClientOk(c) /\ DaemonType /\ StoreType
  BY TypeParts DEF ClientInv
<1>2. job' = job /\ excused \subseteq excused'
  BY <1>1 DEF Kill, Connect, Send, NoAnswer, Report, TakeBack, DaemonType
<1>3. \A d \in Client : d # c => conn'[d] = conn[d]
  BY <1>1 DEF Kill, Connect, Send, NoAnswer, Report, TakeBack, ClientType
<1>4. \A d \in Client : d # c => undo'[d] = undo[d]
  BY <1>1 DEF Kill, Connect, Send, NoAnswer, Report, TakeBack, StoreType, storeVars
<1>5. PICK l \in Place : Go(c, l)
  BY DEF Kill, Connect, Send, NoAnswer, Report, TakeBack, Place, Over
<1>6. pc'[c] = l /\ \A d \in Client : d # c => pc'[d] = pc[d]
  BY <1>1, <1>5, GoFacts
<1>7. ASSUME NEW d \in Client, d # c PROVE ClientOk(d)'
  BY <1>2, <1>3, <1>4, <1>6, <1>7, ClientFrame DEF ClientInv
<1>8. ClientOk(c)'
  <2>1. CASE Kill(c)
    <3>1. /\ pc'[c] = "killed" /\ undo' = undo /\ Command(c)
          /\ job[c].entry \in excused'
      BY <1>1, <2>1 DEF Kill, Go, ClientType, storeVars, Command
    <3> QED
      BY <1>1, <1>2, <3>1 DEF ClientOk, Command, Saving, Over
  <2>2. CASE Connect(c)
    <3>1. /\ pc'[c] \in {"send", "transient"} /\ undo' = undo
          /\ conn'[c] \in {conn[c], "open"}
          /\ pc[c] = "connect" \/ (pc[c] = "load" /\ ~Command(c))
      BY <1>1, <2>2 DEF Connect, Go, ClientType, storeVars, Command
    <3>2. ~undo[c] /\ conn[c] # "sent"
      BY <1>1, <3>1 DEF ClientOk, Command, Saving, Over
    <3> QED
      BY <1>1, <1>2, <3>1, <3>2 DEF ClientOk, Command, Saving, Over
  <2>3. CASE Send(c)
    <3>1. /\ undo' = undo /\ pc[c] = "send"
          /\ \/ pc'[c] = "wait" /\ conn'[c] = "sent"
             \/ pc'[c] = "transient" /\ conn'[c] = conn[c]
      BY <1>1, <2>3 DEF Send, Go, ClientType, storeVars, Command
    <3>2. ~undo[c] /\ conn[c] # "sent"
      BY <1>1, <3>1 DEF ClientOk, Command, Saving, Over
    <3> QED
      BY <1>1, <1>2, <3>1, <3>2 DEF ClientOk, Command, Saving, Over
  <2>4. CASE NoAnswer(c)
    <3>1. /\ undo' = undo /\ pc[c] = "wait" /\ conn' = conn /\ conn[c] = "closed"
          /\ pc'[c] = "transient"
      BY <1>1, <2>4 DEF NoAnswer, Go, ClientType, storeVars, Command
    <3>2. ~undo[c]
      BY <1>1, <3>1 DEF ClientOk, Command, Saving, Over
    <3> QED
      BY <1>1, <1>2, <3>1, <3>2 DEF ClientOk, Command, Saving, Over
  <2>5. CASE Report(c)
    <3>1. undo' = undo /\ pc[c] \in {"ok", "transient"} /\ conn' = conn /\ pc'[c] = "done"
      BY <1>1, <2>5 DEF Report, Go, ClientType, storeVars, Command
    <3> QED
      BY <1>1, <1>2, <3>1 DEF ClientOk, Command, Saving, Over
  <2>6. CASE TakeBack(c)
    <3>1. /\ pc[c] = "permanent" /\ conn' = conn
          /\ pc'[c] = "load" /\ undo'[c] = TRUE
      BY <1>1, <2>6 DEF TakeBack, Go, ClientType, StoreType, ClientOk
    <3> QED
      BY <1>1, <1>2, <3>1 DEF ClientOk, Command, Saving, Over
  <2> QED
    BY <2>1, <2>2, <2>3, <2>4, <2>5, <2>6
<1> QED
  BY <1>7, <1>8 DEF ClientInv

LEMMA ClientServed ==
    ASSUME TypeOK, ClientInv, NEW c \in Client, Handle(c) \/ Subscribe(c)
    PROVE  ClientInv'
<1>1. ClientType /\ ClientOk(c)
  BY TypeParts DEF ClientInv
<1>2. /\ UNCHANGED <<job, excused, undo>> /\ conn[c] = "sent"
      /\ conn' = [conn EXCEPT ![c] = "closed"]
  BY DEF Handle, Subscribe, storeVars
<1>3. conn'[c] = "closed" /\ \A d \in Client : d # c => conn'[d] = conn[d]
  BY <1>1, <1>2, ClosedFacts
<1>4. PICK l \in {"ok", "transient", "permanent"} :
        /\ Answer(c, l)
        /\ l = "permanent" => job[c].op = "add" /\ job[c].entry \in Refused
        /\ l = "ok" /\ job[c].op = "add" => job[c].entry \notin Refused
        /\ ~Command(c) => l = "ok"
  BY DEF Handle, Subscribe, Command
<1>5. /\ pc'[c] = (IF pc[c] = "wait" THEN l ELSE pc[c])
      /\ \A d \in Client : d # c => pc'[d] = pc[d]
  BY <1>1, <1>4, AnswerFacts DEF Place
<1>6. ASSUME NEW d \in Client, d # c PROVE ClientOk(d)'
  BY <1>2, <1>3, <1>5, <1>6, ClientFrame DEF ClientInv
<1>7. ClientOk(c)'
  <2>1. CASE pc[c] = "wait"
    <3>1. ~undo[c] /\ pc'[c] = l
      BY <1>1, <1>5, <2>1 DEF ClientOk, Saving, Over
    <3> QED
      BY <1>1, <1>2, <1>3, <1>4, <3>1 DEF ClientOk, Command, Saving, Over
  <2>2. CASE pc[c] # "wait"
    BY <1>2, <1>3, <1>5, <1>1, <2>2, ClientFrame
  <2> QED
    BY <2>1, <2>2
<1> QED
  BY <1>6, <1>7 DEF ClientInv

LEMMA ClientRest ==
    ASSUME TypeOK, ClientInv, UNCHANGED <<job, pc, excused, undo>>,
           \A d \in Client : conn'[d] \in {conn[d], "closed"}
    PROVE  ClientInv'
BY ClientFrame DEF ClientInv

LEMMA ClientNext ==
    ASSUME TypeOK, ClientInv, [Next]_vars
    PROVE  ClientInv'
<1>1. ClientType
  BY TypeParts
<1>2. CASE UNCHANGED vars
  BY <1>2, ClientRest DEF vars
<1>3. ASSUME NEW c \in Client, ClientStep(c) \/ Kill(c) PROVE ClientInv'
  BY <1>3, ClientSave, ClientTalk DEF ClientStep
<1>4. ASSUME NEW c \in Client, Leave(c) \/ TaskStep(c) \/ Accept(c) PROVE ClientInv'
  <2>1. UNCHANGED <<job, pc, excused, undo, conn>>
    BY <1>4 DEF TaskStep, Leave, Greet, Lagged, Recv, Accept, storeVars
  <2> QED
    BY <2>1, ClientRest
<1>5. ASSUME NEW c \in Client, Handle(c) \/ Subscribe(c) PROVE ClientInv'
  BY <1>5, ClientServed
<1>6. CASE Cancel \/ DropClosed
  <2>1. UNCHANGED <<job, pc, excused, undo>> /\ acc \in Client
    BY <1>1, <1>6 DEF Cancel, DropClosed, storeVars, ClientType
  <2>2. conn' = conn \/ conn' = [conn EXCEPT ![acc] = "closed"]
    BY <1>6 DEF Cancel, DropClosed
  <2>3. \A d \in Client : conn'[d] \in {conn[d], "closed"}
    BY <1>1, <2>1, <2>2 DEF ClientType
  <2> QED
    BY <2>1, <2>3, ClientRest
<1>7. CASE Stop
  <2>1. \A d \in Client : conn'[d] \in {conn[d], "closed"}
    BY <1>7 DEF Stop
  <2>2. UNCHANGED <<job, pc, excused, undo>>
    BY <1>7 DEF Stop, storeVars
  <2> QED
    BY <2>1, <2>2, ClientRest
<1>8. ASSUME NEW t \in Type, Publish(t) PROVE ClientInv'
  <2>1. UNCHANGED <<job, pc, excused, undo, conn>>
    BY <1>8 DEF Publish, storeVars
  <2> QED
    BY <2>1, ClientRest
<1> QED
  BY <1>2, <1>3, <1>4, <1>5, <1>6, <1>7, <1>8 DEF Next, ServerStep

LEMMA TaskFrame ==
    ASSUME NEW d \in Client, TaskOk(d), job' = job, task[d] = "none" => task'[d] = "none",
           pc[d] \in {"ok", "done"} => pc'[d] \in {"ok", "done"} \/ Command(d),
           conn[d] = "closed" => conn'[d] = "closed"
    PROVE  TaskOk(d)'
BY DEF TaskOk, Command

LEMMA TaskNext ==
    ASSUME TypeOK, ClientInv, TaskInv, [Next]_vars
    PROVE  TaskInv'
<1>1. ClientType /\ StreamType
  BY TypeParts
<1>2. /\ pc \in [Client -> Place] /\ conn \in [Client -> {"none", "open", "sent", "closed"}]
      /\ task \in [Client -> {"none", "greet", "stream", "ended", "leaked"}]
  BY <1>1 DEF ClientType, StreamType
<1>3. CASE UNCHANGED vars
  BY <1>3 DEF vars, TaskInv, TaskOk, Command
<1>4. ASSUME NEW c \in Client, ClientStep(c) \/ Kill(c) PROVE TaskInv'
  <2>1. UNCHANGED <<job, task>>
    BY <1>4 DEF ClientStep, Load, Create, Write, Rename, Connect, Send, NoAnswer, Report,
                TakeBack, Kill, streamVars
  <2>2. PICK l \in Place : Go(c, l)
    BY <1>4 DEF ClientStep, Load, Create, Write, Rename, Connect, Send, NoAnswer, Report,
                TakeBack, Kill, Place, Over
  <2>3. pc'[c] = l /\ \A d \in Client : d # c => pc'[d] = pc[d]
    BY <1>1, <2>2, GoFacts
  <2>4. pc[c] \in {"ok", "done"} => pc'[c] \in {"ok", "done"} \/ Command(c)
    BY <1>2, <1>4 DEF ClientStep, Load, Create, Write, Rename, Connect, Send, NoAnswer, Report,
                TakeBack, Kill, Over, Command, Go
  <2>5. \A d \in Client : d # c => conn'[d] = conn[d]
    BY <1>2, <1>4 DEF ClientStep, Load, Create, Write, Rename, Connect, Send, NoAnswer, Report,
                TakeBack, Kill
  <2>6. ASSUME task[c] # "none" PROVE conn[c] = "closed" => conn'[c] = "closed"
    <3>1. pc[c] \in {"ok", "done"} /\ ~Command(c)
      BY <2>6 DEF TaskInv, TaskOk
    <3> QED
      BY <1>2, <1>4, <3>1 DEF ClientStep, Load, Create, Write, Rename, Connect, Send, NoAnswer,
                Report, TakeBack, Kill, Command
  <2>7. TaskOk(c)'
    <3>1. CASE task[c] = "none"
      BY <2>1, <3>1 DEF TaskOk
    <3>2. CASE task[c] # "none"
      BY <2>1, <2>4, <2>6, <3>2, TaskFrame DEF TaskInv
    <3> QED
      BY <3>1, <3>2
  <2>8. ASSUME NEW d \in Client, d # c PROVE TaskOk(d)'
    BY <2>1, <2>3, <2>5, <2>8, TaskFrame DEF TaskInv
  <2> QED
    BY <2>7, <2>8 DEF TaskInv
<1>5. ASSUME NEW c \in Client, Leave(c) \/ TaskStep(c) \/ Accept(c) PROVE TaskInv'
  <2>1. UNCHANGED <<job, pc, conn>>
    BY <1>5 DEF TaskStep, Leave, Greet, Lagged, Recv, Accept
  <2>2. \A d \in Client : task[d] = "none" => task'[d] = "none"
    BY <1>2, <1>5 DEF TaskStep, Leave, Greet, Lagged, Recv, Accept, streamVars
  <2> QED
    BY <2>1, <2>2, TaskFrame DEF TaskInv
<1>6. ASSUME NEW c \in Client, Handle(c) \/ Subscribe(c) PROVE TaskInv'
  <2>1. /\ job' = job /\ conn[c] = "sent" /\ conn' = [conn EXCEPT ![c] = "closed"]
        /\ task' = task \/ (task' = [task EXCEPT ![c] = "greet"] /\ ~Command(c) /\ Answer(c, "ok"))
    BY <1>6 DEF Handle, Subscribe, streamVars, Command
  <2>2. conn'[c] = "closed" /\ \A d \in Client : d # c => conn'[d] = conn[d]
    BY <1>1, <2>1, ClosedFacts
  <2>3. task[c] = "none" /\ pc[c] \in {"wait", "killed"} /\ (~Command(c) => pc[c] = "wait")
    BY <2>1 DEF TaskInv, TaskOk, ClientInv, ClientOk
  <2>4. PICK l \in Place : Answer(c, l)
    BY <1>6 DEF Handle, Subscribe, Place
  <2>5. \A d \in Client : d # c => pc'[d] = pc[d]
    BY <1>1, <2>4, AnswerFacts
  <2>6. \A d \in Client : d # c => task'[d] = task[d]
    BY <1>2, <2>1
  <2>7. ASSUME NEW d \in Client, d # c PROVE TaskOk(d)'
    BY <2>1, <2>2, <2>5, <2>6, <2>7, TaskFrame DEF TaskInv
  <2>8. TaskOk(c)'
    <3>1. CASE task' = task
      BY <2>3, <3>1 DEF TaskOk
    <3>2. CASE ~Command(c) /\ Answer(c, "ok")
      <4>1. pc'[c] = "ok"
        BY <1>1, <2>3, <3>2, AnswerFacts DEF Place
      <4> QED
        BY <2>1, <2>2, <3>2, <4>1 DEF TaskOk, Command
    <3> QED
      BY <2>1, <3>1, <3>2
  <2> QED
    BY <2>7, <2>8 DEF TaskInv
<1>7. CASE Cancel \/ DropClosed \/ Stop
  <2>1. UNCHANGED <<job, pc>>
    BY <1>7 DEF Cancel, DropClosed, Stop
  <2>2. \A d \in Client : task[d] = "none" => task'[d] = "none"
    BY <1>2, <1>7 DEF Cancel, DropClosed, Stop, streamVars
  <2>3. \A d \in Client : conn[d] = "closed" => conn'[d] = "closed"
    BY <1>2, <1>7 DEF Cancel, DropClosed, Stop
  <2> QED
    BY <2>1, <2>2, <2>3, TaskFrame DEF TaskInv
<1>8. ASSUME NEW t \in Type, Publish(t) PROVE TaskInv'
  <2>1. UNCHANGED <<job, pc, conn, task>>
    BY <1>8 DEF Publish
  <2> QED
    BY <2>1, TaskFrame DEF TaskInv
<1> QED
  BY <1>3, <1>4, <1>5, <1>6, <1>7, <1>8 DEF Next, ServerStep

-----------------------------------------------------------------------------
(* What a subscriber is told.                                              *)

Drops == SUBSET Nat
Said  == [event : Nat, dropped : Drops]
OneMore(g, e, n) == Append(g, [event |-> e, dropped |-> n])

LEMMA ToldLine ==
    ASSUME NEW g \in Seq(Said), NEW e \in Nat, NEW n \in Drops
    PROVE  /\ Len(g) \in Nat /\ Sents(g) \subseteq 1..Len(g)
           /\ \A i \in Sents(g) : OneMore(g, e, n)[i] = g[i]
           /\ e = 0 => /\ Sents(OneMore(g, e, n)) = Sents(g)
                       /\ Events(OneMore(g, e, n)) = Events(g)
           /\ e # 0 => /\ Sents(OneMore(g, e, n)) = Sents(g) \cup {Len(g) + 1}
                       /\ Events(OneMore(g, e, n)) = Events(g) \cup {e}
           /\ Warned(OneMore(g, e, n)) = Warned(g) \cup n
           /\ OneMore(g, e, n)[Len(g) + 1].event = e
<1> DEFINE h == OneMore(g, e, n)
<1>1. Len(g) \in Nat /\ DOMAIN g = 1..Len(g)
  BY LenProperties
<1>2. [event |-> e, dropped |-> n] \in Said
  BY DEF Said
<1>3. /\ h \in Seq(Said) /\ Len(h) = Len(g) + 1 /\ h[Len(g) + 1] = [event |-> e, dropped |-> n]
      /\ \A i \in 1..Len(g) : h[i] = g[i]
  BY <1>2, AppendProperties DEF OneMore
<1> HIDE DEF h
<1>4. DOMAIN h = 1..(Len(g) + 1)
  BY <1>3, LenProperties
<1>5. DOMAIN h = DOMAIN g \cup {Len(g) + 1} /\ Len(g) + 1 \notin DOMAIN g
  BY <1>1, <1>4
<1>6. \A i \in DOMAIN g : h[i] = g[i]
  BY <1>1, <1>3
<1>7. h[Len(g) + 1].event = e /\ h[Len(g) + 1].dropped = n
  BY <1>3
<1>8. Sents(h) = Sents(g) \cup (IF e # 0 THEN {Len(g) + 1} ELSE {})
  BY <1>5, <1>6, <1>7 DEF Sents
<1>9. Sents(g) \subseteq 1..Len(g)
  BY <1>1 DEF Sents
<1>10. \A i \in Sents(g) : h[i] = g[i]
  BY <1>6 DEF Sents
<1>11. Events(h) = Events(g) \cup (IF e # 0 THEN {e} ELSE {})
  <2>1. CASE e = 0
    BY <1>8, <1>10, <2>1 DEF Events
  <2>2. CASE e # 0
    BY <1>7, <1>8, <1>10, <2>2 DEF Events
  <2> QED
    BY <2>1, <2>2
<1>12. Warned(h) = Warned(g) \cup n
  <2>1. ASSUME NEW k \in Warned(h) PROVE k \in Warned(g) \cup n
    BY <1>5, <1>6, <1>7 DEF Warned
  <2>2. ASSUME NEW k \in Warned(g) PROVE k \in Warned(h)
    BY <1>5, <1>6 DEF Warned
  <2>3. ASSUME NEW k \in n PROVE k \in Warned(h)
    BY <1>5, <1>7 DEF Warned
  <2> QED
    BY <2>1, <2>2, <2>3
<1> QED
  BY <1>1, <1>7, <1>8, <1>9, <1>10, <1>11, <1>12 DEF h

LEMMA ToldEvent ==
    ASSUME NEW g \in Seq(Said), NEW f \in Nat, NEW p \in Nat \ {0}, f <= p, NEW l,
           Told(g, f, p, l), l[p] \in Filter,
           NEW h, h = OneMore(g, p, {})
    PROVE  Told(h, f, p + 1, l)
<1>0. {} \in Drops /\ p \in Nat
  BY DEF Drops
<1>1. /\ Len(g) \in Nat /\ Sents(g) \subseteq 1..Len(g)
      /\ \A i \in Sents(g) : h[i] = g[i]
      /\ Sents(h) = Sents(g) \cup {Len(g) + 1}
      /\ Events(h) = Events(g) \cup {p}
      /\ Warned(h) = Warned(g)
      /\ h[Len(g) + 1].event = p
  <2>1. PICK n \in Drops : n = {} /\ h = OneMore(g, p, n)
    BY <1>0
  <2>2. Warned(g) \cup n = Warned(g)
    BY <2>1
  <2>3. Warned(OneMore(g, p, n)) = Warned(g) \cup n
    BY <1>0, ToldLine
  <2>4. /\ Len(g) \in Nat /\ Sents(g) \subseteq 1..Len(g)
        /\ \A i \in Sents(g) : OneMore(g, p, n)[i] = g[i]
    BY <1>0, ToldLine
  <2>5. /\ Sents(OneMore(g, p, n)) = Sents(g) \cup {Len(g) + 1}
        /\ Events(OneMore(g, p, n)) = Events(g) \cup {p}
    BY <1>0, ToldLine
  <2>6. OneMore(g, p, n)[Len(g) + 1].event = p
    BY <1>0, ToldLine
  <2> QED
    BY <2>1, <2>2, <2>3, <2>4, <2>5, <2>6
<1>2. Events(g) \subseteq f..(p - 1) /\ Warned(g) \subseteq f..(p - 1)
  BY DEF Told
<1>3. \A i \in Sents(g) : g[i].event \in f..(p - 1)
  BY <1>2 DEF Events
<1>4. ASSUME NEW i \in Sents(h), NEW j \in Sents(h), i < j PROVE h[i].event < h[j].event
  <2>1. CASE i \in Sents(g) /\ j \in Sents(g)
    BY <1>1, <1>4, <2>1 DEF Told
  <2>2. CASE i \in Sents(g) /\ j = Len(g) + 1
    BY <1>1, <1>3, <2>2
  <2>3. CASE i = Len(g) + 1
    <3>1. j \in Sents(g) \/ j = Len(g) + 1
      BY <1>1
    <3>2. j \in 1..Len(g) \/ j = Len(g) + 1
      BY <1>1, <3>1
    <3> QED
      BY <1>1, <1>4, <2>3, <3>2
  <2> QED
    BY <1>1, <2>1, <2>2, <2>3
<1>5. p \notin Warned(g) /\ f..((p + 1) - 1) = (f..(p - 1)) \cup {p}
  BY <1>2
<1>6. Events(h) \cap Warned(h) = {}
  BY <1>1, <1>5 DEF Told
<1>7. {k \in f..((p + 1) - 1) : l[k] \in Filter} = {k \in f..(p - 1) : l[k] \in Filter} \cup {p}
  BY <1>5
<1>8. {k \in f..(p - 1) : l[k] \in Filter} \ Warned(g) = Events(g)
  BY DEF Told
<1>9. {k \in f..((p + 1) - 1) : l[k] \in Filter} \ Warned(h) = Events(h)
  BY <1>1, <1>5, <1>7, <1>8
<1>10. Events(h) \cup Warned(h) \subseteq f..((p + 1) - 1)
  BY <1>1, <1>2, <1>5
<1> QED
  BY <1>4, <1>6, <1>9, <1>10 DEF Told

LEMMA ToldWarning ==
    ASSUME NEW g \in Seq(Said), NEW f \in Nat, NEW p \in Nat \ {0}, f <= p, NEW l,
           Told(g, f, p, l), NEW q \in Nat, p < q,
           NEW h, h = OneMore(g, 0, p..(q - 1))
    PROVE  Told(h, f, q, l)
<1>0. p..(q - 1) \in Drops /\ 0 \in Nat
  BY DEF Drops
<1>1. /\ \A i \in Sents(g) : h[i] = g[i]
      /\ Sents(h) = Sents(g) /\ Events(h) = Events(g)
      /\ Warned(h) = Warned(g) \cup (p..(q - 1))
  BY <1>0, ToldLine
<1>2. Events(g) \subseteq f..(p - 1) /\ Warned(g) \subseteq f..(p - 1)
  BY DEF Told
<1>3. \A i, j \in Sents(h) : i < j => h[i].event < h[j].event
  BY <1>1 DEF Told
<1>4. f..(q - 1) = (f..(p - 1)) \cup (p..(q - 1)) /\ (f..(p - 1)) \cap (p..(q - 1)) = {}
  OBVIOUS
<1>5. Events(h) \cap Warned(h) = {}
  BY <1>1, <1>2, <1>4 DEF Told
<1>6. {k \in f..(p - 1) : l[k] \in Filter} \ Warned(g) = Events(g)
  BY DEF Told
<1>7. {k \in f..(q - 1) : l[k] \in Filter} \ Warned(h) = Events(h)
  BY <1>1, <1>2, <1>4, <1>6
<1>8. Events(h) \cup Warned(h) \subseteq f..(q - 1)
  BY <1>1, <1>2, <1>4
<1> QED
  BY <1>3, <1>5, <1>7, <1>8 DEF Told

LEMMA ToldSkip ==
    ASSUME NEW g, NEW f \in Nat, NEW p \in Nat \ {0}, f <= p, NEW l,
           Told(g, f, p, l), l[p] \notin Filter
    PROVE  Told(g, f, p + 1, l)
<1>1. f..((p + 1) - 1) = (f..(p - 1)) \cup {p}
  OBVIOUS
<1>2. {k \in f..((p + 1) - 1) : l[k] \in Filter} = {k \in f..(p - 1) : l[k] \in Filter}
  BY <1>1
<1> QED
  BY <1>1, <1>2 DEF Told

LEMMA ToldLater ==
    ASSUME NEW g, NEW f \in Nat, NEW p \in Nat, NEW l \in Seq(Type), NEW t \in Type,
           p <= Len(l) + 1, 1 <= f, Told(g, f, p, l)
    PROVE  Told(g, f, p, Append(l, t))
<1>1. Len(l) \in Nat /\ \A k \in 1..Len(l) : Append(l, t)[k] = l[k]
  BY LenProperties, AppendProperties
<1>2. \A k \in f..(p - 1) : Append(l, t)[k] = l[k]
  BY <1>1
<1>3. {k \in f..(p - 1) : Append(l, t)[k] \in Filter} = {k \in f..(p - 1) : l[k] \in Filter}
  BY <1>2
<1> QED
  BY <1>3 DEF Told

LEMMA ToldNothing ==
    ASSUME NEW n \in Nat, NEW l
    PROVE  Told(<<>>, n, n, l)
<1>1. DOMAIN <<>> = {}
  OBVIOUS
<1>2. Sents(<<>>) = {} /\ Warned(<<>>) = {}
  BY <1>1 DEF Sents, Warned
<1>3. Events(<<>>) = {}
  BY <1>2 DEF Events
<1>4. n..(n - 1) = {}
  OBVIOUS
<1> QED
  BY <1>2, <1>3, <1>4 DEF Told

LEMMA StreamFrame ==
    ASSUME NEW d \in Client, StreamOk(d), task'[d] = "none" => task[d] = "none",
           got'[d] = got[d], pos'[d] = pos[d], from'[d] = from[d], log' = log,
           d \in left => d \in left'
    PROVE  StreamOk(d)'
BY DEF StreamOk

LEMMA StreamStep ==
    ASSUME TypeOK, ClientInv, TaskInv, StreamInv, NEW c \in Client,
           Subscribe(c) \/ Leave(c) \/ Greet(c) \/ Lagged(c) \/ Recv(c)
    PROVE  StreamInv'
<1>1. StreamType /\ StreamOk(c)
  BY TypeParts DEF StreamInv
<1>2. IsFiniteSet(Counts')
  BY GaugeStep DEF StreamInv
<1>3. log' = log /\ left \subseteq left'
  BY <1>1 DEF Subscribe, Leave, Greet, Lagged, Recv, StreamType
<1>4. log \in Seq(Type) /\ Len(log) \in Nat /\ Oldest \in 1..(Len(log) + 1)
  BY <1>1, OldestFacts DEF StreamType
<1>5. /\ pos[c] \in Nat \ {0} /\ from[c] \in Nat \ {0}
      /\ from[c] <= pos[c] /\ pos[c] <= Len(log) + 1
  BY <1>1, Bounds DEF StreamType, StreamOk
<1>6. got[c] \in Seq(Said)
  BY <1>1 DEF StreamType, Said, Drops
<1>7. ASSUME NEW d \in Client, d # c PROVE StreamOk(d)'
  <2>1. UNCHANGED <<task[d], pos[d], from[d]>>
    BY <1>1, <1>7 DEF Subscribe, Leave, Greet, Lagged, Recv, StreamType
  <2>2. got'[d] = got[d]
    BY <1>1, <1>7 DEF Subscribe, Leave, Greet, Lagged, Recv, StreamType, Line
  <2> QED
    BY <1>3, <2>1, <2>2, StreamFrame DEF StreamInv
<1>8. CASE Subscribe(c)
  <2>1. /\ task[c] = "none" /\ got' = got /\ left' = left
        /\ task' = [task EXCEPT ![c] = "greet"]
        /\ pos' = [pos EXCEPT ![c] = Len(log) + 1] /\ from' = [from EXCEPT ![c] = Len(log) + 1]
    BY <1>8 DEF Subscribe, TaskInv, TaskOk
  <2>2. /\ task'[c] = "greet" /\ pos'[c] = Len(log) + 1 /\ from'[c] = Len(log) + 1
        /\ got'[c] = <<>>
    BY <1>1, <2>1 DEF StreamType, StreamOk
  <2>3. Told(<<>>, Len(log) + 1, Len(log) + 1, log)
    BY <1>4, ToldNothing
  <2>4. StreamOk(c)'
    BY <1>3, <1>4, <2>2, <2>3 DEF StreamOk
  <2> QED
    BY <1>2, <1>7, <2>4 DEF StreamInv
<1>9. CASE Leave(c) \/ Greet(c)
  <2>1. UNCHANGED <<got, pos, from>>
    BY <1>9 DEF Leave, Greet
  <2>2. task'[c] # "none"
    BY <1>1, <1>9 DEF Leave, Greet, StreamType
  <2>3. StreamOk(c)'
    BY <1>1, <1>3, <2>1, <2>2, StreamFrame
  <2> QED
    BY <1>2, <1>7, <2>3 DEF StreamInv
<1>10. CASE Lagged(c)
  <2>1. /\ task[c] = "stream" /\ pos[c] < Oldest /\ Line(c, 0, pos[c]..(Oldest - 1))
        /\ UNCHANGED <<task, left, from>> /\ pos'[c] = Oldest
    BY <1>1, <1>10 DEF Lagged, StreamType
  <2>2. pos[c]..(Oldest - 1) \in SUBSET Nat
    BY <1>4, <1>5
  <2>3. c \notin left => got'[c] = OneMore(got[c], 0, pos[c]..(Oldest - 1))
    BY <1>1, <2>1, <2>2, LineFacts DEF OneMore
  <2>4. c \notin left => Told(got'[c], from[c], Oldest, log)
    <3> SUFFICES ASSUME c \notin left PROVE Told(got'[c], from[c], Oldest, log)
      OBVIOUS
    <3>1. Told(got[c], from[c], pos[c], log)
      BY <1>1 DEF StreamOk
    <3> QED
      BY <1>4, <1>5, <1>6, <2>1, <2>3, <3>1, ToldWarning
  <2>5. StreamOk(c)'
    BY <1>3, <1>4, <1>5, <2>1, <2>4 DEF StreamOk
  <2> QED
    BY <1>2, <1>7, <2>5 DEF StreamInv
<1>11. CASE Recv(c)
  <2>1. /\ task[c] = "stream" /\ pos[c] \in Oldest..Len(log)
        /\ UNCHANGED <<left, from>> /\ pos'[c] = pos[c] + 1
        /\ \/ log[pos[c]] \in Filter /\ Line(c, pos[c], {})
           \/ log[pos[c]] \notin Filter /\ got' = got
    BY <1>1, <1>11 DEF Recv, StreamType
  <2>2. task'[c] # "none"
    BY <1>1, <1>11 DEF Recv, StreamType
  <2>3. ASSUME c \notin left PROVE Told(got'[c], from[c], pos[c] + 1, log)
    <3>1. Told(got[c], from[c], pos[c], log)
      BY <1>1, <2>3 DEF StreamOk
    <3>2. CASE log[pos[c]] \in Filter /\ Line(c, pos[c], {})
      <4>1. {} \in SUBSET Nat
        OBVIOUS
      <4>2. got'[c] = OneMore(got[c], pos[c], {})
        BY <1>1, <1>5, <2>3, <3>2, <4>1, LineFacts DEF OneMore
      <4> QED
        BY <1>5, <1>6, <3>1, <3>2, <4>2, ToldEvent
    <3>3. CASE log[pos[c]] \notin Filter /\ got' = got
      BY <1>5, <3>1, <3>3, ToldSkip
    <3> QED
      BY <2>1, <3>2, <3>3
  <2>4. StreamOk(c)'
    BY <1>3, <1>4, <1>5, <2>1, <2>2, <2>3 DEF StreamOk
  <2> QED
    BY <1>2, <1>7, <2>4 DEF StreamInv
<1> QED
  BY <1>8, <1>9, <1>10, <1>11

LEMMA StreamNext ==
    ASSUME TypeOK, ClientInv, TaskInv, StreamInv, [Next]_vars
    PROVE  StreamInv'
<1>1. StreamType
  BY TypeParts
<1>2. ASSUME UNCHANGED streamVars PROVE StreamInv'
  <2>1. Counts' = Counts
    BY <1>2 DEF streamVars, Counts
  <2>2. \A d \in Client : StreamOk(d)'
    BY <1>2, StreamFrame DEF streamVars, StreamInv
  <2> QED
    BY <2>1, <2>2 DEF StreamInv
<1>3. CASE UNCHANGED vars
  BY <1>2, <1>3 DEF vars, streamVars
<1>4. ASSUME NEW c \in Client, ClientStep(c) \/ Kill(c) \/ Accept(c) \/ Handle(c) PROVE StreamInv'
  BY <1>2, <1>4 DEF ClientStep, Load, Create, Write, Rename, Connect, Send, NoAnswer, Report,
                    TakeBack, Kill, Accept, Handle
<1>5. ASSUME NEW c \in Client, Subscribe(c) \/ Leave(c) \/ TaskStep(c) PROVE StreamInv'
  BY <1>5, StreamStep DEF TaskStep
<1>6. CASE Cancel \/ DropClosed
  BY <1>2, <1>6 DEF Cancel, DropClosed
<1>7. CASE Stop
  <2>1. UNCHANGED <<log, pos, got, left, from>>
    BY <1>7 DEF Stop
  <2>2. \A d \in Client : task'[d] = "none" => task[d] = "none"
    BY <1>7 DEF Stop
  <2>3. \A d \in Client : StreamOk(d)'
    BY <2>1, <2>2, StreamFrame DEF StreamInv
  <2> QED
    BY <1>7, <2>3, TypeStop DEF StreamInv
<1>8. ASSUME NEW t \in Type, Publish(t) PROVE StreamInv'
  <2>1. UNCHANGED <<task, pos, got, left, from>> /\ log' = Append(log, t) /\ Counts' = Counts
    BY <1>8, TypePublish DEF Publish
  <2>2. log \in Seq(Type) /\ Len(log) \in Nat /\ Len(log') = Len(log) + 1
    BY <1>1, <2>1, LenProperties, AppendProperties DEF StreamType
  <2>3. ASSUME NEW d \in Client PROVE StreamOk(d)'
    <3>1. StreamOk(d) /\ pos[d] \in Nat /\ from[d] \in Nat /\ 1 <= from[d]
      BY <1>1, Bounds DEF StreamInv, StreamType
    <3>2. pos[d] <= Len(log) + 1
      BY <3>1 DEF StreamOk
    <3>3. d \notin left => Told(got[d], from[d], pos[d], Append(log, t))
      BY <2>2, <3>1, <3>2, ToldLater DEF StreamOk
    <3>4. pos[d] <= Len(log') + 1
      BY <2>2, <3>1, <3>2
    <3> QED
      BY <2>1, <3>1, <3>3, <3>4 DEF StreamOk
  <2> QED
    BY <2>1, <2>3 DEF StreamInv
<1> QED
  BY <1>3, <1>4, <1>5, <1>6, <1>7, <1>8 DEF Next, ServerStep

-----------------------------------------------------------------------------
(* The temporary file and the store.                                       *)

LEMMA SaveOther ==
    ASSUME NEW d \in Client, SaveOk(d), pc'[d] = pc[d], pc[d] \notin {"write", "rename"},
           copy'[d] = copy[d], undo' = undo, job' = job,
           ~fresh'[d] \/ (fresh[d] /\ store' = store)
    PROVE  SaveOk(d)'
BY DEF SaveOk, Changed

LEMMA SaveRest ==
    ASSUME SaveInv, UNCHANGED <<job, store, tmp, copy, fd, fresh, meant, mixed>>,
           \A d \in Client : pc'[d] \in Saving => pc'[d] = pc[d] /\ undo'[d] = undo[d]
    PROVE  SaveInv'
<1> SUFFICES ASSUME ~mixed' PROVE SaveInv'
  BY DEF SaveInv
<1>1. /\ store \in meant
      /\ \A c, d \in Client : {pc[c], pc[d]} \subseteq {"write", "rename"} => c = d
      /\ \A c \in Client : SaveOk(c)
  BY DEF SaveInv
<1>2. \A c, d \in Client : {pc'[c], pc'[d]} \subseteq {"write", "rename"} => c = d
  BY <1>1 DEF Saving
<1>3. ASSUME NEW d \in Client PROVE SaveOk(d)'
  <2>1. CASE pc'[d] \in Saving
    <3>1. pc'[d] = pc[d] /\ undo'[d] = undo[d] /\ SaveOk(d)
      BY <1>1, <2>1
    <3> QED
      BY <3>1 DEF SaveOk, Changed
  <2>2. CASE pc'[d] \notin Saving
    BY <2>2 DEF SaveOk, Saving
  <2> QED
    BY <2>1, <2>2
<1> QED
  BY <1>1, <1>2, <1>3 DEF SaveInv

LEMMA SaveLoad ==
    ASSUME TypeOK, SaveInv, NEW c \in Client, Load(c)
    PROVE  SaveInv'
<1>1. ClientType /\ StoreType
  BY TypeParts
<1>2. UNCHANGED <<job, undo, fd, store, tmp, meant, mixed>> /\ pc[c] = "load"
  BY DEF Load
<1>3. CASE Go(c, "failed") /\ UNCHANGED <<copy, fresh, excused>>
  <2>1. \A d \in Client : pc'[d] \in Saving => pc'[d] = pc[d] /\ undo'[d] = undo[d]
    BY <1>1, <1>2, <1>3 DEF Go, Saving, ClientType
  <2> QED
    BY <1>2, <1>3, <2>1, SaveRest
<1>4. CASE /\ copy' = [copy EXCEPT ![c] = Changed(c)] /\ fresh' = [fresh EXCEPT ![c] = TRUE]
           /\ Go(c, "create")
  <2> SUFFICES ASSUME ~mixed' PROVE SaveInv'
    BY DEF SaveInv
  <2>1. /\ store \in meant
        /\ \A e, d \in Client : {pc[e], pc[d]} \subseteq {"write", "rename"} => e = d
        /\ \A e \in Client : SaveOk(e)
    BY <1>2 DEF SaveInv
  <2>2. pc'[c] = "create" /\ \A d \in Client : d # c => pc'[d] = pc[d]
    BY <1>1, <1>4, GoFacts DEF Place
  <2>3. \A e, d \in Client : {pc'[e], pc'[d]} \subseteq {"write", "rename"} => e = d
    BY <2>1, <2>2
  <2>4. copy'[c] = Changed(c) /\ Changed(c)' = Changed(c)
    BY <1>1, <1>2, <1>4 DEF StoreType, Changed
  <2>5. SaveOk(c)'
    BY <2>2, <2>4 DEF SaveOk, Saving
  <2>6. ASSUME NEW d \in Client, d # c PROVE SaveOk(d)'
    <3>1. SaveOk(d) /\ pc'[d] = pc[d] /\ copy'[d] = copy[d] /\ fresh'[d] = fresh[d]
      BY <1>1, <1>4, <2>1, <2>2, <2>6 DEF StoreType
    <3> QED
      BY <1>2, <3>1 DEF SaveOk, Changed
  <2> QED
    BY <1>2, <2>1, <2>3, <2>5, <2>6 DEF SaveInv
<1> QED
  BY <1>3, <1>4 DEF Load

LEMMA SaveCreate ==
    ASSUME TypeOK, SaveInv, NEW c \in Client, Create(c)
    PROVE  SaveInv'
<1>1. ClientType /\ StoreType
  BY TypeParts
<1>2. /\ tmp' = {} /\ fd' = [fd EXCEPT ![c] = "tmp"] /\ Go(c, "write")
      /\ mixed' = (mixed \/ \E d \in Client \ {c} : pc[d] \in {"write", "rename"})
      /\ meant' = meant \cup {copy[c]} /\ UNCHANGED <<job, copy, undo, store, fresh>>
      /\ pc[c] = "create"
  BY DEF Create
<1> SUFFICES ASSUME ~mixed' PROVE SaveInv'
  BY DEF SaveInv
<1>3. ~mixed /\ \A d \in Client \ {c} : pc[d] \notin {"write", "rename"}
  BY <1>2
<1>4. store \in meant /\ \A d \in Client : SaveOk(d)
  BY <1>3 DEF SaveInv
<1>5. pc'[c] = "write" /\ \A d \in Client : d # c => pc'[d] = pc[d]
  BY <1>1, <1>2, GoFacts DEF Place
<1>6. \A e, d \in Client : {pc'[e], pc'[d]} \subseteq {"write", "rename"} => e = d
  BY <1>3, <1>5
<1>7. fd'[c] = "tmp" /\ copy'[c] \in meant' /\ store' \in meant'
  BY <1>1, <1>2, <1>4 DEF StoreType
<1>8. SaveOk(c)'
  <2>1. SaveOk(c) /\ Changed(c)' = Changed(c)
    BY <1>2, <1>4 DEF Changed
  <2> QED
    BY <1>2, <1>5, <1>7, <2>1 DEF SaveOk, Saving
<1>9. ASSUME NEW d \in Client, d # c PROVE SaveOk(d)'
  <2>1. /\ SaveOk(d) /\ pc'[d] = pc[d] /\ pc[d] \notin {"write", "rename"}
        /\ copy'[d] = copy[d] /\ fresh'[d] = fresh[d]
    BY <1>2, <1>3, <1>4, <1>5, <1>9
  <2> QED
    BY <1>2, <2>1, SaveOther
<1> QED
  BY <1>6, <1>7, <1>8, <1>9 DEF SaveInv

LEMMA SaveWrite ==
    ASSUME TypeOK, SaveInv, NEW c \in Client, Write(c)
    PROVE  SaveInv' /\ (~mixed => store' = store)
<1>1. ClientType /\ StoreType
  BY TypeParts
<1>2. /\ Go(c, "rename") /\ UNCHANGED <<job, copy, undo, fd, fresh, meant, mixed>>
      /\ pc[c] = "write"
  BY DEF Write
<1> SUFFICES ASSUME ~mixed PROVE SaveInv' /\ store' = store
  BY <1>2 DEF SaveInv
<1>3. /\ store \in meant
      /\ \A e, d \in Client : {pc[e], pc[d]} \subseteq {"write", "rename"} => e = d
      /\ \A e \in Client : SaveOk(e)
  BY DEF SaveInv
<1>4. fd[c] = "tmp" /\ tmp = {} /\ copy[c] \in meant
  BY <1>2, <1>3 DEF SaveOk
<1>5. tmp' = copy[c] /\ store' = store
  BY <1>4 DEF Write, Overwritten
<1>6. pc'[c] = "rename" /\ \A d \in Client : d # c => pc'[d] = pc[d]
  BY <1>1, <1>2, GoFacts DEF Place
<1>7. \A d \in Client : d # c => pc[d] \notin {"write", "rename"}
  BY <1>2, <1>3
<1>8. \A e, d \in Client : {pc'[e], pc'[d]} \subseteq {"write", "rename"} => e = d
  BY <1>6, <1>7
<1>9. SaveOk(c)'
  <2>1. SaveOk(c) /\ Changed(c)' = Changed(c)
    BY <1>2, <1>3, <1>5 DEF Changed
  <2> QED
    BY <1>2, <1>4, <1>5, <1>6, <2>1 DEF SaveOk, Saving
<1>10. ASSUME NEW d \in Client, d # c PROVE SaveOk(d)'
  <2>1. /\ SaveOk(d) /\ pc'[d] = pc[d] /\ pc[d] \notin {"write", "rename"}
        /\ copy'[d] = copy[d] /\ fresh'[d] = fresh[d]
    BY <1>2, <1>3, <1>6, <1>7, <1>10
  <2> QED
    BY <1>2, <1>5, <2>1, SaveOther
<1> QED
  BY <1>2, <1>3, <1>5, <1>8, <1>9, <1>10 DEF SaveInv

(* A rename while one client uses the file: it puts that client's copy in  *)
(* place, which is the store changed in its entry if the copy is fresh.    *)
LEMMA RenameFacts ==
    ASSUME TypeOK, SaveInv, NEW c \in Client, Rename(c), ~mixed
    PROVE  /\ store' = copy[c] /\ copy[c] \in meant /\ copy[c] \subseteq Entry
           /\ fresh[c] => store' = Changed(c) /\ excused' = excused
           /\ ~fresh[c] => excused' = Entry
           /\ fresh' = [d \in Client |-> FALSE]
           /\ Go(c, IF undo[c] THEN "done" ELSE "connect")
           /\ \A d \in Client : d # c => pc[d] \notin {"write", "rename"}
<1>1. StoreType /\ pc[c] = "rename"
  BY TypeParts DEF Rename
<1>2. SaveOk(c) /\ \A e, d \in Client : {pc[e], pc[d]} \subseteq {"write", "rename"} => e = d
  BY DEF SaveInv
<1>3. copy[c] \in meant /\ tmp = copy[c] /\ (fresh[c] => copy[c] = Changed(c))
  BY <1>1, <1>2 DEF SaveOk, Saving
<1>4. copy[c] \in SUBSET Entry
  BY <1>1 DEF StoreType
<1>5. tmp # Absent
  BY <1>3, <1>4, Bounds
<1>6. /\ store' = tmp /\ fresh' = [d \in Client |-> FALSE]
      /\ excused' = (IF fresh[c] THEN excused ELSE Entry)
      /\ Go(c, IF undo[c] THEN "done" ELSE "connect")
  BY <1>5 DEF Rename
<1>7. \A d \in Client : d # c => pc[d] \notin {"write", "rename"}
  BY <1>1, <1>2
<1> QED
  BY <1>3, <1>4, <1>6, <1>7

LEMMA SaveRename ==
    ASSUME TypeOK, SaveInv, NEW c \in Client, Rename(c)
    PROVE  SaveInv'
<1>1. ClientType /\ UNCHANGED <<job, copy, undo, meant, mixed>>
  BY TypeParts DEF Rename
<1> SUFFICES ASSUME ~mixed PROVE SaveInv'
  BY <1>1 DEF SaveInv
<1>2. /\ store' \in meant' /\ fresh' = [d \in Client |-> FALSE]
      /\ Go(c, IF undo[c] THEN "done" ELSE "connect")
      /\ \A d \in Client : d # c => pc[d] \notin {"write", "rename"}
  BY <1>1, RenameFacts
<1>3. (IF undo[c] THEN "done" ELSE "connect") \in {"done", "connect"}
  OBVIOUS
<1>4. pc'[c] \in {"done", "connect"} /\ \A d \in Client : d # c => pc'[d] = pc[d]
  BY <1>1, <1>2, <1>3, GoFacts DEF Place, Over
<1>5. \A e, d \in Client : {pc'[e], pc'[d]} \subseteq {"write", "rename"} => e = d
  BY <1>2, <1>4
<1>6. SaveOk(c)'
  BY <1>4 DEF SaveOk, Saving
<1>7. ASSUME NEW d \in Client, d # c PROVE SaveOk(d)'
  <2>1. /\ SaveOk(d) /\ pc'[d] = pc[d] /\ pc[d] \notin {"write", "rename"}
        /\ copy'[d] = copy[d] /\ ~fresh'[d]
    BY <1>1, <1>2, <1>4, <1>7 DEF SaveInv
  <2> QED
    BY <1>1, <2>1, SaveOther
<1> QED
  BY <1>2, <1>5, <1>6, <1>7 DEF SaveInv

LEMMA SaveNext ==
    ASSUME TypeOK, ClientInv, SaveInv, [Next]_vars
    PROVE  SaveInv'
<1>1. ClientType /\ StoreType
  BY TypeParts
<1>2. CASE UNCHANGED vars
  BY <1>2, SaveRest DEF vars
<1>3. ASSUME NEW c \in Client, Load(c) \/ Create(c) \/ Write(c) \/ Rename(c) PROVE SaveInv'
  BY <1>3, SaveLoad, SaveCreate, SaveWrite, SaveRename
<1>4. ASSUME NEW c \in Client,
             \/ Kill(c) \/ Connect(c) \/ Send(c) \/ NoAnswer(c) \/ Report(c) \/ TakeBack(c)
      PROVE  SaveInv'
  <2>1. UNCHANGED <<job, store, tmp, copy, fd, fresh, meant, mixed>>
    BY <1>4 DEF Kill, Connect, Send, NoAnswer, Report, TakeBack, storeVars
  <2>2. PICK l \in Place \ Saving : Go(c, l)
    BY <1>4 DEF Kill, Connect, Send, NoAnswer, Report, TakeBack, Place, Over, Saving
  <2>3. pc'[c] = l /\ \A d \in Client : d # c => pc'[d] = pc[d]
    BY <1>1, <2>2, GoFacts
  <2>4. \A d \in Client : d # c => undo'[d] = undo[d]
    BY <1>1, <1>4 DEF Kill, Connect, Send, NoAnswer, Report, TakeBack, storeVars, StoreType
  <2>5. \A d \in Client : pc'[d] \in Saving => pc'[d] = pc[d] /\ undo'[d] = undo[d]
    BY <2>2, <2>3, <2>4
  <2> QED
    BY <2>1, <2>5, SaveRest
<1>5. ASSUME NEW c \in Client, Handle(c) \/ Subscribe(c) PROVE SaveInv'
  <2>1. UNCHANGED <<job, store, tmp, copy, fd, fresh, meant, mixed, undo>>
    BY <1>5 DEF Handle, Subscribe, storeVars
  <2>2. PICK l \in {"ok", "transient", "permanent"} : Answer(c, l)
    BY <1>5 DEF Handle, Subscribe
  <2>3. /\ pc'[c] = (IF pc[c] = "wait" THEN l ELSE pc[c])
        /\ \A d \in Client : d # c => pc'[d] = pc[d]
    BY <1>1, <2>2, AnswerFacts DEF Place
  <2>4. \A d \in Client : pc'[d] \in Saving => pc'[d] = pc[d] /\ undo'[d] = undo[d]
    BY <2>1, <2>2, <2>3 DEF Saving
  <2> QED
    BY <2>1, <2>4, SaveRest
<1>6. ASSUME UNCHANGED <<job, pc, storeVars>> PROVE SaveInv'
  BY <1>6, SaveRest DEF storeVars
<1>7. ASSUME NEW c \in Client, Leave(c) \/ TaskStep(c) \/ Accept(c) PROVE SaveInv'
  BY <1>6, <1>7 DEF TaskStep, Leave, Greet, Lagged, Recv, Accept
<1>8. CASE Cancel \/ DropClosed \/ Stop
  BY <1>6, <1>8 DEF Cancel, DropClosed, Stop
<1>9. ASSUME NEW t \in Type, Publish(t) PROVE SaveInv'
  BY <1>6, <1>9 DEF Publish
<1> QED
  BY <1>2, <1>3, <1>4, <1>5, <1>7, <1>8, <1>9 DEF Next, ServerStep, ClientStep

-----------------------------------------------------------------------------
(* The store and the daemon.                                               *)

LEMMA MatchFrame ==
    ASSUME NEW e \in Entry, MatchOk(e), job' = job,
           e \in store' <=> e \in store, e \in daemon' <=> e \in daemon,
           \A c \in Client : Command(c) /\ job[c].entry = e =>
             pc'[c] = pc[c] /\ undo'[c] = undo[c]
    PROVE  MatchOk(e)'
<1>1. ASSUME e \in Refused, e \in store' PROVE \E c \in Client : TakesBack(c, e)'
  <2>1. PICK c \in Client : TakesBack(c, e)
    BY <1>1 DEF MatchOk
  <2>2. Command(c) /\ job[c].entry = e
    BY <2>1 DEF TakesBack, Command
  <2> QED
    BY <2>1, <2>2 DEF TakesBack
<1>2. \A c \in Client : (c \in Busy(e)' <=> c \in Busy(e)) /\ (Saved(c, e)' <=> Saved(c, e))
  BY DEF Busy, Saved, Command
<1>3. \A c \in Client : Saved(c, e) => pc'[c] = pc[c]
  BY DEF Busy, Saved, Command
<1>4. \A c \in Busy(e) \cup Busy(e)' : c \in Client
  BY DEF Busy
<1> QED
  BY <1>1, <1>2, <1>3, <1>4 DEF MatchOk

(* An entry that the daemon refuses. *)
LEMMA MatchRefused ==
    ASSUME NEW e \in Refused, NEW c \in Client, MatchOk(e), job' = job,
           \A d \in Client : d # c => pc'[d] = pc[d] /\ undo'[d] = undo[d],
           TakesBack(c, e) => TakesBack(c, e)',
           e \in store' => e \in store \/ TakesBack(c, e)'
    PROVE  MatchOk(e)'
<1>1. ASSUME e \in store' PROVE \E d \in Client : TakesBack(d, e)'
  <2>1. CASE TakesBack(c, e)'
    BY <2>1
  <2>2. CASE e \in store
    <3>1. PICK d \in Client : TakesBack(d, e)
      BY <2>2 DEF MatchOk
    <3>2. CASE d = c
      BY <3>1, <3>2
    <3>3. CASE d # c
      BY <3>1, <3>3 DEF TakesBack
    <3> QED
      BY <3>2, <3>3
  <2> QED
    BY <1>1, <2>1, <2>2
<1> QED
  BY <1>1 DEF MatchOk

LEMMA BusyOther ==
    ASSUME NEW e \in Entry, NEW c \in Client, job' = job,
           \A d \in Client : d # c => pc'[d] = pc[d]
    PROVE  /\ \A d \in Client : d # c => /\ d \in Busy(e)' <=> d \in Busy(e)
                                         /\ Saved(d, e)' <=> Saved(d, e)
           /\ Busy(e) \subseteq Client /\ Busy(e)' \subseteq Client
           /\ \A d \in Client : Saved(d, e) => d \in Busy(e)
           /\ \A d \in Client : Saved(d, e)' => d \in Busy(e)'
BY DEF Busy, Saved

(* Any other entry, and a step that leaves the standing of its client. *)
LEMMA MatchSame ==
    ASSUME NEW e \in Entry, e \notin Refused, NEW c \in Client, MatchOk(e), job' = job,
           \A d \in Client : d # c => pc'[d] = pc[d],
           c \in Busy(e)' <=> c \in Busy(e), Saved(c, e)' <=> Saved(c, e), pc'[c] # "ok",
           e \in store' <=> e \in store, e \in daemon' <=> e \in daemon
    PROVE  MatchOk(e)'
<1>1. \A d \in Client : (d \in Busy(e)' <=> d \in Busy(e)) /\ (Saved(d, e)' <=> Saved(d, e))
  BY BusyOther
<1>2. \A d \in Busy(e) \cup Busy(e)' : d \in Client
  BY BusyOther
<1> QED
  BY <1>1, <1>2 DEF MatchOk

(* ... and a step of the one client that is about it. *)
LEMMA MatchAlone ==
    ASSUME NEW e \in Entry, e \notin Refused, NEW c \in Client, job' = job,
           \A d \in Client : d # c => pc'[d] = pc[d] /\ d \notin Busy(e),
           ~Saved(c, e)' => (e \in store' <=> e \in daemon'),
           Saved(c, e)' => /\ e \in store' <=> job[c].op = "add"
                           /\ pc'[c] = "ok" => (e \in daemon' <=> job[c].op = "add")
    PROVE  MatchOk(e)'
<1>1. \A d \in Client : d # c => d \notin Busy(e)' /\ ~Saved(d, e)'
  BY BusyOther
<1>2. \A d \in Busy(e)' : d \in Client
  BY BusyOther
<1> QED
  BY <1>1, <1>2 DEF MatchOk

(* A step of client c leaves what is not about its own entry. *)
LEMMA MatchElse ==
    ASSUME NEW c \in Client, NEW e \in Entry, MatchOk(e), job' = job,
           ~(Command(c) /\ job[c].entry = e),
           \A d \in Client : d # c => pc'[d] = pc[d] /\ undo'[d] = undo[d],
           e \in store' <=> e \in store, e \in daemon' <=> e \in daemon
    PROVE  MatchOk(e)'
<1>1. \A d \in Client : Command(d) /\ job[d].entry = e => pc'[d] = pc[d] /\ undo'[d] = undo[d]
  OBVIOUS
<1> QED
  BY <1>1, MatchFrame

LEMMA MatchLoad ==
    ASSUME TypeOK, ClientInv, SaveInv, MatchInv, ~mixed', NEW c \in Client, Load(c),
           NEW e \in Entry \ excused'
    PROVE  MatchOk(e)'
<1>1. ClientType /\ StoreType /\ DaemonType
  BY TypeParts
<1>2. /\ UNCHANGED <<job, undo, store, meant, mixed, daemon>> /\ pc[c] = "load" /\ Command(c)
  BY DEF Load, Command
<1>3. store # Torn
  BY <1>1, <1>2, Bounds DEF SaveInv, StoreType
<1>4. e \in Entry /\ e \notin excused /\ MatchOk(e)
  <2>1. excused \subseteq excused'
    BY <1>1 DEF Load, DaemonType
  <2> QED
    BY <1>2, <2>1 DEF MatchInv
<1>5. PICK l \in {"failed", "create"} :
        /\ Go(c, l)
        /\ l = "failed" => job[c].op = "remove"
        /\ l = "create" =>
             excused' = (IF Busy(job[c].entry) \ {c} # {} THEN excused \cup {job[c].entry} ELSE excused)
  BY <1>3 DEF Load
<1>6. pc'[c] = l /\ \A d \in Client : d # c => pc'[d] = pc[d] /\ undo'[d] = undo[d]
  BY <1>1, <1>2, <1>5, GoFacts DEF Place, Over
<1>7. CASE job[c].entry # e
  BY <1>2, <1>4, <1>6, <1>7, MatchElse
<1>8. CASE job[c].entry = e /\ e \in Refused
  <2>1. TakesBack(c, e) => TakesBack(c, e)'
    BY <1>2, <1>5, <1>6 DEF TakesBack, Saving
  <2> QED
    BY <1>2, <1>4, <1>6, <1>8, <2>1, MatchRefused
<1>9. CASE job[c].entry = e /\ e \notin Refused /\ l = "failed"
  <2>1. c \notin Busy(e) /\ c \notin Busy(e)' /\ ~Saved(c, e) /\ ~Saved(c, e)'
    BY <1>2, <1>6, <1>9 DEF Busy, Saved, Over
  <2> QED
    BY <1>2, <1>4, <1>6, <1>9, <2>1, MatchSame
<1>10. CASE job[c].entry = e /\ e \notin Refused /\ l = "create"
  <2>1. Busy(e) \ {c} = {}
    BY <1>5, <1>10
  <2>2. \A d \in Client : ~Saved(d, e)
    BY <1>2, <2>1 DEF Saved, Busy
  <2>3. e \in store <=> e \in daemon
    BY <1>4, <1>10, <2>2 DEF MatchOk
  <2>4. ~Saved(c, e)'
    BY <1>6, <1>10 DEF Saved, Saving
  <2>5. \A d \in Client : d # c => pc'[d] = pc[d] /\ d \notin Busy(e)
    BY <1>6, <2>1
  <2> QED
    BY <1>2, <1>10, <2>3, <2>4, <2>5, MatchAlone
<1> QED
  BY <1>7, <1>8, <1>9, <1>10

LEMMA MatchWrite ==
    ASSUME TypeOK, ClientInv, SaveInv, MatchInv, ~mixed', NEW c \in Client, Create(c) \/ Write(c),
           NEW e \in Entry \ excused'
    PROVE  MatchOk(e)'
<1>1. ClientType /\ StoreType
  BY TypeParts
<1>2. UNCHANGED <<job, undo, daemon, excused>> /\ pc[c] \in Saving /\ ~mixed
  <2>1. UNCHANGED <<job, undo, daemon, excused>> /\ pc[c] \in Saving
    BY DEF Create, Write, Saving
  <2>2. CASE Create(c)
    <3>1. mixed' = (mixed \/ \E d \in Client \ {c} : pc[d] \in {"write", "rename"})
      BY <2>2 DEF Create
    <3> QED
      BY <2>1, <3>1
  <2>3. CASE Write(c)
    BY <2>1, <2>3 DEF Write
  <2> QED
    BY <2>2, <2>3
<1>3. store' = store
  BY <1>2, SaveWrite DEF Create
<1>4. e \in Entry /\ MatchOk(e)
  BY <1>2 DEF MatchInv
<1>5. PICK l \in {"write", "rename"} : Go(c, l)
  BY DEF Create, Write
<1>6. pc'[c] = l /\ \A d \in Client : d # c => pc'[d] = pc[d] /\ undo'[d] = undo[d]
  BY <1>1, <1>2, <1>5, GoFacts DEF Place
<1>7. CASE ~(Command(c) /\ job[c].entry = e)
  BY <1>2, <1>3, <1>4, <1>6, <1>7, MatchElse
<1>8. CASE e \in Refused
  <2>1. TakesBack(c, e) => TakesBack(c, e)'
    BY <1>2, <1>5, <1>6 DEF TakesBack, Saving
  <2> QED
    BY <1>2, <1>3, <1>4, <1>6, <1>8, <2>1, MatchRefused
<1>9. CASE Command(c) /\ job[c].entry = e /\ e \notin Refused
  <2>1. (c \in Busy(e)' <=> c \in Busy(e)) /\ (Saved(c, e)' <=> Saved(c, e)) /\ pc'[c] # "ok"
    BY <1>2, <1>5, <1>6, <1>9 DEF Busy, Saved, Over, Saving, Command
  <2> QED
    BY <1>2, <1>3, <1>4, <1>6, <1>9, <2>1, MatchSame
<1> QED
  BY <1>7, <1>8, <1>9

LEMMA MatchRename ==
    ASSUME TypeOK, ClientInv, SaveInv, MatchInv, ~mixed', NEW c \in Client, Rename(c),
           NEW e \in Entry \ excused'
    PROVE  MatchOk(e)'
<1>1. ClientType /\ StoreType /\ ClientOk(c)
  BY TypeParts DEF ClientInv
<1>2. UNCHANGED <<job, undo, daemon, mixed>> /\ pc[c] = "rename" /\ Command(c)
  BY <1>1 DEF Rename, ClientOk
<1>3. /\ fresh[c] /\ store' = Changed(c) /\ excused' = excused
      /\ Go(c, IF undo[c] THEN "done" ELSE "connect")
  BY <1>2, RenameFacts
<1>4. e \in Entry /\ MatchOk(e)
  BY <1>2, <1>3 DEF MatchInv
<1>5. (IF undo[c] THEN "done" ELSE "connect") \in Place
  BY DEF Place, Over
<1>6. /\ pc'[c] = (IF undo[c] THEN "done" ELSE "connect")
      /\ \A d \in Client : d # c => pc'[d] = pc[d] /\ undo'[d] = undo[d]
  BY <1>1, <1>2, <1>3, <1>5, GoFacts
<1>7. CASE job[c].entry # e
  <2>1. e \in store' <=> e \in store
    BY <1>3, <1>7 DEF Changed
  <2> QED
    BY <1>2, <1>4, <1>6, <1>7, <2>1, MatchElse
<1>8. CASE job[c].entry = e /\ e \in Refused
  <2>1. CASE job[c].op = "add" /\ ~undo[c]
    <3>1. TakesBack(c, e)'
      BY <1>2, <1>6, <1>8, <2>1 DEF TakesBack
    <3> QED
      BY <1>2, <1>4, <1>6, <1>8, <3>1, MatchRefused
  <2>2. CASE ~(job[c].op = "add" /\ ~undo[c])
    <3>1. e \notin store'
      BY <1>3, <1>8, <2>2 DEF Changed
    <3> QED
      BY <1>8, <3>1 DEF MatchOk
  <2> QED
    BY <2>1, <2>2
<1>9. CASE job[c].entry = e /\ e \notin Refused
  <2>1. ~undo[c] /\ pc'[c] = "connect"
    BY <1>1, <1>6, <1>9 DEF ClientOk
  <2>2. e \in store' <=> job[c].op = "add"
    BY <1>3, <1>9, <2>1 DEF Changed
  <2>3. c \in Busy(e) /\ Saved(c, e)'
    BY <1>2, <1>9, <2>1 DEF Busy, Saved, Saving, Over, Command
  <2>4. \A d \in Client : d # c => pc'[d] = pc[d] /\ d \notin Busy(e)
    BY <1>4, <1>6, <1>9, <2>3 DEF MatchOk
  <2> QED
    BY <1>2, <1>4, <1>9, <2>1, <2>2, <2>3, <2>4, MatchAlone
<1> QED
  BY <1>7, <1>8, <1>9

LEMMA MatchTalk ==
    ASSUME TypeOK, ClientInv, MatchInv, ~mixed, NEW c \in Client,
           Connect(c) \/ Send(c) \/ NoAnswer(c),
           NEW e \in Entry \ excused'
    PROVE  MatchOk(e)'
<1>1. ClientType /\ StoreType /\ ClientOk(c)
  BY TypeParts DEF ClientInv
<1>2. UNCHANGED <<job, undo, store, daemon, excused>>
  BY DEF Connect, Send, NoAnswer, storeVars
<1>3. e \in Entry /\ MatchOk(e)
  BY <1>2 DEF MatchInv
<1>4. PICK l \in {"send", "wait", "transient"} : Go(c, l)
  BY DEF Connect, Send, NoAnswer
<1>5. pc'[c] = l /\ \A d \in Client : d # c => pc'[d] = pc[d] /\ undo'[d] = undo[d]
  BY <1>1, <1>2, <1>4, GoFacts DEF Place
<1>6. CASE ~(Command(c) /\ job[c].entry = e)
  BY <1>2, <1>3, <1>5, <1>6, MatchElse
<1>7. CASE Command(c) /\ job[c].entry = e
  <2>1. pc[c] \in {"connect", "send", "wait"} /\ ~undo[c]
    <3>1. pc[c] \in {"connect", "send", "wait"}
      BY <1>7 DEF Connect, Send, NoAnswer, Command
    <3> QED
      BY <1>1, <3>1 DEF ClientOk, Saving, Over
  <2>2. CASE e \in Refused
    <3>1. TakesBack(c, e) => TakesBack(c, e)'
      BY <1>2, <1>4, <1>5, <2>1 DEF TakesBack
    <3> QED
      BY <1>2, <1>3, <1>5, <2>2, <3>1, MatchRefused
  <2>3. CASE e \notin Refused
    <3>1. (c \in Busy(e)' <=> c \in Busy(e)) /\ (Saved(c, e)' <=> Saved(c, e)) /\ pc'[c] # "ok"
      BY <1>2, <1>4, <1>5, <1>7, <2>1 DEF Busy, Saved, Over, Saving, Command
    <3> QED
      BY <1>2, <1>3, <1>5, <2>3, <3>1, MatchSame
  <2> QED
    BY <2>2, <2>3
<1> QED
  BY <1>6, <1>7

LEMMA MatchEnd ==
    ASSUME TypeOK, ClientInv, MatchInv, ~mixed, NEW c \in Client,
           Kill(c) \/ Report(c) \/ TakeBack(c),
           NEW e \in Entry \ excused'
    PROVE  MatchOk(e)'
<1>1. ClientType /\ StoreType /\ DaemonType /\ ClientOk(c)
  BY TypeParts DEF ClientInv
<1>2. UNCHANGED <<job, store, daemon>>
  BY DEF Kill, Report, TakeBack, storeVars
<1>3. e \in Entry /\ MatchOk(e)
  <2>1. excused \subseteq excused'
    BY <1>1 DEF Kill, Report, TakeBack, DaemonType
  <2> QED
    BY <2>1 DEF MatchInv
<1>4. PICK l \in {"killed", "done", "load"} : Go(c, l)
  BY DEF Kill, Report, TakeBack
<1>5. pc'[c] = l /\ \A d \in Client : d # c => pc'[d] = pc[d]
  BY <1>1, <1>4, GoFacts DEF Place, Over
<1>6. \A d \in Client : d # c => undo'[d] = undo[d]
  BY <1>1 DEF Kill, Report, TakeBack, storeVars, StoreType
<1>7. CASE ~(Command(c) /\ job[c].entry = e)
  BY <1>2, <1>3, <1>5, <1>6, <1>7, MatchElse
<1>8. CASE Command(c) /\ job[c].entry = e
  <2>1. CASE Kill(c)
    BY <1>8, <2>1 DEF Kill
  <2>2. CASE Report(c)
    <3>1. pc[c] = "ok" /\ undo' = undo /\ l = "done"
      <4>1. pc[c] = "ok" /\ undo' = undo /\ Go(c, "done")
        BY <1>8, <2>2 DEF Report, storeVars, Command
      <4>2. pc'[c] = "done"
        BY <1>1, <4>1, GoFacts DEF Place, Over
      <4> QED
        BY <1>5, <4>1, <4>2
    <3>2. CASE e \in Refused
      <4>1. ~TakesBack(c, e)
        BY <1>1, <1>8, <3>1, <3>2 DEF TakesBack, ClientOk
      <4> QED
        BY <1>2, <1>3, <1>5, <1>6, <3>2, <4>1, MatchRefused
    <3>3. CASE e \notin Refused
      <4>1. c \in Busy(e) /\ Saved(c, e) /\ ~Saved(c, e)'
        BY <1>2, <1>5, <1>8, <3>1 DEF Busy, Saved, Over, Saving, Command
      <4>2. e \in store <=> e \in daemon
        BY <1>3, <3>1, <3>3, <4>1 DEF MatchOk
      <4>3. \A d \in Client : d # c => pc'[d] = pc[d] /\ d \notin Busy(e)
        BY <1>3, <1>5, <3>3, <4>1 DEF MatchOk
      <4> QED
        BY <1>2, <1>3, <3>3, <4>1, <4>2, <4>3, MatchAlone
    <3> QED
      BY <3>2, <3>3
  <2>3. CASE TakeBack(c)
    <3>1. pc[c] = "permanent" /\ job[c].op = "add" /\ e \in Refused
      BY <1>1, <1>8, <2>3 DEF TakeBack, ClientOk
    <3>2. Go(c, "load") /\ undo'[c] = TRUE
      BY <1>1, <2>3, <3>1 DEF TakeBack, StoreType
    <3>3. pc'[c] = "load"
      BY <1>1, <3>2, GoFacts DEF Place
    <3>4. TakesBack(c, e)'
      BY <1>2, <1>8, <3>1, <3>2, <3>3 DEF TakesBack
    <3> QED
      BY <1>2, <1>3, <1>5, <1>6, <3>1, <3>4, MatchRefused
  <2> QED
    BY <2>1, <2>2, <2>3
<1> QED
  BY <1>7, <1>8

LEMMA MatchHandle ==
    ASSUME TypeOK, ClientInv, MatchInv, ~mixed, NEW c \in Client, Handle(c),
           NEW e \in Entry \ excused'
    PROVE  MatchOk(e)'
<1>1. ClientType /\ ClientOk(c)
  BY TypeParts DEF ClientInv
<1>2. UNCHANGED <<job, undo, store, excused>> /\ conn[c] = "sent" /\ Command(c)
  BY DEF Handle, storeVars, Command
<1>3. e \in Entry /\ e \notin excused /\ MatchOk(e)
  BY <1>2 DEF MatchInv
<1>4. PICK l \in {"ok", "transient", "permanent"} :
        /\ Answer(c, l)
        /\ daemon' \in {daemon, daemon \cup {job[c].entry}, daemon \ {job[c].entry}}
        /\ l = "ok" /\ job[c].op = "add" =>
             job[c].entry \in daemon' /\ job[c].entry \notin Refused
        /\ l = "ok" /\ job[c].op # "add" => job[c].entry \notin daemon'
        /\ l = "permanent" => job[c].entry \in Refused
  <2>1. CASE /\ job[c].op = "add" /\ job[c].entry \notin Refused
             /\ daemon' = daemon \cup {job[c].entry} /\ Answer(c, "ok")
    BY <2>1
  <2>2. CASE /\ job[c].op = "remove" /\ daemon' = daemon \ {job[c].entry}
             /\ Answer(c, IF job[c].entry \in daemon THEN "ok" ELSE "transient")
    BY <2>2
  <2>3. CASE job[c].entry \in Refused /\ Answer(c, "permanent") /\ daemon' = daemon
    BY <2>3
  <2>4. CASE daemon' = daemon \ {job[c].entry} /\ Answer(c, "transient")
    BY <2>4
  <2> QED
    BY <2>1, <2>2, <2>3, <2>4 DEF Handle
<1>5. /\ pc'[c] = (IF pc[c] = "wait" THEN l ELSE pc[c])
      /\ \A d \in Client : d # c => pc'[d] = pc[d] /\ undo'[d] = undo[d]
  BY <1>1, <1>2, <1>4, AnswerFacts DEF Place
<1>6. CASE job[c].entry # e
  <2>1. e \in daemon' <=> e \in daemon
    BY <1>4, <1>6
  <2> QED
    BY <1>2, <1>3, <1>5, <1>6, <2>1, MatchElse
<1>7. CASE job[c].entry = e
  <2>1. pc[c] = "wait" /\ pc'[c] = l /\ ~undo[c]
    <3>1. pc[c] = "wait"
      BY <1>1, <1>2, <1>3, <1>7 DEF ClientOk
    <3> QED
      BY <1>1, <1>5, <3>1 DEF ClientOk, Saving, Over
  <2>2. CASE e \in Refused
    <3>1. TakesBack(c, e) => TakesBack(c, e)'
      BY <1>2, <1>4, <1>7, <2>1, <2>2 DEF TakesBack
    <3> QED
      BY <1>2, <1>3, <1>5, <2>2, <3>1, MatchRefused
  <2>3. CASE e \notin Refused
    <3>1. c \in Busy(e) /\ Saved(c, e) /\ Saved(c, e)'
      BY <1>2, <1>4, <1>7, <2>1, <2>3 DEF Busy, Saved, Over, Saving, Command
    <3>2. e \in store <=> job[c].op = "add"
      BY <1>3, <2>3, <3>1 DEF MatchOk
    <3>3. \A d \in Client : d # c => pc'[d] = pc[d] /\ d \notin Busy(e)
      BY <1>3, <1>5, <2>3, <3>1 DEF MatchOk
    <3>4. pc'[c] = "ok" => (e \in daemon' <=> job[c].op = "add")
      BY <1>4, <1>7, <2>1
    <3> QED
      BY <1>2, <1>3, <2>3, <3>1, <3>2, <3>3, <3>4, MatchAlone
  <2> QED
    BY <2>2, <2>3
<1> QED
  BY <1>6, <1>7

LEMMA MatchNext ==
    ASSUME TypeOK, ClientInv, SaveInv, MatchInv, [Next]_vars
    PROVE  MatchInv'
<1>1. ClientType /\ StoreType
  BY TypeParts
<1> SUFFICES ASSUME ~mixed', NEW e \in Entry \ excused' PROVE MatchOk(e)'
  BY DEF MatchInv
<1>2. ASSUME UNCHANGED <<job, pc, undo, store, daemon, excused, mixed>> PROVE MatchOk(e)'
  BY <1>2, MatchFrame DEF MatchInv
<1>3. CASE UNCHANGED vars
  BY <1>2, <1>3 DEF vars
<1>4. ASSUME NEW c \in Client, Load(c) \/ Create(c) \/ Write(c) \/ Rename(c) PROVE MatchOk(e)'
  BY <1>4, MatchLoad, MatchWrite, MatchRename
<1>5. ASSUME NEW c \in Client,
             \/ Kill(c) \/ Connect(c) \/ Send(c) \/ NoAnswer(c) \/ Report(c) \/ TakeBack(c)
             \/ Handle(c)
      PROVE  MatchOk(e)'
  <2>1. ~mixed
    BY <1>5 DEF Kill, Connect, Send, NoAnswer, Report, TakeBack, Handle, storeVars
  <2> QED
    BY <1>5, <2>1, MatchTalk, MatchEnd, MatchHandle
<1>6. ASSUME NEW c \in Client, Subscribe(c) PROVE MatchOk(e)'
  <2>1. UNCHANGED <<job, undo, store, daemon, excused, mixed>> /\ ~Command(c) /\ Answer(c, "ok")
    BY <1>6 DEF Subscribe, storeVars, Command
  <2>2. \A d \in Client : d # c => pc'[d] = pc[d] /\ undo'[d] = undo[d]
    BY <1>1, <2>1, AnswerFacts DEF Place
  <2>3. e \in Entry /\ MatchOk(e)
    BY <2>1 DEF MatchInv
  <2> QED
    BY <2>1, <2>2, <2>3, MatchElse
<1>7. ASSUME NEW c \in Client, Leave(c) \/ TaskStep(c) \/ Accept(c) PROVE MatchOk(e)'
  BY <1>2, <1>7 DEF TaskStep, Leave, Greet, Lagged, Recv, Accept, storeVars
<1>8. CASE Cancel \/ DropClosed \/ Stop
  BY <1>2, <1>8 DEF Cancel, DropClosed, Stop, storeVars
<1>9. ASSUME NEW t \in Type, Publish(t) PROVE MatchOk(e)'
  BY <1>2, <1>9 DEF Publish, storeVars
<1> QED
  BY <1>3, <1>4, <1>5, <1>6, <1>7, <1>8, <1>9 DEF Next, ServerStep, ClientStep

-----------------------------------------------------------------------------
(* The invariant.                                                          *)

LEMMA InvInit == Init => IInv
<1> SUFFICES ASSUME Init PROVE IInv
  OBVIOUS
<1>1. TypeOK
  BY TypeInit
<1>2. ClientInv
  BY DEF Init, ClientInv, ClientOk, Saving
<1>3. SaveInv
  BY DEF Init, SaveInv, SaveOk, Saving
<1>4. MatchInv
  <2> SUFFICES ASSUME NEW e \in Entry \ excused PROVE MatchOk(e)
    BY DEF MatchInv
  <2>1. e \notin Refused \/ e \notin store
    BY Bounds DEF Init
  <2>2. Busy(e) = {}
    BY DEF Init, Busy
  <2>3. \A c \in Client : ~Saved(c, e)
    BY <2>2 DEF Saved
  <2> QED
    BY <2>1, <2>2, <2>3 DEF MatchOk, Init
<1>5. TaskInv
  BY DEF Init, TaskInv, TaskOk
<1>6. Counts = {} /\ IsFiniteSet({})
  BY FS_EmptySet DEF Init, Counts, Counted
<1>7. ASSUME NEW c \in Client PROVE StreamOk(c)
  <2>1. got[c] = <<>> /\ pos[c] = 1 /\ from[c] = 1 /\ log = <<>> /\ Len(<<>>) = 0
    BY EmptySeq DEF Init
  <2>2. Told(<<>>, 1, 1, log)
    BY ToldNothing
  <2> QED
    BY <2>1, <2>2 DEF StreamOk
<1>8. StreamInv
  BY <1>6, <1>7 DEF StreamInv
<1> QED
  BY <1>1, <1>2, <1>3, <1>4, <1>5, <1>8 DEF IInv

LEMMA InvNext == IInv /\ [Next]_vars => IInv'
<1> SUFFICES ASSUME IInv, [Next]_vars PROVE IInv'
  OBVIOUS
<1>1. TypeOK /\ ClientInv /\ SaveInv /\ MatchInv /\ TaskInv /\ StreamInv
  BY DEF IInv
<1>2. TypeOK' /\ ClientInv' /\ SaveInv'
  BY <1>1, TypeNext, ClientNext, SaveNext
<1>3. MatchInv' /\ TaskInv' /\ StreamInv'
  BY <1>1, MatchNext, TaskNext, StreamNext
<1> QED
  BY <1>2, <1>3 DEF IInv

LEMMA InvAlways == Spec => []IInv
BY InvInit, InvNext, PTL DEF Spec

(* Every variable keeps its type; in particular the subscribers gauge is   *)
(* the number of tasks that run or leaked, through starts, ends and the    *)
(* daemon's end, and a receiver's position stays within the channel.       *)
THEOREM ControlTypeCorrect == Spec => []TypeOK
<1>1. IInv => TypeOK
  BY DEF IInv
<1> QED
  BY <1>1, InvAlways, PTL

(* Monitored::save is atomic for any number of clients, killed anywhere:   *)
(* the store is its first version or one that a client meant to save,      *)
(* unless two clients had the one temporary file open at the same time.    *)
THEOREM StoreStaysWhole == Spec => []StoreWhole
<1>1. IInv => StoreWhole
  BY DEF IInv, SaveInv, StoreWhole
<1> QED
  BY <1>1, InvAlways, PTL

(* Once every command has ended, store and daemon have the same entries,   *)
(* but for the entries that are excused: unanswered, failed or killed      *)
(* commands, two commands about one entry, a stale copy that was saved.    *)
THEOREM StoreAndDaemonAgree == Spec => []StoreMatchesDaemon
<1>1. ASSUME IInv PROVE StoreMatchesDaemon
  <2> SUFFICES ASSUME ~mixed, NEW e \in Entry \ excused,
                      \A c \in Client : pc[c] \in Over \cup {"load"} /\ (pc[c] = "load" => ~undo[c])
               PROVE  e \in store <=> e \in daemon
    BY DEF StoreMatchesDaemon
  <2>1. MatchOk(e) /\ daemon \subseteq Entry \ Refused
    BY <1>1, TypeParts DEF IInv, MatchInv, DaemonType
  <2>2. CASE e \in Refused
    <3>1. \A c \in Client : ~TakesBack(c, e)
      BY DEF TakesBack, Saving, Over
    <3> QED
      BY <2>1, <2>2, <3>1 DEF MatchOk
  <2>3. CASE e \notin Refused
    <3>1. \A c \in Client : ~Saved(c, e)
      BY DEF Saved, Busy
    <3> QED
      BY <2>1, <2>3, <3>1 DEF MatchOk
  <2> QED
    BY <2>2, <2>3
<1> QED
  BY <1>1, InvAlways, PTL

(* An entry leaves the store only by the rename of a client that was asked *)
(* to remove it, that added it and was refused, or that saved a stale copy *)
(* -- while no two clients use the temporary file at the same time.        *)
THEOREM EntriesAreKept == Spec => EntryKept
<1> DEFINE Gone(e) ==
      \E c \in Client : /\ Rename(c)
                        /\ \/ ~fresh[c]
                           \/ job[c].entry = e /\ (job[c].op = "remove" \/ undo[c])
<1>1. ASSUME IInv, Next, NEW e \in Entry, ~mixed', e \in store, e \notin store' PROVE Gone(e)
  <2>1. TypeOK /\ ClientInv /\ SaveInv /\ StoreType /\ ClientType
    BY <1>1, TypeParts DEF IInv
  <2>2. PICK c \in Client : Write(c) \/ Rename(c)
    BY <1>1 DEF Next, ClientStep, ServerStep, TaskStep, Load, Create, Connect, Send, NoAnswer,
         Report, TakeBack, Kill, Accept, Handle, Subscribe, Cancel, DropClosed, Stop, Publish,
         Leave, Greet, Lagged, Recv, storeVars
  <2>3. ~mixed
    BY <1>1, <2>2 DEF Write, Rename
  <2>4. Rename(c)
    BY <1>1, <2>1, <2>2, <2>3, SaveWrite
  <2>5. CASE fresh[c]
    <3>1. store' = Changed(c)
      BY <2>1, <2>3, <2>4, <2>5, RenameFacts
    <3>2. job[c].op # "subscribe"
      BY <2>1, <2>4 DEF ClientInv, ClientOk, Rename, Command
    <3>3. job[c].op \in {"add", "remove"}
      BY <2>1, <3>2, JobFacts DEF ClientType
    <3>4. job[c].entry = e /\ (job[c].op = "remove" \/ undo[c])
      BY <1>1, <3>1, <3>3 DEF Changed
    <3> QED
      BY <2>4, <3>4
  <2> QED
    BY <2>4, <2>5
<1>2. ASSUME IInv, [Next]_vars
      PROVE  [\A e \in Entry : ~mixed' /\ e \in store /\ e \notin store' => Gone(e)]_vars
  BY <1>1, <1>2
<1> QED
  BY <1>2, InvAlways, PTL DEF EntryKept, Spec

(* A subscriber that is still there has been sent, in order and once, the  *)
(* events of its types since its start, or a warning that covers them.     *)
THEOREM NothingLostSilently == Spec => []NoSilentLoss
<1>1. ASSUME IInv PROVE NoSilentLoss
  <2> SUFFICES ASSUME NEW c \in Client \ left
               PROVE  /\ \A i, j \in Sents(got[c]) : i < j => got[c][i].event < got[c][j].event
                      /\ Events(got[c]) \cap Warned(got[c]) = {}
                      /\ {k \in from[c]..(pos[c] - 1) : log[k] \in Filter} \ Warned(got[c])
                           = Events(got[c])
    BY DEF NoSilentLoss, Sents, Events, Warned
  <2>1. Told(got[c], from[c], pos[c], log)
    BY <1>1 DEF IInv, StreamInv, StreamOk
  <2> QED
    BY <2>1 DEF Told
<1> QED
  BY <1>1, InvAlways, PTL
=============================================================================
