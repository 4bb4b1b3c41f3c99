----------------------- MODULE FanotifyFactoryProofs -----------------------
(***************************************************************************)
(* The fanotify factory, for every number of requests.                     *)
(***************************************************************************)
EXTENDS FanotifyFactory, SequenceTheorems, TLAPS

(* Nothing is on its way between the two processes. *)
Settled == toChild = <<>> /\ work = <<>> /\ toDaemon = <<>>

(* At most one thing is on its way, and it belongs to n: the request, the  *)
(* work on it, or the reply.  All of it may have gone with the child.      *)
Underway(n) ==
    \/ Settled
    \/ Len(toChild) = 1 /\ toChild[1].id = n /\ work = <<>> /\ toDaemon = <<>>
    \/ toChild = <<>> /\ work # <<>> /\ work.id = n /\ toDaemon = <<>>
    \/ toChild = <<>> /\ work = <<>> /\ Len(toDaemon) = 1 /\ toDaemon[1].of = n

(* What the protocol rests on: the daemon only has a request under way     *)
(* while it polls or gives up; when it is idle with a factory it still     *)
(* uses, the socket pair is empty and the child is at its receive.         *)
ProtocolInv ==
    /\ daemon = "spawning" => /\ Underway(Ready) /\ toChild = <<>> /\ work = <<>>
                              /\ child \in {"forked", "armed"} => toDaemon = <<>>
    /\ daemon \in {"idle", "polling", "timedOut"} => child \notin {"forked", "armed"}
    /\ daemon = "idle" /\ alive /\ child # "dead" => Settled
    /\ daemon \in {"polling", "timedOut"} => request \in Id /\ Underway(request)

(* The child holds the descriptors of the request it works on, and else    *)
(* none.                                                                   *)
FdInv == childFds = IF child = "working" THEN InFds(work) ELSE {}

IInv == TypeOK /\ ProtocolInv /\ FdInv /\ RepliesMatch

LEMMA OneElement ==
    ASSUME NEW S, NEW s \in Seq(S), Len(s) = 1
    PROVE  s # <<>> /\ Head(s) = s[1] /\ Head(s) \in S /\ Tail(s) = <<>>
<1>1. s # <<>> /\ s[1] \in S
  OBVIOUS
<1>2. Tail(s) \in Seq(S) /\ Len(Tail(s)) = 0
  BY <1>1, HeadTailProperties
<1>3. Tail(s) = <<>>
  BY <1>2, EmptySeq
<1> QED
  BY <1>1, <1>3

LEMMA AppendToEmpty ==
    ASSUME NEW S, NEW x \in S
    PROVE  /\ Append(<<>>, x) \in Seq(S)
           /\ Len(Append(<<>>, x)) = 1 /\ Append(<<>>, x)[1] = x
OBVIOUS

LEMMA RequestRecord ==
    ASSUME NEW r \in [id : Id, kind : Kind]
    PROVE  r # <<>> /\ r.id \in Id /\ r.kind \in Kind /\ InFds(r) \subseteq Fd
BY DEF Id, Kind, InFds, Fd

LEMMA InitInv == Init => IInv
<1> SUFFICES ASSUME Init PROVE IInv
  OBVIOUS
<1>1. alive \in BOOLEAN /\ expired \in BOOLEAN
  BY DEF Init
<1>2. toChild \in Seq([id : Id, kind : Kind]) /\ toDaemon \in Seq(Message)
  BY DEF Init
<1>3. TypeOK
  BY <1>1, <1>2 DEF Init, TypeOK
<1>4. ProtocolInv /\ FdInv /\ RepliesMatch
  BY DEF Init, ProtocolInv, FdInv, RepliesMatch, Underway, Settled
<1> QED
  BY <1>3, <1>4 DEF IInv

(* The child is gone with its work and its descriptors. *)
LEMMA KilledInv ==
    ASSUME IInv, Killed, UNCHANGED <<request, chanVars, expired, answered>>,
           daemon' \in {"idle", "closed", "dead", daemon},
           daemon' = "spawning" => daemon = "spawning",
           daemon' \in {"polling", "timedOut"} => daemon' = daemon,
           alive' \in BOOLEAN, groupFds' \subseteq Id
    PROVE  IInv'
<1>1. TypeOK'
  BY DEF IInv, TypeOK, Killed, chanVars
<1>2. ProtocolInv'
  BY DEF IInv, ProtocolInv, TypeOK, Killed, chanVars, Underway, Settled
<1>3. FdInv' /\ RepliesMatch'
  BY DEF IInv, FdInv, RepliesMatch, Killed
<1> QED
  BY <1>1, <1>2, <1>3 DEF IInv

LEMMA ChildInv ==
    ASSUME IInv, ChildStep \/ ChildAnswers \/ ChildDies
    PROVE  IInv'
<1>1. CASE ChildArms
  <2>1. TypeOK'
    BY <1>1 DEF IInv, TypeOK, ChildArms, chanVars
  <2>2. ProtocolInv'
    BY <1>1 DEF IInv, ProtocolInv, ChildArms, chanVars, Underway, Settled
  <2>3. FdInv' /\ RepliesMatch'
    BY <1>1 DEF IInv, FdInv, RepliesMatch, ChildArms
  <2> QED
    BY <2>1, <2>2, <2>3 DEF IInv
<1>2. CASE ChildReady
  <2> DEFINE m == [of |-> Ready, ok |-> TRUE, fds |-> {}]
  <2>1. m \in Message
    BY DEF Message
  <2>2. /\ child = "armed" /\ child' \in {"listening", "dead"}
        /\ toDaemon' \in {toDaemon, Append(toDaemon, m)}
    BY <1>2 DEF ChildReady
  <2>3. UNCHANGED <<daemon, request, toChild, alive, expired, work, childFds, groupFds,
                    answered>>
    BY <1>2 DEF ChildReady
  <2>4. toDaemon' \in Seq(Message)
    BY <2>1, <2>2 DEF IInv, TypeOK
  <2>5. TypeOK'
    BY <2>2, <2>3, <2>4 DEF IInv, TypeOK
  <2>6. ProtocolInv'
    <3>1. CASE daemon = "spawning"
      <4>1. toDaemon = <<>> /\ toChild = <<>> /\ work = <<>>
        BY <2>2, <3>1 DEF IInv, ProtocolInv
      <4>2. Len(Append(<<>>, m)) = 1 /\ Append(<<>>, m)[1] = m /\ m.of = Ready
        BY <2>1, AppendToEmpty
      <4>3. Underway(Ready)'
        <5>1. CASE toDaemon' = toDaemon
          BY <2>3, <4>1, <5>1 DEF Underway, Settled
        <5>2. CASE toDaemon' = Append(toDaemon, m)
          <6>1. Len(toDaemon') = 1 /\ toDaemon'[1].of = Ready
            BY <4>1, <4>2, <5>2
          <6> QED
            BY <2>3, <4>1, <6>1 DEF Underway
        <5> QED
          BY <2>2, <5>1, <5>2
      <4> QED
        BY <2>2, <2>3, <3>1, <4>1, <4>3 DEF ProtocolInv
    <3>2. CASE daemon # "spawning"
      BY <2>2, <2>3, <3>2 DEF IInv, ProtocolInv
    <3> QED
      BY <3>1, <3>2
  <2>7. FdInv' /\ RepliesMatch'
    BY <2>2, <2>3 DEF IInv, FdInv, RepliesMatch
  <2> QED
    BY <2>5, <2>6, <2>7 DEF IInv
<1>3. CASE ChildReceives
  <2>1. /\ child = "listening" /\ toChild # <<>> /\ child' = "working"
        /\ work' = Head(toChild) /\ toChild' = Tail(toChild)
        /\ childFds' = childFds \cup InFds(Head(toChild))
        /\ UNCHANGED <<daemon, request, toDaemon, alive, expired, groupFds, answered>>
    BY <1>3 DEF ChildReceives
  <2>2. toChild \in Seq([id : Id, kind : Kind])
    BY DEF IInv, TypeOK
  <2>3. Head(toChild) \in [id : Id, kind : Kind] /\ Tail(toChild) \in Seq([id : Id, kind : Kind])
    BY <2>1, <2>2, HeadTailProperties
  <2>4. work' # <<>> /\ InFds(work') \subseteq Fd
    BY <2>1, <2>3, RequestRecord
  <2>5. childFds = {} /\ childFds' = InFds(work')
    BY <2>1 DEF IInv, FdInv
  <2>6. TypeOK'
    BY <2>1, <2>3, <2>4, <2>5 DEF IInv, TypeOK
  <2>7. ProtocolInv'
    <3>1. daemon # "spawning" /\ ~(daemon = "idle" /\ alive)
      BY <2>1 DEF IInv, ProtocolInv, Settled
    <3>2. ASSUME daemon \in {"polling", "timedOut"}
          PROVE  request \in Id /\ Underway(request)'
      <4>1. request \in Id /\ Underway(request)
        BY <3>2 DEF IInv, ProtocolInv
      <4>2. Len(toChild) = 1 /\ toChild[1].id = request /\ toDaemon = <<>>
        BY <2>1, <4>1 DEF Underway, Settled
      <4>3. Head(toChild) = toChild[1] /\ Tail(toChild) = <<>>
        BY <2>2, <4>2, OneElement
      <4> QED
        BY <2>1, <2>4, <4>1, <4>2, <4>3 DEF Underway
    <3> QED
      BY <2>1, <3>1, <3>2 DEF ProtocolInv
  <2>8. FdInv' /\ RepliesMatch'
    BY <2>1, <2>5 DEF IInv, FdInv, RepliesMatch
  <2> QED
    BY <2>6, <2>7, <2>8 DEF IInv
<1>4. CASE ChildAnswers
  <2>1. PICK ok \in BOOLEAN, inited \in BOOLEAN :
          LET new == IF work.kind = "create" /\ inited THEN {<<"fan_fd", work.id>>} ELSE {}
          IN  /\ Reply(ok, IF ok THEN new ELSE {})
              /\ childFds' = (childFds \cup new) \ ClosedFds(ok)
    BY <1>4 DEF ChildAnswers
  <2> DEFINE new == IF work.kind = "create" /\ inited THEN {<<"fan_fd", work.id>>} ELSE {}
             m == [of |-> work.id, ok |-> ok, fds |-> IF ok THEN new ELSE {}]
  <2>2. /\ child = "working" /\ child' = "listening" /\ work' = <<>>
        /\ UNCHANGED <<daemon, request, toChild, alive, expired, groupFds, answered>>
    BY <1>4 DEF ChildAnswers
  <2>3. work \in [id : Id, kind : Kind] /\ work # <<>>
    BY <2>2 DEF IInv, TypeOK
  <2>4. work.id \in Id /\ new \subseteq Fd
    BY <2>3 DEF Fd
  <2>5. m \in Message
    BY <2>4 DEF Message
  <2>6. toDaemon' = Append(toDaemon, m)
    BY <2>1 DEF Reply
  <2>7. childFds = InFds(work)
    BY <2>2 DEF IInv, FdInv
  <2>8. childFds' = {}
    BY <2>1, <2>7 DEF ClosedFds
  <2>9. toDaemon' \in Seq(Message)
    BY <2>5, <2>6 DEF IInv, TypeOK
  <2>10. TypeOK'
    BY <2>2, <2>8, <2>9 DEF IInv, TypeOK
  <2>11. ProtocolInv'
    <3>1. daemon # "spawning" /\ ~(daemon = "idle" /\ alive)
      BY <2>2, <2>3 DEF IInv, ProtocolInv, Settled
    <3>2. ASSUME daemon \in {"polling", "timedOut"}
          PROVE  request \in Id /\ Underway(request)'
      <4>1. request \in Id /\ Underway(request)
        BY <3>2 DEF IInv, ProtocolInv
      <4>2. toChild = <<>> /\ work.id = request /\ toDaemon = <<>>
        BY <2>3, <4>1 DEF Underway, Settled
      <4>3. Len(Append(<<>>, m)) = 1 /\ Append(<<>>, m)[1] = m /\ m.of = request
        BY <2>5, <4>2, AppendToEmpty
      <4> HIDE DEF m
      <4>4. Len(toDaemon') = 1 /\ toDaemon'[1].of = request
        BY <2>6, <4>2, <4>3
      <4> QED
        BY <2>2, <4>1, <4>2, <4>4 DEF Underway
    <3> QED
      BY <2>2, <3>1, <3>2 DEF ProtocolInv
  <2>12. FdInv' /\ RepliesMatch'
    BY <2>2, <2>8 DEF IInv, FdInv, RepliesMatch
  <2> QED
    BY <2>10, <2>11, <2>12 DEF IInv
<1>5. CASE ChildDies
  <2>1. Killed /\ UNCHANGED <<daemon, request, chanVars, alive, expired, groupFds, answered>>
    BY <1>5 DEF ChildDies
  <2>2. alive' \in BOOLEAN /\ groupFds' \subseteq Id
    BY <2>1 DEF IInv, TypeOK
  <2> QED
    BY <2>1, <2>2, KilledInv
<1> QED
  BY <1>1, <1>2, <1>3, <1>4, <1>5 DEF ChildStep

LEMMA DaemonInv ==
    ASSUME IInv,
           \/ DaemonStep \/ Expire \/ TimeOut \/ Drop \/ DaemonDies
           \/ \E kind \in Kind : Request(kind)
    PROVE  IInv'
<1>0. /\ toChild \in Seq([id : Id, kind : Kind]) /\ toDaemon \in Seq(Message)
      /\ request \in Id \cup {0} /\ alive \in BOOLEAN /\ groupFds \subseteq Id
  BY DEF IInv, TypeOK
<1>1. CASE Spawned
  <2>1. /\ daemon = "spawning" /\ toDaemon # <<>> /\ toDaemon' = Tail(toDaemon)
        /\ daemon' = "idle" /\ expired' = FALSE
        /\ UNCHANGED <<child, work, childFds, request, toChild, alive, groupFds, answered>>
    BY <1>1 DEF Spawned, childVars
  <2>2. /\ toChild = <<>> /\ work = <<>> /\ Len(toDaemon) = 1
        /\ child \notin {"forked", "armed"}
    BY <2>1 DEF IInv, ProtocolInv, Underway, Settled
  <2>3. toDaemon' = <<>>
    BY <1>0, <2>1, <2>2, OneElement
  <2>4. toDaemon' \in Seq(Message)
    BY <2>3
  <2>8. expired' \in BOOLEAN
    BY <2>1
  <2>5. TypeOK'
    BY <2>1, <2>4, <2>8 DEF IInv, TypeOK
  <2>6. ProtocolInv'
    BY <2>1, <2>2, <2>3 DEF ProtocolInv, Settled
  <2>7. FdInv' /\ RepliesMatch'
    BY <2>1 DEF IInv, FdInv, RepliesMatch
  <2> QED
    BY <2>5, <2>6, <2>7 DEF IInv
<1>2. CASE SpawnFails
  BY <1>0, <1>2, KilledInv DEF SpawnFails
<1>3. CASE TakeReply
  <2> DEFINE m == Head(toDaemon)
  <2>1. /\ daemon = "polling" /\ toDaemon # <<>> /\ toDaemon' = Tail(toDaemon)
        /\ daemon' = "idle"
        /\ groupFds' = groupFds \cup {f[2] : f \in m.fds}
        /\ answered' = answered \cup {<<request, m.of>>}
        /\ UNCHANGED <<child, work, childFds, request, toChild, alive, expired>>
    BY <1>3 DEF TakeReply, childVars
  <2>2. request \in Id /\ Underway(request) /\ child \notin {"forked", "armed"}
    BY <2>1 DEF IInv, ProtocolInv
  <2>3. toChild = <<>> /\ work = <<>> /\ Len(toDaemon) = 1 /\ toDaemon[1].of = request
    BY <2>1, <2>2 DEF Underway, Settled
  <2>4. m = toDaemon[1] /\ m \in Message /\ toDaemon' = <<>>
    BY <1>0, <2>1, <2>3, OneElement
  <2>5. m.fds \subseteq Fd
    BY <2>4 DEF Message
  <2> HIDE DEF m
  <2>6. groupFds' \subseteq Id
    <3>1. \A f \in m.fds : f[2] \in Id
      BY <2>5 DEF Fd
    <3> QED
      BY <1>0, <2>1, <3>1
  <2>7. answered' = answered \cup {<<request, request>>}
    BY <2>1, <2>3, <2>4
  <2>8. answered' \in SUBSET (Id \X (Id \cup {Ready}))
    BY <2>2, <2>7 DEF IInv, TypeOK
  <2>9. toDaemon' \in Seq(Message)
    BY <2>4
  <2>10. TypeOK'
    BY <2>1, <2>6, <2>8, <2>9 DEF IInv, TypeOK
  <2>11. ProtocolInv'
    BY <2>1, <2>2, <2>3, <2>4 DEF ProtocolInv, Settled
  <2>12. FdInv' /\ RepliesMatch'
    BY <2>1, <2>7 DEF IInv, FdInv, RepliesMatch
  <2> QED
    BY <2>10, <2>11, <2>12 DEF IInv
<1>4. CASE ReplyEof
  <2>1. /\ daemon = "polling" /\ child = "dead" /\ daemon' = "idle"
        /\ alive' = (toChild # <<>>)
        /\ UNCHANGED <<child, work, childFds, request, toChild, toDaemon, expired, groupFds,
                       answered>>
    BY <1>4 DEF ReplyEof, childVars, chanVars
  <2>2. alive' \in BOOLEAN
    BY <2>1
  <2>3. TypeOK'
    BY <2>1, <2>2 DEF IInv, TypeOK
  <2>4. ProtocolInv' /\ FdInv' /\ RepliesMatch'
    BY <2>1 DEF IInv, ProtocolInv, FdInv, RepliesMatch
  <2> QED
    BY <2>3, <2>4 DEF IInv
<1>5. CASE GiveUp
  <2>1. alive' \in BOOLEAN
    BY <1>5 DEF GiveUp
  <2> QED
    BY <1>0, <1>5, <2>1, KilledInv DEF GiveUp
<1>6. CASE Expire
  <2>1. expired' \in BOOLEAN
    BY <1>6 DEF Expire
  <2>2. UNCHANGED <<daemon, child, work, childFds, request, toChild, toDaemon, alive, groupFds,
                    answered>>
    BY <1>6 DEF Expire, childVars, chanVars
  <2> QED
    BY <2>1, <2>2 DEF IInv, TypeOK, ProtocolInv, FdInv, RepliesMatch, Underway, Settled
<1>7. CASE TimeOut
  <2>1. /\ daemon = "polling" /\ daemon' = "timedOut"
        /\ UNCHANGED <<child, work, childFds, request, toChild, toDaemon, alive, expired,
                       groupFds, answered>>
    BY <1>7 DEF TimeOut, childVars, chanVars
  <2> QED
    BY <2>1 DEF IInv, TypeOK, ProtocolInv, FdInv, RepliesMatch, Underway, Settled
<1>8. CASE Drop
  <2>1. groupFds' \subseteq Id
    BY <1>8 DEF Drop
  <2> QED
    BY <1>0, <1>8, <2>1, KilledInv DEF Drop
<1>9. CASE DaemonDies
  <2>1. groupFds' \subseteq Id
    BY <1>9 DEF DaemonDies
  <2>2. CASE Killed
    BY <1>0, <1>9, <2>1, <2>2, KilledInv DEF DaemonDies
  <2>3. CASE UNCHANGED childVars
    <3>1. /\ daemon' = "dead"
          /\ UNCHANGED <<child, work, childFds, request, toChild, toDaemon, alive, expired,
                         answered>>
      BY <1>9, <2>3 DEF DaemonDies, childVars, chanVars
    <3> QED
      BY <2>1, <3>1 DEF IInv, TypeOK, ProtocolInv, FdInv, RepliesMatch
  <2> QED
    BY <1>9, <2>2, <2>3 DEF DaemonDies
<1>10. ASSUME NEW kind \in Kind, Request(kind) PROVE IInv'
  <2> DEFINE r == [id |-> request + 1, kind |-> kind]
  <2>1. /\ daemon = "idle" /\ alive /\ request < MaxRequests /\ request' = request + 1
        /\ UNCHANGED <<child, work, childFds, toDaemon, alive, groupFds, answered>>
    BY <1>10 DEF Request, childVars
  <2>2. request + 1 \in Id
    BY <1>0, <2>1, FactoryAssumption DEF Id, FactoryAssumption
  <2>3. CASE child = "dead"
    <3>1. UNCHANGED <<toChild, daemon, expired>>
      BY <1>10, <2>3 DEF Request
    <3> QED
      BY <2>1, <2>2, <2>3, <3>1 DEF IInv, TypeOK, ProtocolInv, FdInv, RepliesMatch
  <2>4. CASE child # "dead"
    <3>1. toChild' = Append(toChild, r) /\ daemon' = "polling" /\ expired' = FALSE
      BY <1>10, <2>4 DEF Request
    <3>2. Settled /\ child \notin {"forked", "armed"}
      BY <2>1, <2>4 DEF IInv, ProtocolInv
    <3>3. r \in [id : Id, kind : Kind]
      BY <2>2
    <3>4. /\ toChild' \in Seq([id : Id, kind : Kind]) /\ Len(toChild') = 1
          /\ toChild'[1] = r /\ r.id = request + 1
      BY <3>1, <3>2, <3>3, AppendToEmpty DEF Settled
    <3>5. expired' \in BOOLEAN
      BY <3>1
    <3> HIDE DEF r
    <3>6. TypeOK'
      BY <2>1, <2>2, <3>1, <3>4, <3>5 DEF IInv, TypeOK
    <3>7. Underway(request)'
      BY <2>1, <3>2, <3>4 DEF Underway, Settled
    <3>8. ProtocolInv'
      BY <2>1, <2>2, <3>1, <3>2, <3>7 DEF ProtocolInv
    <3>9. FdInv' /\ RepliesMatch'
      BY <2>1 DEF IInv, FdInv, RepliesMatch
    <3> QED
      BY <3>6, <3>8, <3>9 DEF IInv
  <2> QED
    BY <2>3, <2>4
<1> QED
  BY <1>1, <1>2, <1>3, <1>4, <1>5, <1>6, <1>7, <1>8, <1>9, <1>10 DEF DaemonStep

LEMMA NextInv == IInv /\ [Next]_vars => IInv'
<1> SUFFICES ASSUME IInv, [Next]_vars PROVE IInv'
  OBVIOUS
<1>1. CASE UNCHANGED vars
  BY <1>1 DEF vars, IInv, TypeOK, ProtocolInv, FdInv, RepliesMatch, Underway, Settled
<1>2. CASE Next
  BY <1>2, ChildInv, DaemonInv DEF Next
<1> QED
  BY <1>1, <1>2

-----------------------------------------------------------------------------
(* Both ends of the socket pair stay well typed: in particular the child   *)
(* has a request exactly while it works, and the daemon never takes a      *)
(* reply before it has sent a request.                                     *)
THEOREM FactoryTypeCorrect == Spec => []TypeOK
<1>1. IInv => TypeOK
  BY DEF IInv
<1> QED
  BY InitInv, NextInv, <1>1, PTL DEF Spec

(* FanotifyFactory::request: whatever the child does after a time-out, and *)
(* whenever either process dies, an answer that the daemon takes belongs   *)
(* to the request it has sent last.  Nothing in a message says so: that    *)
(* the factory is killed and disused after a time-out is what makes it     *)
(* true.                                                                   *)
THEOREM AnswersBelong == Spec => []RepliesMatch
<1>1. IInv => RepliesMatch
  BY DEF IInv
<1> QED
  BY InitInv, NextInv, <1>1, PTL DEF Spec

(* factory_child_main: between requests the privileged child holds no      *)
(* descriptor, however the request ended.                                  *)
THEOREM ChildKeepsNoDescriptor == Spec => []ChildHoldsNothing
<1>1. IInv => ChildHoldsNothing
  BY DEF IInv, FdInv, ChildHoldsNothing
<1> QED
  BY InitInv, NextInv, <1>1, PTL DEF Spec
=============================================================================
