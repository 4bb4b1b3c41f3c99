-------------------------- MODULE FanotifyFactory --------------------------
(***************************************************************************)
(* The privileged fanotify factory (src/common/monitor/factory.rs): a      *)
(* forked child that creates groups and sets marks for the daemon, which   *)
(* sends it one request at a time over a SEQPACKET socket pair, with       *)
(* descriptors attached, and polls for the answer with a time limit.       *)
(*                                                                         *)
(* Either process may die at any moment, the child may be stuck in a       *)
(* system call, and a signal may interrupt the daemon's poll.  A request   *)
(* is its number; `answered' only records whose reply the daemon took as   *)
(* the answer to which request.                                            *)
(***************************************************************************)
EXTENDS Naturals, Sequences, FiniteSets

CONSTANT MaxRequests    \* bound: requests

ASSUME FactoryAssumption == MaxRequests \in Nat

VARIABLES
    daemon,     \* where the daemon stands
    child,      \* where the factory stands
    request,    \* the request in progress, and the latest one after it
    toChild,    \* requests the child has not received
    toDaemon,   \* messages the daemon has not received
    alive,      \* FanotifyFactory.alive
    expired,    \* has the time limit of the poll passed?
    work,       \* the request the child works on
    childFds,   \* descriptors the child holds besides its socket
    groupFds,   \* groups whose descriptor the daemon owns
    answered    \* <<request, request of the reply>>, per answer taken

chanVars  == <<toChild, toDaemon>>
childVars == <<child, work, childFds>>
vars == <<daemon, child, request, toChild, toDaemon, alive, expired, work,
          childFds, groupFds, answered>>

Id    == 1..MaxRequests
Kind  == {"create", "mark"}
Ready == 0              \* READY_BYTE, in place of a request's number
Fd    == {"dirfd", "fan_fd"} \X Id
Message == [of : Id \cup {Ready}, ok : BOOLEAN, fds : SUBSET Fd]

TypeOK ==
    /\ daemon \in {"spawning", "idle", "polling", "timedOut", "closed", "dead"}
    /\ child \in {"forked", "armed", "listening", "working", "dead"}
    /\ request \in Id \cup {0}
    /\ toChild \in Seq([id : Id, kind : Kind]) /\ toDaemon \in Seq(Message)
    /\ alive \in BOOLEAN /\ expired \in BOOLEAN
    /\ work \in [id : Id, kind : Kind] \cup {<<>>}
    /\ child = "working" <=> work # <<>>
    /\ childFds \subseteq Fd /\ groupFds \subseteq Id
    /\ answered \in SUBSET (Id \X (Id \cup {Ready}))

(* The state right after fork(). *)
Init ==
    /\ daemon = "spawning" /\ child = "forked"
    /\ request = 0 /\ toChild = <<>> /\ toDaemon = <<>>
    /\ alive = TRUE /\ expired = FALSE
    /\ work = <<>> /\ childFds = {} /\ groupFds = {}
    /\ answered = {}

-----------------------------------------------------------------------------
(* The child.                                                              *)

(* It drops the inherited descriptors, asks to be killed with its parent,  *)
(* and exits when the parent had died before it asked.                     *)
ChildArms ==
    /\ child = "forked"
    /\ child' = IF daemon = "dead" THEN "dead" ELSE "armed"
    /\ UNCHANGED <<daemon, request, chanVars, alive, expired, work, childFds, groupFds,
                   answered>>

(* factory_child_main: the filter is installed, or the child exits; then   *)
(* the daemon is told.                                                     *)
ChildReady ==
    /\ child = "armed"
    /\ \/ /\ child' = "listening"
          /\ toDaemon' = Append(toDaemon, [of |-> Ready, ok |-> TRUE, fds |-> {}])
       \/ child' = "dead" /\ UNCHANGED toDaemon
    /\ UNCHANGED <<daemon, request, toChild, alive, expired, work, childFds, groupFds,
                   answered>>

InFds(r) == IF r.kind = "create" THEN {<<"dirfd", r.id>>}
                                 ELSE {<<"dirfd", r.id>>, <<"fan_fd", r.id>>}

ChildReceives ==
    /\ child = "listening" /\ toChild # <<>>
    /\ child' = "working"
    /\ work' = Head(toChild) /\ toChild' = Tail(toChild)
    /\ childFds' = childFds \cup InFds(Head(toChild))
    /\ UNCHANGED <<daemon, request, toDaemon, alive, expired, groupFds, answered>>

Reply(ok, fds) == toDaemon' = Append(toDaemon, [of |-> work.id, ok |-> ok, fds |-> fds])

ClosedFds_Failed(ok) ==         \* mutation: the new group of a failed mark stays open
    InFds(work) \cup IF work.kind = "create" /\ ok THEN {<<"fan_fd", work.id>>} ELSE {}

(* What the child closes when it is done with a request: the descriptors   *)
(* it received and its copy of a new group.                                *)
ClosedFds(ok) ==
    InFds(work) \cup IF work.kind = "create" THEN {<<"fan_fd", work.id>>} ELSE {}

(* create_group_and_mark and mark_dirs.  fanotify_init fails, or it made a *)
(* group whose mark fails, or everything succeeds.                         *)
ChildAnswers ==
    /\ child = "working"
    /\ \E ok \in BOOLEAN, inited \in BOOLEAN :
         /\ ok => inited
         /\ LET new == IF work.kind = "create" /\ inited THEN {<<"fan_fd", work.id>>}
                                                         ELSE {}
            IN  /\ Reply(ok, IF ok THEN new ELSE {})
                /\ childFds' = (childFds \cup new) \ ClosedFds(ok)
    /\ child' = "listening" /\ work' = <<>>
    /\ UNCHANGED <<daemon, request, toChild, alive, expired, groupFds, answered>>

Killed_KeepWork ==              \* mutation: the request outlives the child
    child' = "dead" /\ childFds' = {} /\ UNCHANGED work

Killed == child' = "dead" /\ work' = <<>> /\ childFds' = {}

(* The child is killed from outside or by its filter. *)
ChildDies ==
    /\ child # "dead"
    /\ Killed
    /\ UNCHANGED <<daemon, request, chanVars, alive, expired, groupFds, answered>>

-----------------------------------------------------------------------------
(* The daemon.                                                             *)

(* spawn: the readiness handshake. *)
Spawned ==
    /\ daemon = "spawning" /\ toDaemon # <<>>
    /\ toDaemon' = Tail(toDaemon)
    /\ daemon' = "idle" /\ expired' = FALSE
    /\ UNCHANGED <<childVars, request, toChild, alive, groupFds, answered>>

(* No readiness in time, an interrupted poll, or the child is gone: spawn  *)
(* kills the child and fails, and with it the start of the daemon.         *)
SpawnFails ==
    /\ daemon = "spawning" /\ toDaemon = <<>>
    /\ daemon' = "dead"
    /\ Killed
    /\ UNCHANGED <<request, chanVars, alive, expired, groupFds, answered>>

Request(kind) ==
    /\ daemon = "idle" /\ alive /\ request < MaxRequests
    /\ kind = "mark" => groupFds # {}
    /\ request' = request + 1
    /\ IF child # "dead"
       THEN /\ toChild' = Append(toChild, [id |-> request + 1, kind |-> kind])
            /\ daemon' = "polling" /\ expired' = FALSE
       ELSE UNCHANGED <<toChild, daemon, expired>>      \* the send fails
    /\ UNCHANGED <<childVars, toDaemon, alive, groupFds, answered>>

TakeReply ==
    /\ daemon = "polling" /\ toDaemon # <<>>
    /\ LET m == Head(toDaemon)
       IN  /\ groupFds' = groupFds \cup {f[2] : f \in m.fds}
           /\ answered' = answered \cup {<<request, m.of>>}
    /\ toDaemon' = Tail(toDaemon)
    /\ daemon' = "idle"
    /\ UNCHANGED <<childVars, request, toChild, alive, expired>>

(* The poll reports the hang-up.  recvmsg returns 0, or an error when the  *)
(* child had not received the request; only the former clears alive.       *)
ReplyEof ==
    /\ daemon = "polling" /\ toDaemon = <<>> /\ child = "dead"
    /\ daemon' = "idle"
    /\ alive' = (toChild # <<>>)
    /\ UNCHANGED <<childVars, request, chanVars, expired, groupFds, answered>>

Expire ==
    /\ daemon = "polling" /\ ~expired
    /\ expired' = TRUE
    /\ UNCHANGED <<daemon, childVars, request, chanVars, alive, groupFds, answered>>

PollFails_Wait == FALSE         \* mutation: no time limit

(* wait_readable: poll returns 0 at the time limit and -1 on a signal. *)
PollFails == toDaemon = <<>> /\ child # "dead"

TimeOut ==
    /\ daemon = "polling" /\ PollFails
    /\ daemon' = "timedOut"
    /\ \/ expired                                        \* the limit has passed
       \/ ~expired                                       \* a signal
    /\ UNCHANGED <<childVars, request, chanVars, alive, expired, groupFds, answered>>

GiveUp_Keep ==                  \* mutation: the factory is neither killed nor disused
    /\ daemon = "timedOut"
    /\ daemon' = "idle"
    /\ UNCHANGED <<childVars, request, chanVars, alive, expired, groupFds, answered>>

(* The factory is killed, so that no late reply can be taken for the       *)
(* answer to a later request; one may arrive before the signal does.       *)
GiveUp ==
    /\ daemon = "timedOut"
    /\ daemon' = "idle" /\ alive' = FALSE
    /\ Killed
    /\ UNCHANGED <<request, chanVars, expired, groupFds, answered>>

(* Drop: the child is killed and waited for. *)
Drop ==
    /\ daemon = "idle"
    /\ daemon' = "closed" /\ groupFds' = {}
    /\ Killed
    /\ UNCHANGED <<request, chanVars, alive, expired, answered>>

Armed_Never == FALSE            \* mutation: no PR_SET_PDEATHSIG

(* PR_SET_PDEATHSIG has been called. *)
Armed == child \in {"armed", "listening", "working"}

(* The daemon is killed; the kernel kills an armed child with it. *)
DaemonDies ==
    /\ daemon \notin {"closed", "dead"}
    /\ daemon' = "dead" /\ groupFds' = {}
    /\ IF Armed THEN Killed ELSE UNCHANGED childVars
    /\ UNCHANGED <<request, chanVars, alive, expired, answered>>

-----------------------------------------------------------------------------
ChildStep  == ChildArms \/ ChildReady \/ ChildReceives
DaemonStep == Spawned \/ SpawnFails \/ TakeReply \/ ReplyEof \/ GiveUp

Next ==
    \/ ChildStep \/ ChildAnswers \/ ChildDies
    \/ DaemonStep \/ Expire \/ TimeOut \/ Drop \/ DaemonDies
    \/ \E kind \in Kind : Request(kind)

(* Both processes run and time passes.  No fairness for ChildAnswers: the  *)
(* child may be stuck in fanotify_mark.                                    *)
Fairness ==
    /\ WF_vars(ChildStep) /\ WF_vars(DaemonStep)
    /\ WF_vars(Expire) /\ WF_vars(expired /\ TimeOut)

Spec == Init /\ [][Next]_vars /\ Fairness

-----------------------------------------------------------------------------
(* request: the answer the daemon takes is the answer to the request it    *)
(* has sent, also after a time-out that raced a late reply, and never the  *)
(* handshake.                                                              *)
RepliesMatch == \A a \in answered : a[1] = a[2]

(* The privileged process keeps no descriptor from one request to the      *)
(* next: neither those it received nor a group it created.                 *)
ChildHoldsNothing == child \in {"listening", "dead"} => childFds = {}

(* request: the daemon's main task is never stuck in a request, even when  *)
(* the factory never answers.                                              *)
RequestEnds == daemon = "polling" ~> daemon \in {"idle", "dead"}

(* The privilege does not outlive the daemon: once the daemon is gone, at  *)
(* whatever moment and whatever the child is doing, so is the factory.     *)
NoOrphan == daemon \in {"closed", "dead"} ~> child = "dead"
=============================================================================
