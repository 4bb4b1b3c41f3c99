-------------------------- MODULE ReaderSupervisor --------------------------
(***************************************************************************)
(* The supervision of the fanotify reader tasks (src/common/monitor/       *)
(* reader.rs): every group has a task that reads its descriptor; a task    *)
(* that ends sends a death notice to the main loop, which starts another   *)
(* one or, when it has been doing so too often, gives up.                  *)
(*                                                                         *)
(* Time passes in ticks.  `spawned' and `undup' only record when a task    *)
(* was started and where dup(2) failed last; no action reads them.         *)
(***************************************************************************)
EXTENDS Integers, Sequences, FiniteSets

CONSTANTS
    Key,           \* the keys of the group slot map, never reused
    MaxRestarts,   \* MAX_RESTARTS
    Window,        \* BACKOFF_WINDOW, in ticks
    MaxTime        \* bound: ticks

ASSUME SupervisorAssumption ==
    /\ MaxRestarts \in Nat \ {0} /\ Window \in Nat \ {0}
    /\ MaxTime \in Nat

VARIABLES
    now,       \* the clock
    created,   \* keys handed out so far
    groups,    \* keys of the live groups
    tasks,     \* reader tasks running for each key
    notices,   \* death notices of each key in the channel
    count,     \* ReaderState.restart_count; 0: no ReaderState
    last,      \* ReaderState.last_restart
    gaveUp,    \* ReaderState.gave_up
    spawned,   \* when each task of a key was started
    undup      \* keys whose latest dup failed

stateVars == <<count, last, gaveUp>>
vars == <<now, created, groups, tasks, notices, count, last, gaveUp, spawned, undup>>

TypeOK ==
    /\ now \in Nat
    /\ created \subseteq Key /\ groups \subseteq created
    /\ tasks \in [Key -> Nat] /\ notices \in [Key -> Nat]
    /\ count \in [Key -> Nat] /\ last \in [Key -> Nat]
    /\ gaveUp \in [Key -> BOOLEAN]
    /\ spawned \in [Key -> Seq(Nat)] /\ undup \subseteq Key

Init ==
    /\ now = 0 /\ created = {} /\ groups = {}
    /\ tasks = [k \in Key |-> 0] /\ notices = [k \in Key |-> 0]
    /\ count = [k \in Key |-> 0] /\ last = [k \in Key |-> 0]
    /\ gaveUp = [k \in Key |-> FALSE]
    /\ spawned = [k \in Key |-> <<>>] /\ undup = {}

-----------------------------------------------------------------------------
DupFails(k) == undup' = undup \cup {k} /\ UNCHANGED <<tasks, stateVars, spawned>>

Spawned_Keep(k) ==              \* mutation: last_restart is not renewed
    /\ tasks' = [tasks EXCEPT ![k] = @ + 1]
    /\ count' = [count EXCEPT ![k] = @ + 1]
    /\ last' = [last EXCEPT ![k] = IF count[k] = 0 THEN now ELSE @]
    /\ gaveUp' = [gaveUp EXCEPT ![k] = FALSE]
    /\ spawned' = [spawned EXCEPT ![k] = Append(@, now)]
    /\ undup' = undup \ {k}

Spawned(k) ==
    /\ tasks' = [tasks EXCEPT ![k] = @ + 1]
    /\ count' = [count EXCEPT ![k] = @ + 1]
    /\ last' = [last EXCEPT ![k] = now]
    /\ gaveUp' = [gaveUp EXCEPT ![k] = FALSE]
    /\ spawned' = [spawned EXCEPT ![k] = Append(@, now)]
    /\ undup' = undup \ {k}

(* spawn_fd_reader: a failed dup leaves no task, no notice and the         *)
(* ReaderState as it was.                                                  *)
SpawnFdReader(k) == Spawned(k) \/ DupFails(k)

(* A group is inserted into the table. *)
CreateGroup(k) ==
    /\ k \notin created
    /\ created' = created \cup {k} /\ groups' = groups \cup {k}
    /\ SpawnFdReader(k)
    /\ UNCHANGED <<now, notices>>

(* A group leaves the table; its task and its ReaderState stay. *)
RemoveGroup(k) ==
    /\ k \in groups
    /\ groups' = groups \ {k}
    /\ UNCHANGED <<now, created, tasks, notices, stateVars, spawned, undup>>

ReaderExits_Any(k) ==           \* mutation: a notice without a task that ended
    /\ tasks' = [tasks EXCEPT ![k] = @ - 1]
    /\ notices' = [notices EXCEPT ![k] = @ + 1]
    /\ UNCHANGED <<now, created, groups, stateVars, spawned, undup>>

(* The descriptor cannot be polled, or the event channel is closed. *)
ReaderExits(k) ==
    /\ tasks[k] > 0
    /\ tasks' = [tasks EXCEPT ![k] = @ - 1]
    /\ notices' = [notices EXCEPT ![k] = @ + 1]
    /\ UNCHANGED <<now, created, groups, stateVars, spawned, undup>>

InWindow(k) == now - last[k] < Window

GiveUp_Silently(k) ==           \* mutation: gave_up is not set
    UNCHANGED <<tasks, stateVars, spawned, undup>>

GiveUp(k) ==
    /\ gaveUp' = [gaveUp EXCEPT ![k] = TRUE]
    /\ UNCHANGED <<tasks, count, last, spawned, undup>>

TakeNotice_Peek(k) ==           \* mutation: the notice stays in the channel
    notices[k] > 0 /\ UNCHANGED notices

TakeNotice(k) == notices[k] > 0 /\ notices' = [notices EXCEPT ![k] = @ - 1]

(* restart_reader, for the next notice of the channel. *)
RestartReader(k) ==
    /\ TakeNotice(k)
    /\ \/ /\ InWindow(k) /\ count[k] >= MaxRestarts
          /\ GiveUp(k)
       \/ /\ ~(InWindow(k) /\ count[k] >= MaxRestarts)
          /\ k \in groups
          /\ SpawnFdReader(k)
       \/ /\ ~(InWindow(k) /\ count[k] >= MaxRestarts)
          /\ k \notin groups
          /\ UNCHANGED <<tasks, stateVars, spawned, undup>>
    /\ UNCHANGED <<now, created, groups>>

Tick ==
    /\ now < MaxTime
    /\ now' = now + 1
    /\ UNCHANGED <<created, groups, tasks, notices, stateVars, spawned, undup>>

Next ==
    \/ \E k \in Key : CreateGroup(k) \/ RemoveGroup(k) \/ ReaderExits(k) \/ RestartReader(k)
    \/ Tick

(* The main loop reads the channel of the notices. *)
Fairness == \A k \in Key : WF_vars(RestartReader(k))

Spec == Init /\ [][Next]_vars /\ Fairness

-----------------------------------------------------------------------------
(* ReaderHealth.alive of the health command. *)
ReportedAlive(k) == count[k] > 0 /\ ~gaveUp[k]

(* reader.rs, ReaderState: restarts are capped at MAX_RESTARTS within      *)
(* BACKOFF_WINDOW.  Any MaxRestarts + 1 consecutive starts of a group's    *)
(* reader take at least Window.                                            *)
RestartsCapped ==
    \A k \in Key : \A i \in 1..Len(spawned[k]) :
      i > MaxRestarts => spawned[k][i] - spawned[k][i - MaxRestarts] >= Window

(* A group has at most one reader, and never one besides a notice that     *)
(* would start another: two readers of one descriptor would take each      *)
(* other's events and break their order.                                   *)
OneReader == \A k \in Key : tasks[k] + notices[k] <= 1

(* A group never stays without a reader unnoticed: a new one is started,   *)
(* restart_reader gives up and says so, the group is removed, or dup fails *)
(* (what health then says is the subject of HealthAccurate).               *)
ReaderSupervised ==
    \A k \in Key : k \in groups /\ tasks[k] = 0 ~>
                     k \notin groups \/ tasks[k] > 0 \/ gaveUp[k] \/ k \in undup

(* reader.rs, restart_reader: gave_up makes health() report accurate       *)
(* alive/dead status.  When every notice has been handled, health says a   *)
(* reader is alive exactly when one runs, except where the latest dup      *)
(* failed: that leaves the ReaderState, and so the report, as it was.      *)
HealthAccurate ==
    \A k \in groups \ undup : notices[k] = 0 => (ReportedAlive(k) <=> tasks[k] > 0)
=============================================================================
