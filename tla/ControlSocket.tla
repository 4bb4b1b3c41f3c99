---------------------------- MODULE ControlSocket ----------------------------
(***************************************************************************)
(* The command line clients, the store file they share, and the daemon's   *)
(* control socket (src/bin/fsmon/commands/add.rs and remove.rs,            *)
(* src/common/monitored.rs, src/common/socket.rs, src/common/monitor.rs    *)
(* and src/common/monitor/socket_handler.rs).                              *)
(*                                                                         *)
(* fsmon add and fsmon remove load the store, change it, save it through a *)
(* temporary file of a fixed name, and then tell the daemon; nothing locks *)
(* the store, and a client may be killed at any point.  The daemon reads   *)
(* one connection at a time, inside a branch of its select loop, and runs  *)
(* a task for every subscriber.                                            *)
(*                                                                         *)
(* An entry is a (path, cmd) pair of a named command.  What the daemon     *)
(* does to monitor one, and the global group, are the subject of           *)
(* MonitorRegistry; here it has the entry or has not.                      *)
(***************************************************************************)
EXTENDS Naturals, Sequences, FiniteSets

CONSTANTS
    Client,       \* runs of the command line, and subscribers
    Entry,        \* entries of the store
    Refused,      \* entries the daemon refuses with a permanent error
    Jobs,         \* what the clients may be about to do
    Stores,       \* what the store may hold at first; the daemon has the same
    Type,         \* event types
    Filter,       \* the types a subscriber asks for
    BufLen,       \* capacity of the broadcast channel
    MaxEvents,    \* bound: events published
    MaxFaults     \* bound: clients killed, requests that fail in the daemon

Torn   == {"torn"}     \* contents of a file that is not JSON
Absent == {"absent"}   \* there is no such file
None   == "none"

Job == [op : {"add", "remove"}, entry : Entry] \cup [op : {"subscribe"}]

ASSUME ControlSocketAssumption ==
    /\ Refused \subseteq Entry /\ {Torn, Absent} \cap SUBSET Entry = {}
    /\ Jobs \subseteq [Client -> Job]
    /\ \A s \in Stores : s \subseteq Entry \ Refused
    /\ Filter \subseteq Type
    /\ BufLen \in Nat \ {0} /\ MaxEvents \in Nat /\ MaxFaults \in Nat

VARIABLES
    job,      \* what each client was started for
    pc,       \* where each client stands
    copy,     \* the store as the client has it in memory
    undo,     \* is the client taking its entry back?
    fd,       \* the name that the temporary file a client has open has now
    store,    \* monitored.jsonl
    tmp,      \* monitored.tmp, or Absent
    daemon,   \* the daemon's entries
    up,       \* the daemon runs
    conn,     \* the client's connection
    acc,      \* the connection that accept_socket_connection reads from
    log,      \* the types of the events published
    task,     \* subscriber_task of each subscriber
    pos,      \* the next event its receiver gets
    got,      \* the lines a subscriber was sent
    left,     \* subscribers that have closed their end
    gauge,    \* the subscribers metric: it counts the tasks that run, and for
              \* ever those whose subscriber left before the first line
    faults,
    \* history
    from,     \* the first event after a subscriber's start
    fresh,    \* the store is as the client loaded it
    meant,    \* what clients meant the store to be
    mixed,    \* two clients had the temporary file open at once
    excused   \* entries about which store and daemon may differ, see below

storeVars  == <<copy, undo, fd, store, tmp, fresh, meant, mixed>>
streamVars == <<log, task, pos, got, left, gauge, from>>
vars == <<job, pc, copy, undo, fd, store, tmp, daemon, up, conn, acc, log, task,
          pos, got, left, gauge, faults, from, fresh, meant, mixed, excused>>

Content == (SUBSET Entry) \cup {Torn}
Over    == {"done", "failed", "killed"}

TypeOK ==
    /\ job \in Jobs
    /\ pc \in [Client -> {"load", "create", "write", "rename", "connect", "send", "wait",
                          "ok", "permanent", "transient"} \cup Over]
    /\ copy \in [Client -> SUBSET Entry] /\ undo \in [Client -> BOOLEAN]
    /\ fd \in [Client -> {None, "tmp", "store"}]
    /\ store \in Content /\ tmp \in Content \cup {Absent}
    /\ daemon \subseteq Entry \ Refused /\ up \in BOOLEAN
    /\ conn \in [Client -> {"none", "open", "sent", "closed"}]
    /\ acc \in Client \cup {None}
    /\ log \in Seq(Type) /\ Len(log) <= MaxEvents
    /\ task \in [Client -> {"none", "greet", "stream", "ended", "leaked"}]
    /\ pos \in [Client -> 1..(MaxEvents + 1)] /\ from \in [Client -> 1..(MaxEvents + 1)]
    /\ got \in [Client -> Seq([event : Nat, dropped : SUBSET Nat])]
    /\ left \subseteq Client
    /\ gauge = Cardinality({c \in Client : task[c] \in {"greet", "stream", "leaked"}})
    /\ faults \in 0..MaxFaults
    /\ fresh \in [Client -> BOOLEAN] /\ meant \subseteq SUBSET Entry
    /\ mixed \in BOOLEAN /\ excused \subseteq Entry

Go(c, l) == pc' = [pc EXCEPT ![c] = l]

(* The clients at work on the entry e. *)
Busy(e) == {c \in Client : job[c].op # "subscribe" /\ job[c].entry = e
                           /\ pc[c] \notin Over \cup {"load"}}

-----------------------------------------------------------------------------
(* fsmon add and fsmon remove: Monitored::load, the change in memory, and  *)
(* Monitored::save.                                                        *)

Changed_Group(c) ==             \* mutation: add starts a new group every time
    LET e == job[c].entry
    IN  IF job[c].op = "add" /\ ~undo[c] THEN {e} ELSE store \ {e}

(* add_entry; remove_entry, of a remove or of an add that was refused.     *)
Changed(c) ==
    LET e == job[c].entry
    IN  IF job[c].op = "add" /\ ~undo[c] THEN store \cup {e} ELSE store \ {e}

(* A store that does not parse ends the command, as does the removal of an *)
(* entry that is not there.                                                *)
Load(c) ==
    /\ pc[c] = "load" /\ job[c].op # "subscribe"
    /\ IF store = Torn \/ (job[c].op = "remove" /\ job[c].entry \notin store)
       THEN Go(c, "failed") /\ UNCHANGED <<copy, fresh, excused>>
       ELSE /\ copy' = [copy EXCEPT ![c] = Changed(c)]
            /\ fresh' = [fresh EXCEPT ![c] = TRUE]
            /\ Go(c, "create")
            /\ excused' = IF Busy(job[c].entry) \ {c} # {} THEN excused \cup {job[c].entry}
                          ELSE excused
    /\ UNCHANGED <<job, undo, fd, store, tmp, meant, mixed, daemon, up, conn, acc, faults, streamVars>>

(* File::create truncates a file that another client is writing. *)
Create(c) ==
    /\ pc[c] = "create"
    /\ tmp' = {}
    /\ fd' = [fd EXCEPT ![c] = "tmp"]
    /\ mixed' = (mixed \/ \E d \in Client \ {c} : pc[d] \in {"write", "rename"})
    /\ meant' = meant \cup {copy[c]}
    /\ Go(c, "write")
    /\ UNCHANGED <<job, copy, undo, store, fresh, daemon, up, conn, acc, faults, excused, streamVars>>

(* What is there after c's lines are written over x from its beginning. *)
Overwritten(x, c) == IF x \in {{}, copy[c]} THEN {copy[c]} ELSE {copy[c], x, Torn}

Write_InPlace(c) ==             \* mutation: the store itself is rewritten
    /\ pc[c] = "write"
    /\ store' = {} /\ tmp' = copy[c]
    /\ Go(c, "rename")
    /\ UNCHANGED <<job, copy, undo, fd, fresh, meant, mixed, daemon, up, conn, acc, faults,
                   excused, streamVars>>

Write(c) ==
    /\ pc[c] = "write"
    /\ tmp' \in IF fd[c] = "tmp" THEN Overwritten(tmp, c) ELSE {tmp}
    /\ store' \in IF fd[c] = "store" THEN Overwritten(store, c) ELSE {store}
    /\ Go(c, "rename")
    /\ UNCHANGED <<job, copy, undo, fd, fresh, meant, mixed, daemon, up, conn, acc, faults,
                   excused, streamVars>>

(* Another client's rename may have taken the file away. *)
Rename(c) ==
    /\ pc[c] = "rename"
    /\ IF tmp = Absent
       THEN Go(c, "failed") /\ UNCHANGED <<fd, store, tmp, fresh, excused>>
       ELSE /\ store' = tmp /\ tmp' = Absent
            /\ fd' = [d \in Client |-> IF d # c /\ fd[d] = "tmp" THEN "store" ELSE None]
            /\ fresh' = [d \in Client |-> FALSE]
            /\ excused' = IF fresh[c] THEN excused ELSE Entry
            /\ Go(c, IF undo[c] THEN "done" ELSE "connect")
    /\ UNCHANGED <<job, copy, undo, meant, mixed, daemon, up, conn, acc, faults, streamVars>>

Kill(c) ==
    /\ pc[c] \notin Over /\ job[c].op # "subscribe" /\ faults < MaxFaults
    /\ faults' = faults + 1
    /\ Go(c, "killed")
    /\ excused' = excused \cup {job[c].entry}
    /\ conn' = [conn EXCEPT ![c] = IF @ = "open" THEN "closed" ELSE @]
    /\ UNCHANGED <<job, daemon, up, acc, storeVars, streamVars>>

-----------------------------------------------------------------------------
(* send_cmd: connect, write the command and close this direction, read to  *)
(* the end of the connection.                                              *)

Connect(c) ==
    /\ pc[c] = "connect" \/ (pc[c] = "load" /\ job[c].op = "subscribe")
    /\ Go(c, IF up THEN "send" ELSE "transient")
    /\ conn' = IF up THEN [conn EXCEPT ![c] = "open"] ELSE conn
    /\ UNCHANGED <<job, daemon, up, acc, faults, excused, storeVars, streamVars>>

Send(c) ==
    /\ pc[c] = "send"
    /\ IF conn[c] = "open" THEN Go(c, "wait") /\ conn' = [conn EXCEPT ![c] = "sent"]
                           ELSE Go(c, "transient") /\ UNCHANGED conn
    /\ UNCHANGED <<job, daemon, up, acc, faults, excused, storeVars, streamVars>>

(* Nothing came before the end. *)
NoAnswer(c) ==
    /\ pc[c] = "wait" /\ conn[c] = "closed"
    /\ Go(c, "transient")
    /\ UNCHANGED <<job, daemon, up, conn, acc, faults, excused, storeVars, streamVars>>

(* "Entry added" is printed on a transient error too. *)
Report(c) ==
    /\ pc[c] \in {"ok", "transient"}
    /\ Go(c, "done")
    /\ excused' = IF pc[c] = "transient" /\ job[c].op # "subscribe"
                  THEN excused \cup {job[c].entry} ELSE excused
    /\ UNCHANGED <<job, daemon, up, conn, acc, faults, storeVars, streamVars>>

TakeBack_Skip(c) ==             \* mutation: the error is only printed
    /\ pc[c] = "permanent"
    /\ Go(c, "done") /\ UNCHANGED undo
    /\ UNCHANGED <<job, copy, fd, store, tmp, fresh, meant, mixed, daemon, up, conn, acc, faults,
                   excused, streamVars>>

TakeBack(c) ==
    /\ pc[c] = "permanent"
    /\ IF job[c].op = "add" THEN Go(c, "load") /\ undo' = [undo EXCEPT ![c] = TRUE]
                            ELSE Go(c, "done") /\ UNCHANGED undo
    /\ UNCHANGED <<job, copy, fd, store, tmp, fresh, meant, mixed, daemon, up, conn, acc, faults,
                   excused, streamVars>>

-----------------------------------------------------------------------------
(* The daemon's accept branch.                                             *)

(* accept_socket_connection has a connection and waits for its command. *)
Accept(c) ==
    /\ up /\ acc = None /\ conn[c] = "open"
    /\ acc' = c
    /\ UNCHANGED <<job, pc, daemon, up, conn, faults, excused, storeVars, streamVars>>

Cancel_Keep ==                  \* mutation: the connection is forgotten, not closed
    /\ acc # None /\ conn[acc] \in {"open", "sent"}
    /\ acc' = None
    /\ conn' = [conn EXCEPT ![acc] = "none"]
    /\ UNCHANGED <<job, pc, daemon, up, faults, excused, storeVars, streamVars>>

(* Another branch of the select completes first, or is looked at first:    *)
(* the future is dropped, and the connection with it.                      *)
Cancel ==
    /\ acc # None /\ conn[acc] \in {"open", "sent"}
    /\ acc' = None
    /\ conn' = [conn EXCEPT ![acc] = "closed"]
    /\ UNCHANGED <<job, pc, daemon, up, faults, excused, storeVars, streamVars>>

(* The connection of a client that was killed ends without a command. *)
DropClosed ==
    /\ acc # None /\ conn[acc] = "closed"
    /\ acc' = None
    /\ UNCHANGED <<job, pc, daemon, up, conn, faults, excused, storeVars, streamVars>>

Answer(c, l) == pc' = [pc EXCEPT ![c] = IF @ = "wait" THEN l ELSE @]

(* handle_socket_accept and handle_socket_cmd; a command that is there     *)
(* when its connection is accepted is read at once.                        *)
Handle(c) ==
    /\ up /\ acc \in {c, None} /\ conn[c] = "sent" /\ job[c].op # "subscribe"
    /\ \/ /\ job[c].op = "add" /\ job[c].entry \notin Refused
          /\ daemon' = daemon \cup {job[c].entry}
          /\ Answer(c, "ok") /\ UNCHANGED faults
       \/ /\ job[c].op = "remove"
          /\ daemon' = daemon \ {job[c].entry}
          /\ Answer(c, IF job[c].entry \in daemon THEN "ok" ELSE "transient")
          /\ UNCHANGED faults
       \/ /\ job[c].op = "add" /\ job[c].entry \in Refused
          /\ Answer(c, "permanent") /\ UNCHANGED <<daemon, faults>>
       \/ /\ job[c].op = "add" /\ faults < MaxFaults /\ faults' = faults + 1
          /\ daemon' = daemon \ {job[c].entry} /\ Answer(c, "transient")
    /\ acc' = None
    /\ conn' = [conn EXCEPT ![c] = "closed"]
    /\ UNCHANGED <<job, up, excused, storeVars, streamVars>>

(* handle_subscribe *)
Subscribe(c) ==
    /\ up /\ acc \in {c, None} /\ conn[c] = "sent" /\ job[c].op = "subscribe"
    /\ gauge' = gauge + 1
    /\ task' = [task EXCEPT ![c] = "greet"]
    /\ pos' = [pos EXCEPT ![c] = Len(log) + 1] /\ from' = [from EXCEPT ![c] = Len(log) + 1]
    /\ Answer(c, "ok")
    /\ acc' = None
    /\ conn' = [conn EXCEPT ![c] = "closed"]
    /\ UNCHANGED <<job, daemon, up, faults, excused, log, got, left, storeVars>>

(* The process ends: every connection and every task with it. *)
Stop ==
    /\ up /\ up' = FALSE
    /\ acc' = None
    /\ conn' = [c \in Client |-> IF conn[c] \in {"open", "sent"} THEN "closed" ELSE conn[c]]
    /\ task' = [c \in Client |-> IF task[c] \in {"greet", "stream"} THEN "ended" ELSE task[c]]
    /\ gauge' = Cardinality({c \in Client : task[c] = "leaked"})
    /\ UNCHANGED <<job, pc, daemon, faults, excused, log, pos, got, left, from, storeVars>>

-----------------------------------------------------------------------------
(* Subscribers.                                                            *)

(* Nothing is kept of an event that is sent while nobody receives. *)
Publish(t) ==
    /\ up /\ Len(log) < MaxEvents
    /\ \E c \in Client : task[c] \in {"greet", "stream"}
    /\ log' = Append(log, t)
    /\ UNCHANGED <<job, pc, daemon, up, conn, acc, faults, excused, task, pos, got, left, gauge,
                   from, storeVars>>

Leave(c) ==
    /\ task[c] \in {"greet", "stream"} /\ c \notin left
    /\ left' = left \cup {c}
    /\ UNCHANGED <<job, pc, daemon, up, conn, acc, faults, excused, log, task, pos, got, gauge,
                   from, storeVars>>

(* The first line; a subscriber that is gone by now is not counted out. *)
Greet(c) ==
    /\ task[c] = "greet"
    /\ task' = [task EXCEPT ![c] = IF c \in left THEN "leaked" ELSE "stream"]
    /\ UNCHANGED <<job, pc, daemon, up, conn, acc, faults, excused, log, pos, got, left, gauge,
                   from, storeVars>>

Oldest == IF Len(log) > BufLen THEN Len(log) - BufLen + 1 ELSE 1

Line(c, e, n) == got' = IF c \in left THEN got ELSE
                        [got EXCEPT ![c] = Append(@, [event |-> e, dropped |-> n])]

Lagged_Restart(c) ==            \* mutation: the receiver subscribes again
    /\ task[c] = "stream" /\ pos[c] < Oldest
    /\ Line(c, 0, pos[c]..(Oldest - 1))
    /\ pos' = [pos EXCEPT ![c] = Len(log) + 1]
    /\ UNCHANGED <<job, pc, daemon, up, conn, acc, faults, excused, log, task, left, gauge, from,
                   storeVars>>

(* Events were overwritten before the task came to them: it sends a        *)
(* warning, ignores whether that works, and goes on with the oldest.       *)
Lagged(c) ==
    /\ task[c] = "stream" /\ pos[c] < Oldest
    /\ Line(c, 0, pos[c]..(Oldest - 1))
    /\ pos' = [pos EXCEPT ![c] = Oldest]
    /\ UNCHANGED <<job, pc, daemon, up, conn, acc, faults, excused, log, task, left, gauge, from,
                   storeVars>>

Recv_NoDec(c) ==                \* mutation: the gauge is not decremented
    /\ task[c] = "stream" /\ pos[c] \in Oldest..Len(log)
    /\ IF log[pos[c]] \in Filter
       THEN /\ Line(c, pos[c], {})
            /\ task' = IF c \in left THEN [task EXCEPT ![c] = "ended"] ELSE task
       ELSE UNCHANGED <<got, task>>
    /\ pos' = [pos EXCEPT ![c] = @ + 1]
    /\ UNCHANGED <<job, pc, daemon, up, conn, acc, faults, excused, log, left, gauge, from, storeVars>>

(* An event of another type is passed over; a write that fails ends it. *)
Recv(c) ==
    /\ task[c] = "stream" /\ pos[c] \in Oldest..Len(log)
    /\ IF log[pos[c]] \in Filter
       THEN /\ Line(c, pos[c], {})
            /\ task' = IF c \in left THEN [task EXCEPT ![c] = "ended"] ELSE task
            /\ gauge' = IF c \in left THEN gauge - 1 ELSE gauge
       ELSE UNCHANGED <<got, task, gauge>>
    /\ pos' = [pos EXCEPT ![c] = @ + 1]
    /\ UNCHANGED <<job, pc, daemon, up, conn, acc, faults, excused, log, left, from, storeVars>>

-----------------------------------------------------------------------------
Init ==
    /\ job \in Jobs
    /\ pc = [c \in Client |-> "load"]
    /\ copy = [c \in Client |-> {}] /\ undo = [c \in Client |-> FALSE]
    /\ fd = [c \in Client |-> None]
    /\ store \in Stores /\ tmp = Absent
    /\ daemon = store /\ up = TRUE
    /\ conn = [c \in Client |-> "none"] /\ acc = None
    /\ log = <<>> /\ task = [c \in Client |-> "none"]
    /\ pos = [c \in Client |-> 1] /\ from = [c \in Client |-> 1]
    /\ got = [c \in Client |-> <<>>] /\ left = {} /\ gauge = 0
    /\ faults = 0
    /\ fresh = [c \in Client |-> FALSE] /\ meant = {store} /\ mixed = FALSE /\ excused = {}

ClientStep(c) ==
    \/ Load(c) \/ Create(c) \/ Write(c) \/ Rename(c)
    \/ Connect(c) \/ Send(c) \/ NoAnswer(c) \/ Report(c) \/ TakeBack(c)

ServerStep == DropClosed \/ \E c \in Client : Accept(c) \/ Handle(c) \/ Subscribe(c)

TaskStep(c) == Greet(c) \/ Lagged(c) \/ Recv(c)

Next ==
    \/ \E c \in Client : ClientStep(c) \/ Kill(c) \/ Leave(c) \/ TaskStep(c)
    \/ ServerStep \/ Cancel \/ Stop
    \/ \E t \in Type : Publish(t)

(* Processes and tasks are scheduled, and the main loop polls its accept   *)
(* branch whenever a connection is ready; nothing is assumed of the events *)
(* that cancel it.                                                         *)
Fairness == WF_vars(ServerStep) /\ \A c \in Client : WF_vars(ClientStep(c))

Spec == Init /\ [][Next]_vars /\ Fairness

-----------------------------------------------------------------------------
(* Properties.                                                             *)

(* Monitored::save "uses atomic write (temp file + rename) to prevent      *)
(* corruption on crash/kill": at every moment, whoever is killed, the      *)
(* store holds what it held at first or a whole version that some client   *)
(* meant to save, as long as no two clients use the one temporary file at  *)
(* the same time.                                                          *)
StoreWhole == mixed \/ store \in meant

(* An entry leaves the store only by a client that was asked to remove it, *)
(* by the one that added it and was refused, or because a client saved     *)
(* what it had loaded before another one's save.                           *)
EntryKept ==
    [][ \A e \in Entry :
          ~mixed' /\ e \in store /\ e \notin store' =>
            \E c \in Client : /\ Rename(c)
                              /\ \/ ~fresh[c]
                                 \/ job[c].entry = e /\ (job[c].op = "remove" \/ undo[c]) ]_vars

(* What the clients leave behind agrees: when all have ended, the store    *)
(* and the daemon have the same entries, those that the daemon refused in  *)
(* neither.  (`fsmon remove CMD' without --path is not among these         *)
(* commands: it saves the store and tells the daemon nothing.)             *)
(* The only exceptions are entries whose command was not                   *)
(* answered, failed in the daemon or was killed half-way, entries two      *)
(* commands were about at the same time (the later one to save may be the  *)
(* earlier one to be heard), and everything once a client has saved a      *)
(* stale copy or written into another one's temporary file.                *)
StoreMatchesDaemon ==
    ~mixed /\ (\A c \in Client : pc[c] \in Over \cup {"load"} /\ (pc[c] = "load" => ~undo[c]))
      => \A e \in Entry \ excused : e \in store <=> e \in daemon

(* Every command ends: a connection that the select loop drops is closed,  *)
(* so send_cmd, which reads to the end of the connection with no timeout,  *)
(* always returns.                                                         *)
CommandEnds == \A c \in Client : pc[c] # "load" ~> pc[c] \in Over

(* A subscriber misses nothing silently: of the events since its start,    *)
(* those it asked for were sent to it once and in order, or a warning was  *)
(* sent for them, never both.                                              *)
NoSilentLoss ==
    \A c \in Client \ left :
      LET sent   == {i \in DOMAIN got[c] : got[c][i].event # 0}
          events == {got[c][i].event : i \in sent}
          warned == UNION {got[c][i].dropped : i \in DOMAIN got[c]}
      IN  /\ \A i, j \in sent : i < j => got[c][i].event < got[c][j].event
          /\ events \cap warned = {}
          /\ {k \in from[c]..(pos[c] - 1) : log[k] \in Filter} \ warned = events
=============================================================================
