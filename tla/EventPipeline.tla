--------------------------- MODULE EventPipeline ---------------------------
(***************************************************************************)
(* The way of a file event through the daemon: a reader task takes a batch *)
(* from its fanotify group and sends it over the event channel; the main   *)
(* loop matches each event with the registrations, attributes it to a      *)
(* process with the tracker that the process connector feeds, and          *)
(* publishes it on the stream (src/common/monitor.rs, monitor/events.rs,   *)
(* monitor/reader.rs, monitor/filtering.rs, common/proc_cache.rs).         *)
(*                                                                         *)
(* Every group has one root, registered for the global cmd and for one     *)
(* cmd; a root is pending between its deletion and its recreation.  The    *)
(* kernel reports a fork before the child runs.  Process ids are not       *)
(* reused.  Event types, sizes and depths are left out: the filters let    *)
(* everything through.                                                     *)
(*                                                                         *)
(* `windowed', `atSignal' and `stranded' only record what happened.        *)
(***************************************************************************)
EXTENDS Naturals, Sequences, FiniteSets, SequencesExt

CONSTANTS
    Proc,        \* processes
    Boot,        \* those that run when the daemon starts ...
    BootNamed,   \* ... and those of them whose name is the cmd
    Group,       \* fanotify groups
    ChanCap,     \* channel_capacity
    ConnCap,     \* messages the connector's socket holds
    MaxEvents    \* bound: file events

ASSUME PipelineAssumption ==
    /\ Boot \subseteq Proc /\ BootNamed \subseteq Boot
    /\ ChanCap \in Nat \ {0} /\ ConnCap \in Nat \ {0} /\ MaxEvents \in Nat

VARIABLES
    running,   \* the processes that run
    line,      \* each process that ever ran, with its ancestors
    named,     \* the processes whose name is the cmd
    conn,      \* messages in the connector's socket
    overrun,   \* has a message been lost?
    tline,     \* the tracker's processes, with their ancestors
    tdead,     \* the tracker's exited processes
    tnamed,    \* the tracker's processes with the cmd as comm
    ev,        \* the file events so far
    kq,        \* events in each group's kernel queue
    ready,     \* is the group's descriptor taken to be readable?
    hand,      \* the batch each reader is sending
    stranded,  \* groups taken not to be readable with events in their queue
    chan,      \* the event channel
    root,      \* is each group's root monitored or pending?
    pc,        \* where the main loop stands
    stopping,  \* drain_remaining_events
    batch,     \* what is left of the batch
    pend,      \* pending events of the batch
    stream,    \* the events published
    windowed,  \* events processed while their root was pending
    atSignal   \* events in the channel when the signal was taken

procVars  == <<running, line, named>>
trackVars == <<tline, tdead, tnamed>>
readVars  == <<kq, ready, hand, stranded>>
mainVars  == <<pc, stopping, batch, pend, stream, windowed, atSignal>>
vars == <<running, line, named, conn, overrun, tline, tdead, tnamed, ev, kq,
          ready, hand, stranded, chan, root, pc, stopping, batch, pend, stream,
          windowed, atSignal>>

Event  == 1..MaxEvents
Kind   == {"file", "rename", "rootGone", "skip", "unplaced"}
Entry  == {"_global", "cmd"}
Message == [is : {"spawn", "comm", "exit"}, proc : Proc, from : Proc]
Record == [id : Event, side : {"at", "from", "to"}, entry : Entry, known : BOOLEAN]

TypeOK ==
    /\ running \subseteq Proc /\ named \subseteq Proc /\ tdead \subseteq Proc
    /\ tnamed \subseteq Proc
    /\ line \in [Proc -> SUBSET Proc] /\ tline \in [Proc -> SUBSET Proc]
    /\ conn \in Seq(Message) /\ Len(conn) <= ConnCap /\ overrun \in BOOLEAN
    /\ ev \in Seq([group : Group, by : Proc, kind : Kind, of : SUBSET Proc])
    /\ kq \in [Group -> Seq(Event)] /\ hand \in [Group -> Seq(Event)]
    /\ ready \in [Group -> BOOLEAN] /\ stranded \subseteq Group
    /\ chan \in Seq(Seq(Event)) /\ Len(chan) <= ChanCap
    /\ root \in [Group -> {"monitored", "pending"}]
    /\ pc \in {"select", "process", "stopped"} /\ stopping \in BOOLEAN
    /\ batch \in Seq(Event)
    /\ pend \in Seq(Record) /\ stream \in Seq(Record)
    /\ windowed \subseteq Event /\ atSignal \subseteq Event

(* init_tracker: the tracker starts from a scan of /proc. *)
Init ==
    /\ running = Boot /\ named = BootNamed
    /\ line = [p \in Proc |-> IF p \in Boot THEN {p} ELSE {}]
    /\ conn = <<>> /\ overrun = FALSE
    /\ tline = line /\ tdead = {} /\ tnamed = BootNamed
    /\ ev = <<>>
    /\ kq = [g \in Group |-> <<>>] /\ hand = [g \in Group |-> <<>>]
    /\ ready = [g \in Group |-> FALSE] /\ stranded = {}
    /\ chan = <<>>
    /\ root = [g \in Group |-> "monitored"]
    /\ pc = "select" /\ stopping = FALSE
    /\ batch = <<>> /\ pend = <<>> /\ stream = <<>>
    /\ windowed = {} /\ atSignal = {}

-----------------------------------------------------------------------------
(* Processes and the kernel.                                               *)

Notify(m) ==
    IF Len(conn) < ConnCap THEN conn' = Append(conn, m) /\ UNCHANGED overrun
                           ELSE overrun' = TRUE /\ UNCHANGED conn

Fork(q, p) ==
    /\ pc # "stopped"
    /\ q \in running /\ line[p] = {}
    /\ running' = running \cup {p}
    /\ line' = [line EXCEPT ![p] = line[q] \cup {p}]
    /\ Notify([is |-> "spawn", proc |-> p, from |-> q])
    /\ UNCHANGED <<named, trackVars, ev, readVars, chan, root, mainVars>>

SetName(p) ==
    /\ pc # "stopped"
    /\ p \in running \ named
    /\ named' = named \cup {p}
    /\ Notify([is |-> "comm", proc |-> p, from |-> p])
    /\ UNCHANGED <<running, line, trackVars, ev, readVars, chan, root, mainVars>>

Exit(p) ==
    /\ pc # "stopped"
    /\ p \in running
    /\ running' = running \ {p}
    /\ Notify([is |-> "exit", proc |-> p, from |-> p])
    /\ UNCHANGED <<line, named, trackVars, ev, readVars, chan, root, mainVars>>

(* A process causes an event.  `of' are its running ancestors, itself      *)
(* included, whose name is the cmd.  The handle of an "unplaced" event's   *)
(* directory will not be in the cache when the event is decoded; nothing   *)
(* looks at that before.                                                   *)
Emit(p, g, kind) ==
    /\ pc # "stopped"
    /\ p \in running /\ Len(ev) < MaxEvents
    /\ ev' = Append(ev, [group |-> g, by |-> p, kind |-> kind,
                         of |-> line[p] \cap running \cap named])
    /\ kq' = [kq EXCEPT ![g] = Append(@, Len(ev) + 1)]
    /\ ready' = [ready EXCEPT ![g] = TRUE] /\ stranded' = stranded \ {g}
    /\ UNCHANGED <<procVars, conn, overrun, trackVars, hand, chan, root, mainVars>>

-----------------------------------------------------------------------------
(* A reader task.                                                          *)

AfterRead_Clear(g, r) == ready' = [ready EXCEPT ![g] = FALSE]   \* mutation

(* retain_ready after events r, clear_ready when there are none: readiness *)
(* is reported once, when an event arrives.                                *)
AfterRead(g, r) == ready' = [ready EXCEPT ![g] = (r # <<>>)]

Strand(g, r) ==
    stranded' = IF r = <<>> /\ kq'[g] # <<>> THEN stranded \cup {g} ELSE stranded \ {g}

(* decode_events: an event without a path is dropped. *)
Decoded(s) ==
    LET upTo[n \in 0..Len(s)] ==
          IF n = 0 THEN <<>>
          ELSE IF ev[s[n]].kind = "unplaced" THEN upTo[n - 1]
          ELSE Append(upTo[n - 1], s[n])
    IN  upTo[Len(s)]

(* One read takes as many events as its buffer holds; what counts          *)
(* afterwards is how many of them could be decoded.                        *)
ReadEvents(g) ==
    /\ pc # "stopped"
    /\ hand[g] = <<>> /\ ready[g]
    /\ \E n \in 0..Len(kq[g]) :
         LET read == Decoded(SubSeq(kq[g], 1, n))
         IN  /\ n = 0 => kq[g] = <<>>
             /\ hand' = [hand EXCEPT ![g] = read]
             /\ kq' = [kq EXCEPT ![g] = SubSeq(@, n + 1, Len(@))]
             /\ AfterRead(g, read) /\ Strand(g, read)
    /\ UNCHANGED <<procVars, conn, overrun, trackVars, ev, chan, root, mainVars>>

(* The descriptor cannot be duplicated, or the read fails: no events. *)
ReadFails(g) ==
    /\ pc # "stopped"
    /\ hand[g] = <<>> /\ ready[g]
    /\ UNCHANGED <<kq, hand>>
    /\ AfterRead(g, <<>>) /\ Strand(g, <<>>)
    /\ UNCHANGED <<procVars, conn, overrun, trackVars, ev, chan, root, mainVars>>

SendBatch_Try(g) ==             \* mutation: try_send, the error is ignored
    /\ hand[g] # <<>> /\ pc # "stopped"
    /\ chan' = IF Len(chan) < ChanCap THEN Append(chan, hand[g]) ELSE chan
    /\ hand' = [hand EXCEPT ![g] = <<>>]

SendBatch_Again(g) ==           \* mutation: sent batches are sent again
    /\ hand[g] # <<>> /\ Len(chan) < ChanCap /\ pc # "stopped"
    /\ chan' = Append(chan, hand[g])
    /\ UNCHANGED hand

SendBatch_Over(g) ==            \* mutation: one batch too many
    /\ hand[g] # <<>> /\ Len(chan) <= ChanCap /\ pc # "stopped"
    /\ chan' = Append(chan, hand[g])
    /\ hand' = [hand EXCEPT ![g] = <<>>]

(* tx.send waits for room in the channel. *)
SendBatch(g) ==
    /\ hand[g] # <<>> /\ Len(chan) < ChanCap /\ pc # "stopped"
    /\ chan' = Append(chan, hand[g])
    /\ hand' = [hand EXCEPT ![g] = <<>>]

ReaderSends(g) ==
    /\ SendBatch(g)
    /\ UNCHANGED <<procVars, conn, overrun, trackVars, ev, kq, ready, stranded, root,
                   mainVars>>

-----------------------------------------------------------------------------
(* The process tracker.                                                    *)

(* apply_events: a spawn attaches the child to what is known of its parent. *)
Attach(t, m) ==
    IF m.is = "spawn" THEN [t EXCEPT ![m.proc] = t[m.from] \cup {m.proc}] ELSE t

AttachAll(t, s) ==
    LET upTo[n \in 0..Len(s)] == IF n = 0 THEN t ELSE Attach(upTo[n - 1], s[n])
    IN  upTo[Len(s)]

Applied == AttachAll(tline, conn)

Of(kind) == {m.proc : m \in {x \in Range(conn) : x.is = kind}}

Enriched_Early ==               \* mutation: before the lifecycle events
    {p \in Of("comm") : tline[p] # {}}

(* A comm attaches to a process the tracker knows, after the lifecycle     *)
(* events of the same buffer.                                              *)
Enriched == {p \in Of("comm") : Applied[p] # {}}

(* drain_proc_conn: everything the socket holds. *)
DrainConn ==
    /\ tline' = Applied
    /\ tdead' = tdead \cup Of("exit")
    /\ tnamed' = tnamed \cup Enriched
    /\ conn' = <<>>

(* view.current: the processes that have not exited. *)
Current == {p \in Proc : tline[p] # {}} \ tdead

(* matches_process_tree. *)
MatchesTree(entry, p) ==
    entry = "cmd" => /\ p \in Current
                     /\ tline[p] \cap (tnamed \ tdead) # {}

-----------------------------------------------------------------------------
(* The main loop.                                                          *)

ProcReadable ==
    /\ pc = "select" /\ ~stopping /\ conn # <<>>
    /\ DrainConn
    /\ UNCHANGED <<procVars, overrun, ev, readVars, chan, root, mainVars>>

RecvBatch_NoDrain ==            \* mutation: no drain before the batch
    /\ pc = "select" /\ chan # <<>>
    /\ batch' = Head(chan) /\ chan' = Tail(chan)
    /\ pc' = "process"
    /\ UNCHANGED <<procVars, conn, trackVars, overrun, ev, readVars, root, stopping, pend,
                   stream, windowed, atSignal>>

(* event_rx.recv, or try_recv when stopping; then the first drain. *)
RecvBatch ==
    /\ pc = "select" /\ chan # <<>>
    /\ batch' = Head(chan) /\ chan' = Tail(chan)
    /\ DrainConn
    /\ pc' = "process"
    /\ UNCHANGED <<procVars, overrun, ev, readVars, root, stopping, pend, stream,
                   windowed, atSignal>>

(* expand_renames; the skipped kinds are a queue overflow, the daemon's    *)
(* own events, those in its log directory, and a rename without a path.    *)
(* A rename with one path is like any other event.                         *)
Halves(kind) ==
    CASE kind = "rename" -> <<"from", "to">>
      [] kind = "skip"   -> <<>>
      [] OTHER           -> <<"at">>

(* is_path_in_scope_for_opts, which looks at the monitored entries only:   *)
(* what matching_opts_for_event found among the pending ones is dropped.   *)
InScope(g) == root[g] = "monitored"

(* The registrations that match: the global one has no cmd to compare. *)
Entries(x) ==
    IF ~InScope(x.group) THEN <<>>
    ELSE IF MatchesTree("cmd", x.by) THEN <<"_global", "cmd">> ELSE <<"_global">>

(* One record for each half and each matching registration. *)
Records(e) ==
    LET x == ev[e]
        h == Halves(x.kind)
        For(side) == [i \in 1..Len(Entries(x)) |->
                        [id |-> e, side |-> side, entry |-> Entries(x)[i],
                         known |-> x.by \in Current]]
    IN  CASE Len(h) = 0 -> <<>>
          [] Len(h) = 1 -> For(h[1])
          [] Len(h) = 2 -> For(h[1]) \o For(h[2])

(* process_event_batch, for one event.  A root that was deleted or moved   *)
(* away is recorded and then pending, unless it exists again already.      *)
ProcessEvent ==
    /\ pc = "process" /\ batch # <<>>
    /\ LET e == Head(batch)
           g == ev[e].group
       IN  /\ pend' = pend \o Records(e)
           /\ windowed' = IF InScope(g) \/ ev[e].kind = "skip" THEN windowed
                                                               ELSE windowed \cup {e}
           /\ \/ ev[e].kind = "rootGone" /\ root' = [root EXCEPT ![g] = "pending"]
              \/ UNCHANGED root
    /\ batch' = Tail(batch)
    /\ UNCHANGED <<procVars, conn, overrun, trackVars, ev, readVars, chan, pc, stopping,
                   stream, atSignal>>

(* patch_pending_events. *)
Patched(r) == [r EXCEPT !.known = @ \/ ev[r.id].by \in Current']

(* The second drain, the patch, send_pending_events and check_pending.     *)
(* drain_remaining_events has neither the drain nor check_pending.         *)
Publish ==
    /\ pc = "process" /\ batch = <<>>
    /\ IF stopping THEN UNCHANGED <<conn, trackVars, root>>
       ELSE /\ DrainConn
            /\ \E back \in SUBSET Group :
                 root' = [g \in Group |-> IF g \in back THEN "monitored" ELSE root[g]]
    /\ UNCHANGED <<procVars, overrun, ev, readVars, chan, stopping, batch, windowed,
                   atSignal>>
    /\ stream' = stream \o [i \in 1..Len(pend) |-> Patched(pend[i])]
    /\ pend' = <<>>
    /\ pc' = "select"

(* A recreated root is noticed by inotify. *)
Remonitor(g) ==
    /\ pc = "select" /\ ~stopping /\ root[g] = "pending"
    /\ root' = [root EXCEPT ![g] = "monitored"]
    /\ UNCHANGED <<procVars, conn, overrun, trackVars, ev, readVars, chan, mainVars>>

(* SIGTERM or SIGINT. *)
Signal ==
    /\ pc = "select" /\ ~stopping
    /\ stopping' = TRUE
    /\ atSignal' = UNION {Range(chan[i]) : i \in DOMAIN chan}
    /\ UNCHANGED <<procVars, conn, overrun, trackVars, ev, readVars, chan, root, pc,
                   batch, pend, stream, windowed>>

Drained == chan = <<>>

Stop ==
    /\ pc = "select" /\ stopping /\ Drained
    /\ pc' = "stopped"
    /\ UNCHANGED <<procVars, conn, overrun, trackVars, ev, readVars, chan, root, stopping,
                   batch, pend, stream, windowed, atSignal>>

-----------------------------------------------------------------------------
ReaderStep(g) == ReadEvents(g) \/ ReadFails(g) \/ ReaderSends(g)
MainStep == RecvBatch \/ ProcessEvent \/ Publish \/ Stop

Next ==
    \/ MainStep \/ ProcReadable \/ Signal
    \/ \E g \in Group : ReaderStep(g) \/ Remonitor(g)
    \/ \E p, q \in Proc : Fork(q, p)
    \/ \E p \in Proc : SetName(p) \/ Exit(p)
    \/ \E p \in Proc, g \in Group, kind \in Kind : Emit(p, g, kind)

(* The tasks are scheduled; the main loop's select takes the channel's     *)
(* branch again and again.                                                 *)
Fairness == WF_vars(MainStep) /\ \A g \in Group : WF_vars(ReaderStep(g))

Spec == Init /\ [][Next]_vars /\ Fairness

-----------------------------------------------------------------------------
InFlight(e) ==
    \/ \E g \in Group : e \in Range(kq[g]) \cup Range(hand[g])
    \/ \E i \in DOMAIN chan : e \in Range(chan[i])
    \/ e \in Range(batch)

Recorded(e, side, entry) ==
    \E r \in Range(pend \o stream) : r.id = e /\ r.side = side /\ r.entry = entry

Sides(e) == CASE ev[e].kind = "rename" -> {"from", "to"}
              [] ev[e].kind \in {"skip", "unplaced"} -> {}
              [] OTHER                 -> {"at"}

Processed == {e \in DOMAIN ev : ~InFlight(e)}

(* No event is missed between the decoder and the stream (README: file     *)
(* events are never missed): each that could be decoded is recorded for    *)
(* the global cmd, a rename twice, with whatever readers block on the      *)
(* channel and however a read fails; except while its root is gone.        *)
NoneMissed ==
    \A e \in Processed \ windowed : \A s \in Sides(e) : Recorded(e, s, "_global")

(* The stream has the events of one group in the order of the kernel and   *)
(* each of them once per entry, the old name of a rename first.            *)
OnceInOrder ==
    \A j \in DOMAIN stream : \A i \in 1..(j - 1) :
      LET a == stream[i]  b == stream[j]
      IN  a.entry = b.entry /\ ev[a.id].group = ev[b.id].group =>
            a.id < b.id \/ (a.id = b.id /\ a.side = "from" /\ b.side = "to")

(* help.rs: the fork and exec children of a cmd are included.  An event    *)
(* that could be decoded is recorded for the cmd when its process descends *)
(* from a process of that name, nobody on the line between them has        *)
(* exited, and no message was lost, even when the fork and the naming      *)
(* happened just before the event.                                         *)
ChildrenIncluded ==
    \A e \in Processed \ windowed :
      /\ ~overrun
      /\ \E a \in ev[e].of : {x \in line[ev[e].by] : a \in line[x]} \subseteq running
      => \A s \in Sides(e) : Recorded(e, s, "cmd")

(* events.rs, patch_pending_events: what the first drain did not know of a *)
(* process is filled in after the second.  An event is published with its  *)
(* topology if its process still runs by then, also during the shutdown,   *)
(* which drains the connector once per batch.  Of a process whose exit was *)
(* drained before, lookups find nothing, and it may be published without.  *)
TopologyKnown ==
    \A i \in DOMAIN stream :
      ~overrun /\ ev[stream[i].id].by \in running => stream[i].known

(* Every event gets to the end of the pipeline.  reader.rs: readiness is   *)
(* reported once per arrival; what did not fit into a read that yields     *)
(* events is read without waiting for another arrival, and only a read     *)
(* that yields none strands the rest of its queue.  monitor.rs,            *)
(* drain_remaining_events: a stop may leave events behind, but none that   *)
(* was in the channel when the signal came.                                *)
EventsDelivered ==
    \A e \in Event :
      (e \in DOMAIN ev /\ InFlight(e))
        ~> \/ ~InFlight(e)
           \/ \E g \in stranded : e \in Range(kq[g])
           \/ pc = "stopped" /\ e \notin atSignal
=============================================================================
