----------------------------- MODULE LogWriter -----------------------------
(***************************************************************************)
(* The daemon's file writer (src/common/monitor/file_writer.rs): a task    *)
(* that takes events off the broadcast stream and appends each to the log  *)
(* of its cmd, through a cache of buffered handles, an in-memory buffer    *)
(* for events whose log could not be opened, and a timer that flushes.     *)
(* Meanwhile users delete logs, fsmon clean rewrites them (src/common/     *)
(* clean/core.rs), and opening or writing fails.                           *)
(*                                                                         *)
(* An event is its number on the stream.  A log is a sequence of events.   *)
(* The task's own steps are ordered by `pc'; the others interleave.        *)
(* `lost' and `retried' only record what happened; no action reads them.   *)
(***************************************************************************)
EXTENDS Naturals, Sequences, FiniteSets, Functions

CONSTANTS
    Log,         \* the log files, one per cmd
    MaxEvents,   \* bound: events on the stream
    ChanCap,     \* subscribe_buf: events the broadcast channel holds
    DiskBufCap,  \* events disk_buf holds (10 000)
    MaxHandles,  \* MAX_OPEN_HANDLES
    BufLines,    \* lines a BufWriter holds
    RetryAfter,  \* ticks before a retry (10 s)
    MaxCleans    \* bound: runs of fsmon clean

ASSUME WriterAssumption ==
    /\ {MaxEvents, RetryAfter, MaxCleans} \subseteq Nat
    /\ {ChanCap, DiskBufCap, MaxHandles, BufLines} \subseteq Nat \ {0}

VARIABLES
    logOf,    \* the log of each event sent so far
    queue,    \* events in the channel, not yet received
    closed,   \* has the sender been dropped?
    pc,       \* where the task stands
    cur,      \* the event being written; 0: none
    todo,     \* flush_disk_buf: what is left of the old disk_buf
    kept,     \* flush_disk_buf: remaining
    diskBuf,  \* disk_buf
    healthy,  \* disk_healthy
    since,    \* ticks since last_disk_check, up to RetryAfter
    dirty,    \* dirty_logs
    open,     \* the logs with a cached handle
    linked,   \* the open logs whose handle is still the file of that name
    buf,      \* the lines in each handle's BufWriter
    file,     \* the lines of each log file
    snap,     \* what a running fsmon clean will rename over each log
    cleans,   \* runs of fsmon clean
    lost,     \* events that will never be in a log
    retried   \* events that went through disk_buf

chanVars == <<logOf, queue, closed>>
bufVars  == <<diskBuf, healthy, since>>
outVars  == <<dirty, open, linked, buf, file>>
cleanVars == <<snap, cleans>>
vars == <<logOf, queue, closed, pc, cur, todo, kept, diskBuf, healthy, since,
          dirty, open, linked, buf, file, snap, cleans, lost, retried>>

Event == 1..MaxEvents
Sent  == 1..Len(logOf)
None  == <<0>>          \* no clean of the log is running

TypeOK ==
    /\ logOf \in Seq(Log) /\ Len(logOf) <= MaxEvents
    /\ queue \in Seq(Event) /\ Len(queue) <= ChanCap
    /\ closed \in BOOLEAN
    /\ pc \in {"recv", "retry", "write", "done"}
    /\ cur \in Event \cup {0} /\ (pc \in {"retry", "write"} <=> cur # 0)
    /\ todo \in Seq(Event) /\ kept \in Seq(Event)
    /\ diskBuf \in Seq(Event) /\ Len(diskBuf) <= DiskBufCap
    /\ healthy \in BOOLEAN /\ since \in 0..RetryAfter
    /\ dirty \subseteq Log
    /\ open \subseteq Log /\ Cardinality(open) <= MaxHandles /\ linked \subseteq open
    /\ buf \in [Log -> Seq(Event)] /\ file \in [Log -> Seq(Event)]
    /\ snap \in [Log -> Seq(Event \cup {0})] /\ cleans \in 0..MaxCleans
    /\ lost \subseteq Event /\ retried \subseteq Event

Init ==
    /\ logOf = <<>> /\ queue = <<>> /\ closed = FALSE
    /\ pc = "recv" /\ cur = 0 /\ todo = <<>> /\ kept = <<>>
    /\ diskBuf = <<>> /\ healthy = TRUE /\ since = 0
    /\ dirty = {} /\ open = {} /\ linked = {}
    /\ buf = [l \in Log |-> <<>>] /\ file = [l \in Log |-> <<>>]
    /\ snap = [l \in Log |-> None] /\ cleans = 0
    /\ lost = {} /\ retried = {}

-----------------------------------------------------------------------------
(* The channel.  A receiver that lags behind loses the oldest events.      *)

Send(l) ==
    /\ ~closed /\ Len(logOf) < MaxEvents
    /\ logOf' = Append(logOf, l)
    /\ LET q == Append(queue, Len(logOf) + 1)
       IN  IF Len(queue) < ChanCap
           THEN queue' = q /\ UNCHANGED lost
           ELSE queue' = Tail(q) /\ lost' = lost \cup {Head(q)}
    /\ UNCHANGED <<closed, pc, cur, todo, kept, bufVars, outVars, cleanVars, retried>>

Close ==
    /\ ~closed
    /\ closed' = TRUE
    /\ UNCHANGED <<logOf, queue, pc, cur, todo, kept, bufVars, outVars, cleanVars,
                   lost, retried>>

Tick ==
    /\ since < RetryAfter
    /\ since' = since + 1
    /\ UNCHANGED <<chanVars, pc, cur, todo, kept, diskBuf, healthy, outVars, cleanVars,
                   lost, retried>>

-----------------------------------------------------------------------------
(* A BufWriter writes its first n lines; fewer than all when the disk is   *)
(* full.  An unlinked file takes them too, and nobody will read them.      *)

Written(l, n) == SubSeq(buf[l], 1, n)
Unwritten(l, n) == SubSeq(buf[l], n + 1, Len(buf[l]))
Reaches(l, n) == IF l \in linked THEN file[l] \o Written(l, n) ELSE file[l]
Misses(l, n) == IF l \in linked THEN {} ELSE Range(Written(l, n))

(* handles.remove: dropping a BufWriter flushes it and ignores errors. *)
DropHandle(l) ==
    \E n \in 0..Len(buf[l]) :
      /\ open' = open \ {l} /\ linked' = linked \ {l}
      /\ file' = [file EXCEPT ![l] = Reaches(l, n)]
      /\ buf' = [buf EXCEPT ![l] = <<>>]
      /\ lost' = lost \cup Misses(l, n) \cup Range(Unwritten(l, n))

-----------------------------------------------------------------------------
(* write_event.                                                            *)

Recv ==
    /\ pc = "recv" /\ queue # <<>>
    /\ cur' = Head(queue) /\ queue' = Tail(queue)
    /\ \/ /\ healthy \/ since < RetryAfter
          /\ pc' = "write"
          /\ UNCHANGED <<todo, diskBuf, healthy>>
       \/ /\ ~healthy /\ since = RetryAfter /\ diskBuf = <<>>
          /\ pc' = "write" /\ healthy' = TRUE
          /\ UNCHANGED <<todo, diskBuf>>
       \/ /\ ~healthy /\ since = RetryAfter /\ diskBuf # <<>>
          /\ pc' = "retry" /\ todo' = diskBuf /\ diskBuf' = <<>>
          /\ UNCHANGED healthy
    /\ UNCHANGED <<logOf, closed, kept, since, outVars, cleanVars, lost, retried>>

Busy   == pc = "write" \/ (pc = "retry" /\ todo # <<>>)
ToLog  == IF pc = "retry" THEN Head(todo) ELSE cur
Target == logOf[ToLog]

HandlesFull_Late == Cardinality(open) > MaxHandles  \* mutation: one handle too many

HandlesFull == Cardinality(open) >= MaxHandles

(* get_or_open: any handle may be the one that makes room. *)
Evict(l) ==
    /\ Busy /\ Target \notin open /\ HandlesFull
    /\ l \in open
    /\ DropHandle(l)
    /\ UNCHANGED <<chanVars, pc, cur, todo, kept, bufVars, dirty, cleanVars, retried>>

OpenLog ==
    /\ Busy /\ Target \notin open /\ ~HandlesFull
    /\ open' = open \cup {Target} /\ linked' = linked \cup {Target}
    /\ UNCHANGED <<chanVars, pc, cur, todo, kept, bufVars, dirty, buf, file, cleanVars,
                   lost, retried>>

BufferEvent ==
    /\ healthy' = FALSE /\ since' = 0
    /\ IF Len(diskBuf) < DiskBufCap
       THEN /\ diskBuf' = Append(diskBuf, cur) /\ retried' = retried \cup {cur}
            /\ UNCHANGED lost
       ELSE /\ lost' = lost \cup {cur}
            /\ UNCHANGED <<diskBuf, retried>>

OpenFails ==
    /\ Busy /\ Target \notin open /\ ~HandlesFull
    /\ \/ /\ pc = "write"
          /\ BufferEvent
          /\ pc' = "recv" /\ cur' = 0
          /\ UNCHANGED <<todo, kept>>
       \/ /\ pc = "retry"
          /\ kept' = Append(kept, Head(todo)) /\ todo' = Tail(todo)
          /\ UNCHANGED <<pc, cur, bufVars, lost, retried>>
    /\ UNCHANGED <<chanVars, outVars, cleanVars>>

(* The task is done with the line: with the event, or with one retry. *)
Advance ==
    \/ /\ pc = "write"
       /\ pc' = "recv" /\ cur' = 0 /\ healthy' = TRUE
       /\ dirty' = dirty \cup {Target}
       /\ UNCHANGED <<todo, kept, diskBuf, since>>
    \/ /\ pc = "retry"
       /\ todo' = Tail(todo)
       /\ UNCHANGED <<pc, cur, kept, bufVars, dirty>>

AppendLine_Bypass(l, e) ==      \* mutation: a full buffer is overtaken
    IF Len(buf[l]) < BufLines
    THEN buf' = [buf EXCEPT ![l] = Append(@, e)] /\ UNCHANGED <<file, lost>>
    ELSE /\ l \in linked
         /\ file' = [file EXCEPT ![l] = Append(@, e)]
         /\ UNCHANGED <<buf, lost>>

(* writeln! into the BufWriter, which empties itself first when full. *)
AppendLine(l, e) ==
    IF Len(buf[l]) < BufLines
    THEN buf' = [buf EXCEPT ![l] = Append(@, e)] /\ UNCHANGED <<file, lost>>
    ELSE /\ buf' = [buf EXCEPT ![l] = <<e>>]
         /\ file' = [file EXCEPT ![l] = Reaches(l, Len(buf[l]))]
         /\ lost' = lost \cup Misses(l, Len(buf[l]))

WriteLine ==
    /\ Busy /\ Target \in open
    /\ AppendLine(Target, ToLog)
    /\ Advance
    /\ UNCHANGED <<chanVars, open, linked, cleanVars, retried>>

(* The buffer is full and cannot be emptied: write_event returns the error *)
(* and the event is gone; flush_disk_buf drops the handle and keeps it.    *)
WriteFails ==
    /\ Busy /\ Target \in open /\ Len(buf[Target]) >= BufLines
    /\ \/ /\ pc = "write"
          /\ \E n \in 0..(Len(buf[Target]) - 1) :
               /\ file' = [file EXCEPT ![Target] = Reaches(Target, n)]
               /\ buf' = [buf EXCEPT ![Target] = Unwritten(Target, n)]
               /\ lost' = lost \cup Misses(Target, n) \cup {cur}
          /\ pc' = "recv" /\ cur' = 0
          /\ UNCHANGED <<todo, kept, open, linked>>
       \/ /\ pc = "retry"
          /\ DropHandle(Target)
          /\ kept' = Append(kept, Head(todo)) /\ todo' = Tail(todo)
          /\ UNCHANGED <<pc, cur>>
    /\ UNCHANGED <<chanVars, bufVars, dirty, cleanVars, retried>>

Retried_Forget ==               \* mutation: remaining is not put back
    /\ pc = "retry" /\ todo = <<>>
    /\ healthy' = (kept = <<>>) /\ since' = 0
    /\ kept' = <<>>
    /\ pc' = "write"
    /\ UNCHANGED <<chanVars, cur, todo, diskBuf, outVars, cleanVars, lost, retried>>

Retried ==
    /\ pc = "retry" /\ todo = <<>>
    /\ diskBuf' = kept /\ healthy' = (kept = <<>>) /\ since' = 0
    /\ kept' = <<>>
    /\ pc' = "write"
    /\ UNCHANGED <<chanVars, cur, todo, outVars, cleanVars, lost, retried>>

-----------------------------------------------------------------------------
(* flush_and_sync_dirty_logs: a dirty handle whose file was deleted is     *)
(* dropped, the others are flushed.  n[l] lines of l get through.          *)

Flushed == dirty \cap linked
Unlinked_Unseen == {}           \* mutation: nlink is not looked at

Unlinked == (dirty \cap open) \ linked

FlushSync ==
    /\ pc = "recv" /\ dirty # {}
    /\ dirty' = {}
    /\ open' = open \ Unlinked
    /\ \E n \in [Flushed -> 0..BufLines] :
         /\ \A l \in Flushed : n[l] <= Len(buf[l])
         /\ file' = [l \in Log |-> IF l \in Flushed THEN Reaches(l, n[l]) ELSE file[l]]
         /\ buf' = [l \in Log |-> IF l \in Unlinked THEN <<>>
                                  ELSE IF l \in Flushed THEN Unwritten(l, n[l])
                                  ELSE buf[l]]
    /\ lost' = lost \cup UNION {Range(buf[l]) : l \in Unlinked}
    /\ UNCHANGED <<chanVars, pc, cur, todo, kept, bufVars, linked, cleanVars, retried>>

(* Every handle writes what it can and is closed; what is still in memory  *)
(* goes with the task, disk_buf included.                                  *)
CloseHandles ==
    \E n \in [open -> 0..BufLines] :
      /\ \A l \in open : n[l] <= Len(buf[l])
      /\ file' = [l \in Log |-> IF l \in open THEN Reaches(l, n[l]) ELSE file[l]]
      /\ lost' = lost \cup Range(queue) \cup Range(diskBuf)
                      \cup UNION {Misses(l, n[l]) \cup Range(Unwritten(l, n[l])) : l \in open}
      /\ buf' = [l \in Log |-> <<>>]
      /\ open' = {} /\ linked' = {} /\ dirty' = {}

(* The stream has ended: the last flush, and the task returns.  Nobody     *)
(* waits for it, so the process may also exit before the task has received *)
(* everything; the task is then dropped where it waits.                    *)
Finish ==
    /\ pc = "recv" /\ closed
    /\ pc' = "done"
    /\ CloseHandles
    /\ queue' = <<>> /\ diskBuf' = <<>>
    /\ UNCHANGED <<logOf, closed, cur, todo, kept, healthy, since, cleanVars, retried>>

-----------------------------------------------------------------------------
(* Others.  A deleted or replaced log leaves the open handle unlinked.     *)

Exists(l) == file[l] # <<>> \/ l \in linked

DeleteLog(l) ==
    /\ Exists(l)
    /\ file' = [file EXCEPT ![l] = <<>>] /\ linked' = linked \ {l}
    /\ lost' = lost \cup Range(file[l])
    /\ UNCHANGED <<chanVars, pc, cur, todo, kept, bufVars, dirty, open, buf, cleanVars,
                   retried>>

(* clean_single_log reads the log and writes what it keeps to another file *)
(* that it then renames over the log: the lines its filters let through,   *)
(* here those at the positions `at', in the order of the log.              *)
CleanReads(l) ==
    /\ cleans < MaxCleans /\ cleans' = cleans + 1
    /\ snap[l] = None /\ Exists(l)
    /\ \E n \in 0..Len(file[l]) : \E at \in [1..n -> DOMAIN file[l]] :
         /\ \A i, j \in 1..n : i < j => at[i] < at[j]
         /\ snap' = [snap EXCEPT ![l] = [i \in 1..n |-> file[l][at[i]]]]
    /\ UNCHANGED <<chanVars, pc, cur, todo, kept, bufVars, outVars, lost, retried>>

(* The rename, or when it fails that of the copy made just before it: the   *)
(* log is another file in both cases.                                      *)
CleanRenames(l) ==
    /\ snap[l] # None
    /\ \E new \in {snap[l], file[l]} :
         /\ file' = [file EXCEPT ![l] = new] /\ linked' = linked \ {l}
         /\ lost' = (lost \cup Range(file[l])) \ Range(new)
    /\ snap' = [snap EXCEPT ![l] = None]
    /\ UNCHANGED <<chanVars, pc, cur, todo, kept, bufVars, dirty, open, buf, cleans, retried>>

-----------------------------------------------------------------------------
WriterStep ==
    \/ \E l \in Log : Evict(l)
    \/ Recv \/ OpenLog \/ OpenFails \/ WriteLine \/ WriteFails \/ Retried \/ Finish

Next ==
    \/ WriterStep \/ FlushSync
    \/ Close \/ Tick
    \/ \E l \in Log : Send(l) \/ DeleteLog(l) \/ CleanReads(l) \/ CleanRenames(l)

(* The task is scheduled, and its select takes the timer's branch again    *)
(* and again.                                                              *)
Fairness == WF_vars(WriterStep) /\ SF_vars(FlushSync)

Spec == Init /\ [][Next]_vars /\ Fairness

-----------------------------------------------------------------------------
(* The lines of l, those still in its BufWriter included. *)
Lines(l) == file[l] \o buf[l]

(* How often e is anywhere between the channel and its log. *)
Copies(e) ==
    Cardinality({i \in DOMAIN queue : queue[i] = e})
    + Cardinality({i \in DOMAIN (todo \o kept \o diskBuf) : (todo \o kept \o diskBuf)[i] = e})
    + Cardinality({i \in DOMAIN Lines(logOf[e]) : Lines(logOf[e])[i] = e})
    + (IF e = cur THEN 1 ELSE 0)

(* file_writer.rs writes no event twice and none to the log of another     *)
(* cmd, and loses them where `lost' says so only: each is in exactly one   *)
(* place on its way to its log, unless a receiver lagged, disk_buf was     *)
(* full, its log was deleted or cleaned, its write failed, or the task     *)
(* ended with it in memory.  It does not say that these losses are right:  *)
(* the comments of write_event and flush_all deny the last two.            *)
Accounted ==
    /\ \A e \in Sent : Copies(e) = IF e \in lost THEN 0 ELSE 1
    /\ \A l \in Log : \A e \in Range(Lines(l)) : logOf[e] = l

(* A log is in the order of the stream, as the queries that search it by   *)
(* time require, except for events that waited in disk_buf: handles that   *)
(* are evicted, reopened, deleted under the writer or fail to flush        *)
(* reorder nothing.                                                        *)
OnlyRetriesReorder ==
    \A l \in Log : \A j \in DOMAIN Lines(l) : \A i \in 1..(j - 1) :
      Lines(l)[i] < Lines(l)[j] \/ Lines(l)[j] \in retried

(* flush_and_sync_dirty_logs: a log that was deleted, or replaced by fsmon *)
(* clean, while it is being written does not swallow events for ever; the  *)
(* stale handle goes, and the next write recreates the file.               *)
StaleHandleDropped ==
    \A l \in Log : (l \in dirty /\ l \in open \ linked) ~> l \notin open

(* file_writer.rs, write_event: an event whose log could not be opened is  *)
(* buffered for retry.  disk_buf is only ever retried while the disk       *)
(* counts as unhealthy.                                                    *)
BufferedIsRetried == pc = "recv" /\ diskBuf # <<>> => ~healthy
=============================================================================
