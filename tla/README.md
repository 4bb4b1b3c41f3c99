# A TLA+ model of fsmon

fsmon is a Linux daemon that watches directories with fanotify, attributes each
file event to the process that caused it, and appends it to one JSONL log per
*cmd* (a process name, or the global group). Command-line clients edit a store
of registrations, talk to the daemon over a Unix socket, follow the event
stream, query the logs and clean them.

The development models the parts of the daemon whose correctness depends on the
order in which independent things happen: clients, the file system, reader
tasks, a privileged child process, a writer task, subscribers and signals; and
the one intricate algorithm, the search and the trim of a log by byte offsets. It was written
from the source; paths below are relative to the repository
(`src/common/...`), and `PROJECT.json` maps every definition to its lines.

Contents: [1 The system](#1-the-system) · [2 Modules](#2-modules) ·
[3 Runs](#3-runs) · [4 Fairness](#4-fairness) · [5 Proofs](#5-proofs) ·
[6 What the runs found](#6-what-the-runs-found) ·
[7 Not modelled](#7-not-modelled) · [8 Plan](#8-plan)

## 1 The system

One process, the daemon, runs a tokio `select!` loop (`src/common/monitor.rs`,
`Monitor::run`) that owns almost all state and runs one handler at a time.
Around it are tasks (readers, the file writer, subscribers), one forked child,
and processes that share only files and a socket with it.

| Component | State | Operations | Talks to |
|---|---|---|---|
| Monitor registry (`monitor/live_path.rs`, `temp_marks.rs`, `dir_watcher.rs`, `events.rs`, `init.rs`, `socket_handler.rs`) | `monitored_entries`, `paths`, `path_to_group`, `pending_paths`, `temp_parent_marks`, the slot map of fanotify groups with `ref_count` and `dev_id` | `add_path`, `remove_path`, `check_pending`, `reload_config`, root deletion, temporary parent marks, start-up | store, factory, file system, clients |
| Store and clients (`monitored.rs`, `bin/fsmon/commands/add.rs`, `remove.rs`) | `monitored.jsonl`, its temporary file | load, change, save, send a command, roll back | registry (socket), a restarted daemon (store) |
| Fanotify factory (`monitor/factory.rs`) | socket pair, `alive`; in the child only its socket | spawn, create a group, mark, give up, drop | registry (blocking calls) |
| Reader supervision (`monitor/reader.rs`) | one task and one `ReaderState` per group | spawn, death notice, restart, give up | registry, event channel, `health` |
| Event pipeline (`monitor.rs`, `monitor/events.rs`, `filtering.rs`, `channel.rs`, `filters.rs`) | event channel, pending events of a batch, file-size cache | receive a batch, match, filter, patch, publish, drain | readers, process tracker, broadcast stream |
| Process tracker (`proc_cache.rs`) | process tree, per-CPU sequence numbers | drain connector messages, enrich | pipeline |
| Directory-handle cache, FID parser (`dir_cache.rs`, `fid_parser.rs`) | handle to path map, marks, inotify watches | walk and mark a tree, insert, look up, evict, follow new directories | readers, registry, factory |
| Log writer (`monitor/file_writer.rs`) | handle cache, `disk_buf`, `disk_healthy`, `dirty_logs` | write, buffer, retry, flush, shut down | broadcast stream, logs |
| Log clean (`clean/core.rs`) | a temporary file, a backup | filter, trim, rename, restore | logs |
| Log query (`query/core.rs`) | none | binary search by time, filter | logs |
| Control socket, subscribers (`socket.rs`, `socket_handler.rs`) | connections, subscriber count | accept, dispatch, stream | registry, broadcast stream |
| Metrics, watchdog, privileges, security, configuration, CLI | counters, start-up values | | |

What is hard here, and what makes each part correct:

* **Registry.** Six handlers move a registration between "monitored" and
  "pending" while directories disappear and return between two tests of one
  handler. Reference counts of groups are raised in three places and lowered in
  two. Correct means: no registration gets lost, no key of the group table
  dangles, no group is freed while it is used, and no handler loops.
* **Readers.** A reader may end at any time, also after its group went. Correct
  means: every group has one reader or says that it has none, and restarts are
  paced.
* **Factory.** A blocking request to a process that may be stuck, dying, or late
  by an instant. Correct means: an answer is never taken for another's, the
  daemon never hangs, and the privileged child never outlives the daemon.
* **Writer.** Opening and writing fail, logs are deleted or replaced under open
  handles, and a lagging receiver loses events. Correct means: an event is
  written once, to its own log, in order, and is lost only where the code says so
  (which it does not of a failed write and of the shutdown, section 6).
* **Pipeline.** A file event and the fork and naming of its process arrive over
  two channels, the reader blocks on a full channel, readiness is reported once,
  and the shutdown empties the channel. Correct means: every event that could be
  decoded is published once per matching cmd, in order, with its process known,
  and none waits for ever.
* **Directory tree.** Marks, the handle cache and inotify watches follow a tree
  that changes while it is walked. Correct means: at rest every directory is
  marked and known at its present place.
* **Clients and socket.** Clients edit one file without a lock, a connection is
  read inside a `select!` branch that other branches cancel, subscribers are
  slower than the stream. Correct means: the store is never torn, nothing leaves
  it unasked, store and daemon agree afterwards, no command hangs, and a
  subscriber is told what it missed.
* **Query and clean.** Offsets found in one file are used in another, lines may
  not parse. Correct means: nothing of the range is skipped, and the trim drops
  what it must and no more.

## 2 Modules

Each component has one module; `MC*` modules give the constants values that a
`.cfg` cannot write; `*Proofs` modules hold the theorems. An operator whose name
ends in `_Something` and whose comment says *mutation* is a deliberately wrong
variant of the definition that follows it, used only to show that a property
can fail.

### MonitorRegistry

State: the daemon's tables (`entries`, `paths`, `p2g`, `temp`, `pending`,
`groups`, `ref`, `dev`), the store and the commands in flight, and which paths
exist (`fs`). Vectors of registrations are bags (`[Path -> [cmd -> Nat]]`),
because the code pushes duplicates. `pc` orders the steps of the running
handler: `boot` (`init_fanotify`), `begin`/`check`/`cleanup` (`check_pending`),
`unroot`/`tempMark` (a deleted root becomes pending and its parent is marked),
`reloadAdd`/`reloadRemove` (`reload_config`).

`AddMonitored`, `AddPending`, `AddCmd`, `AddTransient` and `AddPermanent` are
the exits of `add_path`; the callers (`SocketAdd`, `ReloadAdd`, `Retry`) treat
them as the code does. `RemovePath` is `remove_path`. `JoinGroup`,
`CreateGroup` and `ReleaseGroup` are the three things that happen to a group.
`RetryVanished` is the window inside `check_pending` in which a path that
existed disappears before `add_path` looks again; the constant `RaceWindow`
closes it, so that the rest of the handler can be checked without it.

The cmd of a registration has two spellings, as in the code: the store and the
clients write `_global`, `PathOptions` has `None`. `Normalise` is the
conversion, applied exactly where the code applies it. Paths that overlap the
log directory never exist in the model: they are refused before their existence
is looked at, so that nothing depends on it.

### Registrations, RegistryRefinement

`Registrations` is what the registry promises to those who register: a set of
(path, cmd) pairs `reg`, changed by answered commands, by a start (which takes up
the whole store) and by a reload (which adds what it read and removes paths it
did not find). It knows no groups, marks, pending paths or retries.
`RegistryRefinement` maps the registry's state to it: a pair is registered when
it is monitored or pending, also in the vector `check_pending` holds and in the
batch of deleted roots. `ImplementsRegistrations` says that every step of
`MonitorRegistry` is one of `Registrations` or a stutter. It needs `RaceWindow`
closed; with the window open the registration of `registry_race` is lost. The
abstract specification is safety only: an answered remove may leave its own
registration in place, because the code does (section 6).

### ReaderSupervisor

State per group key: running `tasks`, death `notices` in the channel, the three
fields of `ReaderState`. Keys are never reused (slot map). `SpawnFdReader` is
`spawn_fd_reader` with its early return when `dup` fails; `RestartReader` is
`restart_reader`.

### FanotifyFactory

Two processes and the messages between them. `daemon` and `child` say where each
stands; requests and replies are sequences (SEQPACKET keeps order and
boundaries). `TimeOut` and `GiveUp` are two steps because a reply can arrive
between the return of `poll` and the kill. `DaemonDies` is enabled everywhere,
also between `fork` and `prctl(PR_SET_PDEATHSIG)`.

### LogWriter

The task is a sequence of steps ordered by `pc`: `recv`, `retry`
(`flush_disk_buf`), `write`. A `BufWriter` is a bounded sequence of lines; a
flush gets any prefix of it to the file. A handle is *linked* while the name
still leads to its file; `DeleteLog` and `CleanRenames` unlink it. `CleanReads`
and `CleanRenames` are `clean_single_log`, split where the writer can get
between. The ghost `lost` records every loss at the place where it happens, so
that `Accounted` can demand that all others do not happen. It does not say that
the losses recorded are right: a failed write and the shutdown are among them,
and the code's comments deny both (section 6).

Abstractions of the writer: a partial write ends at a line boundary, and
`fdatasync` is not distinguished from a flush (the machine does not crash).

### EventPipeline

Processes fork, take the name of the cmd, exit and cause events (`Fork`,
`SetName`, `Exit`, `Emit`); the first three put a message into the connector's
bounded socket, the last an event into a group's kernel queue. A reader is
`ReadEvents` (or `ReadFails`: the descriptor cannot be duplicated, or the read
fails) and `ReaderSends`, between which its batch is in `hand`. The batch is what
could be decoded (`Decoded`): an event of kind `unplaced` is one whose directory's
handle is not in the cache when it is read, so that the decoder drops it, also when
that leaves nothing of a read. Which events those are is `TreeMarks`' affair and
here a free choice. As in the code, `AfterRead` goes by the decoded batch. The main
loop is `RecvBatch` (with the first drain), `ProcessEvent` for each event of the
batch, `Publish` (second drain, `patch_pending_events`, `send_pending_events`,
`check_pending`); after `Signal` the same steps are `drain_remaining_events`,
without the second drain and without `check_pending`, until `Stop`.

`root` says whether a group's root is monitored or pending; how it changes
between the two is the registry's affair and here a free choice. The tracker is
a library: `tline` has each process it knows with its ancestors, and lookups find
the ones that have not exited. In the model every naming is reported by the
connector, process ids are not reused, and the filters let everything through.
`Attach` is one message's effect on the lines, `AttachAll` that of a sequence.
`windowed`, `atSignal` and `stranded` are ghosts; the last has the groups whose
readiness was cleared, by a read that yielded nothing, with events in their queue.

### TreeMarks

The directories below one recursive root. A directory is a number that is never
used again (a file handle); `at` says which one is at which path now. Users act
by `MkDir`, `RmDir` and `Rename`, which put records into the group's bounded
queue for each marked parent, and into the inotify queue for watched ones. The
reader decodes an event through `cache` (`Read`); one whose own directory is not
in the cache is dropped, also when the target of a rename is. The resolver may also
teach the cache what it resolved and make it forget stale handles (`DirCacheStore`);
when it does is decided in the library and not modelled. The main loop walks
(`FlushLevel`, `Skip`, `OpenDir`, `FlushFull`, `List`: one directory of
`mark_recursive_with_depth`, in levels and in batches of `Batch`), and reacts to
new directories (`TakeEvent`, `TakeInotify`, `CacheNew`, the walk, `WatchNew`).
The steps are split where a rename can come between a descriptor and a path.
`Moved` is what a path below a renamed directory is called afterwards. The ghost
`lost` has the directories that the daemon lost sight of for one of the reasons
listed at `TreeFollowed`; a directory leaves it when it is cached again.

### LogFiles

A log is a sequence of lines, of which the model keeps time, path, size in bytes
and whether decoding changes the length (`from_utf8_lossy`). `Measure`,
`OpenToSearch`, `Probe`/`ProbeFails`, `OpenToRead`, `ReadLine` and `ReadEnd` are
the steps of a query, each open of the file by name its own step; `Narrow` is one
probe of the binary search, with the scan back to a line, its failure to parse
and the new bounds. `CleanRead` (`Kept`, `Trimmed`), `CleanCopy` and
`CleanRename` are `clean_single_log`, with the restore of the backup after a
failed rename (`Keeps` is the time filter, `Select` what a filter leaves of a log); `AppendEvent` is the daemon. `FindTailOffset` is the arithmetic of
the trim.

### ControlSocket

Clients are small processes: `Load`, `Create`, `Write`, `Rename` (the store),
`Connect`, `Send`, `NoAnswer`, `Report`, `TakeBack` (the command), and `Kill` at
any point. Both files are sets of entries, or `Torn`; `fd` says which name the
file a client writes has *now*, because another client's rename may have made
its temporary file the store. The daemon reads a connection in `Accept` and
`Handle`/`Subscribe`; `Cancel` is another branch of `select!` completing while it
reads, which drops the connection. `Greet`, `Recv` and `Lagged` are
`subscriber_task` on a broadcast channel of `BufLen` events. Entries are of named
cmds and outside the registry's special cases; whether the daemon has an entry is
all that is kept of it. Ghosts: `meant` (versions clients meant to save), `fresh`,
`mixed` (two clients had the temporary file open), `excused`.

## 3 Runs

| Run | Instance | Checks |
|---|---|---|
| `registry_groups` | 2 paths, 2 devices (paths are mount points), crash and race allowed | `TypeOK`, `KeysLive`, `RefsCovered`, `GroupMatchesDevice` |
| `registry_kept` | 2 paths, one in the log directory, a named and the global cmd, adds that fail, crash allowed, no race window | `TempMarkHasTarget`, `RegistrationKept`, `HandlerReturns`, `ImplementsRegistrations` |
| `registry_race` | 1 path, the global cmd, the race window | `RegistrationKept` is violated |
| `reader_restarts` | 1 key, MAX_RESTARTS and BACKOFF_WINDOW of a few ticks | `TypeOK`, `RestartsCapped`, `OneReader`, `HealthAccurate`, `ReaderSupervised` |
| `factory_requests` | 4 requests | `TypeOK`, `RepliesMatch`, `ChildHoldsNothing`, `RequestEnds`, `NoOrphan` |
| `writer_logs` | 4 events, 2 logs, every capacity 1 or 2, 1 clean | `TypeOK`, `Accounted`, `OnlyRetriesReorder`, `StaleHandleDropped` |
| `writer_stranded` | 3 events | `BufferedIsRetried` is violated |
| `pipeline_events` | 2 events of 5 kinds, 1 group, a process and a possible child, channel of 1 batch, connector of 3 messages | `TypeOK`, `NoneMissed`, `OnceInOrder`, `ChildrenIncluded`, `TopologyKnown`, `EventsDelivered` |
| `tree_marks` | trees of 2 names and 2 levels, 3 changes or faults, batch 2, cache 4, queue 2, started at boot or added live | `TypeOK`, `TreeFollowed` |
| `tree_boot` | same trees, at boot, no change | `MarkedResolvable` is violated |
| `log_files` | logs of up to 3 lines of 4 kinds (events of two paths, a long wide one, one that does not parse), 1 append, 1 clean, scan back 3 bytes | `TypeOK`, `QueryComplete`, `TrimKeepsTail`, `QueryEnds` |
| `control_socket` | 2 clients: two commands on one or two entries (one refused), a command and a subscriber, two subscribers; 3 events, stream of 1, 1 fault | `TypeOK`, `StoreWhole`, `StoreMatchesDaemon`, `EntryKept`, `NoSilentLoss`, `CommandEnds` |

Why the bounds are enough to be interesting:

* Registry: two paths on one device share a group, and with the ancestors on the
  other device a temporary mark and a path use different groups; `MaxGroups` of
  3 (2 in `registry_kept`) lets a group be freed and created again. `MaxCopies`
  bounds how often a registration may wait before a new command adds it again;
  the duplicates the code itself produces are not cut off. `MaxBatch = 2` in
  `registry_groups` lets one inotify read name the same root twice (moved, then
  deleted); `registry_kept` takes one root per read.
* Readers: the interesting number is MAX_RESTARTS + 1 starts within and across a
  window, which the instance reaches; keys do not interact.
* Factory: two requests suffice for a reply to be taken for another's; four let
  it happen after a failure of each kind.
* Writer: with one handle and two logs every change of log evicts; with a
  one-line buffer every second line of a log writes through; a channel of two
  with four events lags; `DiskBufCap` of two overflows.
* Pipeline: two events fill the channel and the reader's hand, or are left behind
  by one read, which may yield the first, the second or neither; the fork, naming
  and exit of the child and the exit of its parent overrun the connector. Groups
  share only the channel, whose being full one group already brings about.
* Tree: two names and two levels allow a rename of a directory, of its parent
  and into a sibling, and a directory made where another was; a batch of two is
  full with two siblings; a cache of four is full with the largest tree and one
  more; three changes suffice for a change during each of two walks. `Limit` is
  beyond the trees, so that TLC does not meet `max_depth`; `TreeIsFollowed`
  (section 5) holds for every `Limit`. What starts
  at boot says little of `TreeFollowed` before a directory is cached again: the
  root counts as lost there, because that walk has no cache (finding 3).
* Log files: three lines give the search a first, a middle and a last probe that
  falls inside a line; the sizes 1, 2, 3 and 5 lie below, at and above the scan
  back of 3, and the trim limits cut at, before and inside the first line. The
  initial states are all such logs.
* Control socket: two clients suffice for a lost update and for a shared
  temporary file; a stream of one with three events lags twice; the fault is a
  kill or a failing request.

Deadlock is checked in the registry runs, in which something can always happen.
The other systems really stop: a clock at its bound, a daemon that has exited, a
stream that has ended.

## 4 Fairness

* `MonitorRegistry`: weak fairness of the running handler's steps. A handler is
  synchronous code on the main task, with no await in it. Nothing is assumed of
  clients, of the file system, or of the choice of the next event.
* `ReaderSupervisor`: weak fairness of `RestartReader`. The main loop polls the
  channel of notices in its `select!`.
* `FanotifyFactory`: weak fairness of both processes' steps and of the clock; a
  dead process's steps are disabled. `ChildAnswers` gets none: the child may be
  stuck in `fanotify_mark`.
* `LogWriter`: weak fairness of the task, strong fairness of the flush. `select!`
  polls its branches in random order, so that the timer's branch, which is ready
  again and again while events keep arriving, is taken eventually.
* `EventPipeline`: weak fairness of the main loop's steps on batches and of each
  reader. Both are tasks that the runtime polls when they are ready; the channel
  wakes waiting senders in turn. Nothing is assumed of processes and signals.
* `LogFiles`: weak fairness of the query, a process that waits for nobody.
* `ControlSocket`: weak fairness of each client's steps and of the daemon's accept
  branch: a process is scheduled, and the loop polls the branch whenever a
  connection is ready. Nothing is assumed of what cancels it, of kills, of
  subscribers and of their tasks.
* `TreeMarks` and `Registrations` are safety only.

## 5 Proofs

TLC checks instances; the following hold for every value of the constants that
satisfies the modules' named assumptions.

**MonitorRegistryProofs** (assumes `RegistryAssumption`: finitely many paths, the
device functions are total, the two spellings of the global cmd are not cmds).

* `TypeCorrect`: `Spec => []TypeOK`. `TypeOK` is not inductive: `InotifyRootGone`
  and `TempMark` take the head of `gone`, so the invariant is `TypeInv`, which
  adds that `gone` is not empty where they run.
* `RefCountCoversUses`, `GroupKeysNeverDangle`, `OneGroupPerDevice`:
  `Spec => []RefsCovered`, `[]KeysLive`, `[]GroupMatchesDevice`. They need each
  other. That a key stays live when another user releases its group follows from
  the count covering all users; that the count covers them after a release
  follows from the key being live; that a join does not put a path into a
  foreign group needs one group per device; and all need `FreshKeys`: the keys
  the slot map will give out next are used by nobody. The inductive invariant
  `IInv` is the conjunction with `TypeInv`. The proof classifies every action by
  what it does to the table (`HandlerTableStep`, `LoopTableStep`,
  `EnvironmentTableStep`: a path takes a group, a mark takes a group, a group is
  dropped by one user, the daemon restarts, or nothing), and shows once that each
  class keeps the invariant, with the cardinality lemmas `SetUse` and `ClearUse`.

With the hypothesis `~RaceWindow` (with the window open the properties are false,
as `registry_race` shows), in the second half of the same module:

* `NoRegistrationLost`: `Spec => RegistrationKept`, an action property.
  `MarksKeepTarget`: `Spec => []TempMarkHasTarget`. `RegistryImplements`:
  `Spec => ImplementsRegistrations`, the refinement, by the initial states and
  one lemma per class of steps.
* All three rest on `KeptInv`, the conjunction of: `BagInv`, which says which of
  the vectors `pending`, `todo` and `still` are empty at which `pc` (a handler
  overwrites them, and a registration in one of them would be lost); `BootInv`, a
  daemon that is down or starting has only what it has visited; `LogInv`, a path
  in the log directory is never registered; `EntriesInv`, an entry's path is
  monitored; `MarkInv`, a temporary mark has a waiting registration or
  `check_pending` is about to remove it.

**ReaderSupervisorProofs** (assumes `SupervisorAssumption`).

* `SupervisorTypeCorrect`, `SingleReader`, `RestartRateBounded`:
  `Spec => []TypeOK`, `[]OneReader`, `[]RestartsCapped`. The third says that any
  MAX_RESTARTS + 1 consecutive starts span at least one window. Its inductive
  form `PaceInv` relates the recorded starts to `restart_count` and
  `last_restart`: the starts are in order, the count is their number, the last
  one is `last_restart`, and from the MAX_RESTARTS-th on two neighbours are a
  window apart. Since the count is never reset, this is stronger than the code
  needs: once MAX_RESTARTS starts have happened in the daemon's life, every
  further one waits a full window.

* `HealthReportAccurate`: `Spec => []HealthAccurate`. It is inductive
  together with `OneReader`: when a notice is taken, no other task of the group
  runs, so that a reader that `gave_up` really is none.

**FanotifyFactoryProofs** (assumes `FactoryAssumption`).

* `FactoryTypeCorrect`, `AnswersBelong`, `ChildKeepsNoDescriptor`:
  `Spec => []TypeOK`, `[]RepliesMatch`, `[]ChildHoldsNothing`, for any number of
  requests. That a reply is the current request's needs `ProtocolInv`: at most one
  message of a request is under way (in the request queue, in the child, or in the
  reply queue), and an idle daemon that still uses the factory finds the socket
  pair empty. Giving up after a time-out keeps it because the child is killed and
  the factory is not used again. `FdInv` says which descriptors the child has.

**LogWriterProofs** (assumes `WriterAssumption`).

* `WriterTypeCorrect`, `EventsAccounted`, `LogsInOrder`: `Spec => []TypeOK`,
  `[]Accounted`, `[]OnlyRetriesReorder`, for any number of logs and events, and
  every capacity of channel, buffers, handle cache and `disk_buf`. The core is
  `PlaceInv`: each event is in exactly one place (channel, the task's hand, one of
  the three retry vectors, its log's buffer, its log, or `lost`), counted as a
  sum. `ControlInv` says which vectors are in use at which `pc`; `QueueInv` that
  the channel has the last events sent, in order; `HomeInv` that an event is only
  in its own log. For the order, `LogsInv`, `SnapsInv` and `CurInv`: file before
  buffer, the copy of a running clean before the buffer, everything before the
  event in hand, each up to events that went through `disk_buf`; `OnceInv`, no
  vector names an event twice. The lemmas on sequences (`AppendList`, `TailList`,
  `SplitList`, `ConcatList`) say what each operation does to range, order and
  repetition.

**ControlSocketProofs** (assumes `ControlSocketAssumption`; its
`{Torn, Absent} \cap SUBSET Entry = {}` only says that the two markers are not
contents of the store).

* `ControlTypeCorrect`, `StoreStaysWhole`, `StoreAndDaemonAgree`,
  `EntriesAreKept`, `NothingLostSilently`: `Spec => []TypeOK`, `[]StoreWhole`,
  `[]StoreMatchesDaemon`, the action property `EntryKept`, and `[]NoSilentLoss`,
  for any number of clients, entries and events.
* The first two and `EntryKept` rest on `SaveInv`: unless two clients had the
  temporary file open at once, it has one user, contains what that user wrote, and
  a client whose copy is fresh changes its own entry only. `StoreMatchesDaemon`
  speaks of the end of all commands; its inductive form `MatchInv` follows each
  entry through the command on it: before the save, store and daemon agree; after
  it, the store is ahead in the direction of the command; once the daemon has
  answered ok they agree again; and a refused entry in the store has a client that
  will take it back. `ClientInv` says which of these a client's `pc` allows.
  `StreamInv` (with `Told`) is the subscribers': what was sent and what was warned
  of are disjoint, in order, and together all that matched up to the position.

**EventPipelineProofs** (assumes `PipelineAssumption`).

* `NoEventMissed`, `StreamInOrder`: `Spec => []NoneMissed`, `[]OnceInOrder`, for
  any number of groups, processes and events and every capacity. The first begins
  at the decoder: of what was decoded nothing is missed; what the decoder drops is
  gone, and the README's "never missed" does not hold of it (finding 3). The lemma
  `DecodedFacts` says what decoding keeps of a batch, by induction on its length:
  the events that can be placed, in their order, and nothing else. `StagesInv`
  orders the stages kernel queue, reader's batch, channel, main loop's batch,
  records: of one group, whatever is in a later stage is older, and each stage is
  in order. `HomeInv` makes events of different groups' queues unrelated, without
  which sending one reader's batch before another's would look like a reordering.
  `LoopInv` says that the loop takes a new batch only when nothing is left of the
  last; `RecordInv` carries the order over to the records; `MissInv` is
  `NoneMissed` with the stages named. The lemma `RecordsFacts` says what one event
  is recorded as, `Moved` that a step which only moves events between
  stages, or drops those that leave no record, keeps the rest. The tracker plays no
  part in this invariant, `IInv`.
* `PipelineTypeCorrect`, `ChildrenAlwaysIncluded`, `TopologyAlwaysKnown`:
  `Spec => []TypeOK`, `[]ChildrenIncluded`, `[]TopologyKnown`. `KInv` adds the
  tracker to `IInv`. `TrackInv`: until the connector overruns, applying the
  messages that wait (`Applied`) to what the tracker knows gives each process its
  true ancestors, and the exits and namings it has and awaits are those that
  happened. The tracker may be behind, but never wrong and never short. It needs
  `LineInv`, that a line names only processes that ran. `BatchInv` says what the
  drain before a batch is for: it has brought the tracker up to date on the cause
  of every event of the batch, because a process causes an event only after its
  fork and its ancestor's naming were reported. It holds during `process` only,
  also after the signal, when there is no second drain. `CmdInv` and `KnownInv`
  are the two properties with the stages named. What a fold of messages yields is
  proved by induction on their number (`AttachAll` in the model is a recursive
  function for that reason).

**LogFilesProofs** (assumes `LogFilesAssumption`; that a query has finitely many
filters is part of it: they are a `Vec` built from the command line).

* `FilesTypeCorrect`, `QueryIsComplete`, `TrimIsExact`: `Spec => []TypeOK`,
  `[]QueryComplete`, `[]TrimKeepsTail`, for logs of every length, lines of every
  size, every distance of the scan back, every set of filters and any number of
  appends and cleans.
* The invariant `LInv` adds two parts. `OpenedInv` says how often the query has
  opened the file at which `qpc`. `QueryInv` is about a query whose opens all got
  the same, regular file: no line that starts before `low` passes the filters
  (`NoneBefore`); while it reads, it is not inside a line that passes (`NoneCut`);
  and what it has is exactly the lines before its position that pass (`Select`).
  `low <= high <= Size` is needed so that a probe falls into the file.
* `ProbeAt` says what one probe finds: the line that its byte offset is inside of,
  and that the scan back reaches its start, on `Regular` logs. `NarrowKeeps`
  combines it with the order of times (part of `Regular`): when the line found is
  too early, so is every line before it. `TailOffset` is the trim's arithmetic: the
  offset is the end of a line, and when no line is longer than the scan back, what
  follows it is still as large as the target (or only the first line goes) and
  would not be with one more line dropped. `NewestFacts` is about the table of
  `fsmon changes`; `SelectNext` and the lemmas on `End` (the byte at which
  a line ends) relate lines and bytes.

**TreeMarksProofs** (assumes `TreeMarksAssumption`; that finitely many directories
are there at the start is part of it).

* `TreeTypeCorrect`: `Spec => []TypeOK`, with the invariant `TInv`. The bound on
  the cache holds because a full one drops an entry before it takes another; the
  one on a batch because the walk goes on only after a full batch was flushed,
  which `WalkType` ties to `pc`. `TreeType` says that the directories are a tree in which
  each has one place; that a rename keeps it so needs the lemmas `MovedFacts`,
  `MovedBack` and `MovedOrder` about the paths below a moved directory.
* `TreeIsFollowed`: `Spec => []TreeFollowed`. The property speaks of rest; its
  inductive form `FollowInv` says why every directory will be reached. Each is
  beyond the depth limit, or `Lost` (the property's exceptions), or `Placed`
  (marked or in the batch to be marked, and cached where it is), or `Covered`:
  the daemon has not walked yet, or a path above it is in the channel of new
  directories, or an event queued in the kernel tells its new place or that of a
  directory above, or an entry of `todo` stands for it. At rest nothing is queued,
  so the last case is gone and the property remains.
* The proof follows what moves a directory from one case to another. After a
  creation or a rename, an event with the new place is queued, or the directories
  are lost (queue full, or their new parent was listed and has no mark yet), or the
  new parent is itself still to be listed (`NotifyFollows`, `AwaitedFollows`).
  `Read` puts the event's path into the channel, or the directories are lost
  because the event cannot be decoded. The path is right when the new parent is
  `Placed`; when it is not, the parent is followed otherwise, and what is below it
  with it (`ByParent`). Taking the path makes it the entry of `todo` that a walk
  starts from (`TakeFollow`); opening an entry's directory makes it `Placed`
  (`RememberFollow`), and listing it makes entries for its children (`ListFacts`,
  `Enumeration`). Steps that leave a directory where it is keep its case
  (`StayFollows`). `Closure`, an induction over depth, says that a set of paths with
  the parents of its members has all that is above them.

Induction over numbers is not available as a rule that takes a predicate. Where
a proof needs it, it is derived for sets (`LeastNumber`, `SetInduction`,
`UpToInduction`, and `Recursion` for functions defined by recursion on a number):
a set of numbers that is not empty has a least one, because `<` is well-founded
on the naturals.

Every invariant and every action property that a passing run checks is stated by
a theorem. Only model-checked are the liveness properties (`HandlerReturns`,
`ReaderSupervised`, `RequestEnds`, `NoOrphan`, `StaleHandleDropped`,
`EventsDelivered`, `QueryEnds`, `CommandEnds`), which need fairness and `ENABLED`
and are out of the prover's reach; and the three expected violations, which are
counterexamples.

## 6 What the runs found

Each is a run that ends in a counterexample, and a finding in `PROJECT.json`.

1. **A registration is lost** (`registry_race`). `check_pending` takes
   `pending_paths` and writes the remainder back at the end. If a path vanishes
   between its existence test and the one in `add_path`, the latter queues it in
   the taken vector, returns Ok, and the write-back drops it.
2. **Buffered events are stranded** (`writer_stranded`). Any successful write
   marks the disk healthy, and `disk_buf` is only retried while it is not.
3. **The walk at startup fills no cache** (`tree_boot`). `init_fanotify` hands the
   walk a `shared_dir_cache` that `spawn_tasks` sets later. Every directory of a
   recursive path in the store at startup is marked, and no event of it can be
   placed until something caches the directory again. `README.md:109` says that the
   handles are pre-cached, and :137 that file events are never missed.

Disagreements between the code and a comment of it that the models contain and
that the properties leave room for, without a run of their own:

* Readiness is cleared with events queued. The reader decides between
  `retain_ready` and `clear_ready` by whether the *decoded* batch is empty
  (`reader.rs:132`). It is also empty when the descriptor cannot be duplicated, when
  the read fails, and when no event of the read could be placed (`fid_parser.rs:200`,
  :215, :256). What is left in the kernel's queue then waits for the next arrival,
  while `reader.rs:141` retains readiness for events "still queued" and
  `CHANGELOG.md:787` prevents event loss by that. `EventsDelivered` excepts what is
  behind such a read (`stranded`), and nothing else; TLC refutes
  `\A g \in Group : kq[g] # <<>> => ready[g]` on the instance of `pipeline_events`.
* Not every event is recorded. The decoder drops events whose directory is not in
  the cache (`fid_parser.rs:256`), which finding 3 makes common; `README.md:137` says
  that file events are never missed. `NoneMissed` speaks of what was decoded.
* A short-lived process is not known. Lookups find live processes only
  (`utils.rs:94`, :137, `events.rs:372`). When the exit of a process was drained
  before its event is processed, the event has no tgid, ppid and chain, although
  `README.md:135-138` says of processes that are usually gone that "pid/tgid/ppid/chain
  are complete". `TopologyKnown` states what does hold: they are, of a process that
  still runs. TLC refutes `\A i \in DOMAIN stream : ~overrun => stream[i].known`.
* A failed write loses the event. `file_writer.rs:160` returns the error before
  `disk_buf` is reached; only a failed *open* buffers, while :136 says that the event
  is buffered for retry when the disk is full, and `CHANGELOG.md:864` likewise. In
  `Accounted` it is one of the reasons for which an event may be `lost`.
* The shutdown loses events. The writer task is not awaited (`init.rs:462`), and
  what is in `disk_buf` is not written when it ends (`file_writer.rs:112`); :214
  speaks of no data lost, `CHANGELOG.md:838` of draining and syncing before the exit.
  This is another of `Accounted`'s reasons.
* A remove names the global cmd `_global` and is compared with `None`, and pending
  registrations are not looked at: the daemon answers and goes on monitoring
  (`socket_handler.rs:173`; `help.rs:119` says that remove manages paths without a
  restart). `Registrations` therefore lets an answered remove leave its pair.
* A failed `dup` leaves a group with no reader, no notice and an unchanged
  `ReaderState`, so that health says alive (`reader.rs:82`; :205 and :20 promise
  an accurate status). `HealthAccurate` leaves those groups out.
* `poll` interrupted by a signal counts as a time-out, and a healthy factory is
  killed for good (`factory.rs:412`; :747 and :754 speak of a wedged one).
* `clean/core.rs:25` makes a backup to prevent data loss when the rename fails; the
  errors of the copy are ignored, and the restore renames the copy, which may be
  partial and lacks what was appended since, over the log that was still whole.

Seen while modelling, part of the models, and promised otherwise nowhere: a
second temporary mark of a target leaks the first one's reference
(`temp_marks.rs:105`; hence `RefsCovered` is an inequality); a retry of a pending
copy adds a duplicate entry (`dir_watcher.rs:326`); `SocketCmd::Add` removes the
old pair before the new one is known to be possible (`socket_handler.rs:146`); a
removed group's reader keeps its descriptor (`reader.rs:73`); `restart_count` is
never reset (`reader.rs:196`); events written while a clean runs are lost with
the file it replaces (`clean/core.rs:120`).

Also seen: between the deletion of a root and its recreation, events that the
temporary mark on the parent captures are matched with the pending entry
(`events.rs:482`, and the comment at :468 says why) but then dropped, because
`is_path_in_scope_for_opts` (`filtering.rs:45`) looks at the monitored entries
only. `NoneMissed` therefore leaves out the events processed in that window; with
that exception removed TLC finds the loss in nine steps.

Of the tree: `decode_events` drops a rename whose source is unknown
(`fid_parser.rs:256`) although `DecodedEvent` says that either side may be
missing; the time to live of a cache entry runs from its insertion, not from its
last access (`fid_parser.rs:280`); the list of inotify watches never shrinks, its
first entry for a descriptor wins, and a path that is in it stops
`watch_recursive`, so that a renamed directory keeps its old path; a root added
live has no inotify watch until `setup_inotify_watches` runs again; `max_depth` is
counted anew from a directory made later, and is then the least of the entries
that have one (`dir_watcher.rs:246-252`), while the comment above it wants a limit
only if all have one; the counter of unresolved renames is never incremented.

Of query and clean: a line that does not parse, that is longer than 4096 bytes, or
whose cut characters `from_utf8_lossy` replaces by longer ones, sends the binary
search past valid events (hence `Regular` in `QueryComplete`); the break at
`until` is only reached by events the filter has dropped; a clean between two opens
of a query makes it miss events or fail in `read_exact`; a trim whose target lies
in the first line drops that line; a size filter `<` or `<=` never trims anything
useful.

Of clients and socket: the temporary file has one name for all clients and the
store no lock, so that two commands at once lose an update or tear the file
(`mixed` and `fresh` mark these histories); two commands on one entry may be heard
in the other order than they saved; a connection dropped by `select!` is reported
to the user as `Entry added`; an idle connection holds the accept branch until
another branch completes; a subscriber gone before its first line is counted for
ever (`socket_handler.rs:294`), and one gone later until the next event it asked
for; `fsmon remove CMD` without `--path` saves the store and sends nothing to the
daemon (`remove.rs:28`, :61), and is none of the commands of `ControlSocket`.

## 7 Not modelled

`PROJECT.json` lists every component with its status. Left out for good: the
seccomp filter's contents, byte formats (FID records, netlink messages, JSON),
the metrics other than the subscribers' gauge, watchdog datagrams, capability
calls, permission checks, configuration parsing, help texts. These are data or
straight-line I/O without orderings to explore. Left out so far: the filters on
types and sizes, the file-size cache, what the resolver teaches the handle cache,
the fallback to device 0 when the metadata of a path cannot be read
(`live_path.rs:136`, `init.rs:176`), the daemon's refusal of forbidden paths
(`socket_handler.rs:130`; `add.rs:49` and :56 make the same test before anything is
saved or sent, so that no client's command meets it), process ids that are used again, directories
that cross the border of a monitored tree, the inotify watches of pending
parents, and a loss of power (`fdatasync`). External code is modelled from its use: the slot map (keys never
reused), the file system and the queues of fanotify and inotify, tokio's broadcast channel (a lagging receiver loses the oldest events),
`BufWriter`, `poll` and SIGKILL, the process connector, and the tracker library.

## 8 Plan

Done: registry with its abstract specification and the refinement, reader
supervision, factory, log writer, event pipeline with the process tracker,
directory tree, query and clean, clients and control socket; theorems for every
invariant and action property of their runs.

Worth adding, in this order:

1. A composition of registry and reader supervision over the shared group table,
   in which a removed group's reader is still there.
2. An abstract specification of the tree (a map from directories to places that
   catches up) that `TreeMarks` implements.
3. The filters on types and sizes and the file-size cache in the pipeline, and
   process ids that are used again in the tracker.
