-------------------------- MODULE MonitorRegistry --------------------------
(***************************************************************************)
(* The registry of the fsmon daemon: which (path, cmd) registrations are   *)
(* active, which are pending until their directory appears, and which      *)
(* fanotify group each watched directory uses (src/common/monitor/         *)
(* live_path.rs, temp_marks.rs, dir_watcher.rs, events.rs,                 *)
(* socket_handler.rs, init.rs), driven by the command line clients that    *)
(* edit the store and talk to the socket (src/bin/fsmon/commands) and by a *)
(* file system that creates and deletes the watched directories meanwhile. *)
(*                                                                         *)
(* The daemon's main loop runs one handler at a time.  A handler that      *)
(* touches the group table several times, or that loops, is split into the *)
(* steps that `pc' orders; the clients and the file system interleave with *)
(* them, as they do with the code.                                         *)
(*                                                                         *)
(* A path stands for its canonical form.  When it does not exist, its      *)
(* nearest existing ancestor is one fixed directory, on the device         *)
(* AncestorDev[p].  Masks, depths and filters are abstracted away.         *)
(***************************************************************************)
EXTENDS Naturals, Sequences, FiniteSets

CONSTANTS
    Path,         \* the directories that may be monitored
    Cmd,          \* the process names of cmd groups other than the global one
    Device,       \* the file systems (st_dev)
    DevOf,        \* the device of each path
    AncestorDev,  \* the device of each path's nearest existing ancestor
    LogPath,      \* the paths that overlap the daemon's log directory
    MaxGroups,    \* bound: groups created since the daemon started
    MaxRefs,      \* bound: ref_count of a group
    MaxCopies,    \* bound: copies of a registration that wait before a new one
    MaxClients,   \* bound: commands in flight
    MaxBatch,     \* bound: self-deletion events in one inotify read
    RaceWindow,   \* may a path vanish between two tests of one handler?
    MayCrash      \* may the daemon be killed and restarted?

None   == "None"     \* PathOptions.cmd / PathEntry.cmd = None
Global == "_global"  \* CMD_GLOBAL, the name the store and the clients use

OptCmd   == Cmd \cup {None}           \* cmd of a monitored entry
StoreCmd == Cmd \cup {Global}         \* cmd of a store line or a client command
EntryCmd == Cmd \cup {None, Global}   \* cmd of a PathEntry

Key   == 1..MaxGroups
NoKey == 0
NoDev == "none"      \* no group was ever stored under the key

Request == [op : {"add", "remove", "rollback"}, path : Path, cmd : StoreCmd]

ASSUME RegistryAssumption ==
    /\ IsFiniteSet(Path)
    /\ None \notin Cmd /\ Global \notin Cmd
    /\ DevOf \in [Path -> Device]
    /\ AncestorDev \in [Path -> Device]
    /\ LogPath \subseteq Path
    /\ MaxGroups \in Nat /\ MaxRefs \in Nat /\ MaxCopies \in Nat /\ MaxClients \in Nat
    /\ MaxBatch \in Nat
    /\ RaceWindow \in BOOLEAN /\ MayCrash \in BOOLEAN

VARIABLES
    fs,        \* the paths that exist now
    selfGone,  \* the paths with a queued inotify DELETE_SELF or MOVE_SELF
    store,     \* monitored.jsonl: a set of <<path, cmd>>
    requests,  \* client commands in flight
    entries,   \* monitored_entries: copies of each (path, cmd)
    paths,     \* paths (and canonical_paths)
    p2g,       \* path_to_group; NoKey where the map has no entry
    temp,      \* temp_parent_marks: the group key of each target, or NoKey
    pending,   \* pending_paths: copies of each (path, PathEntry.cmd)
    groups,    \* the live keys of the group slot map
    ref,       \* FsGroup.ref_count
    dev,       \* FsGroup.dev_id
    nextKey,   \* the key the slot map gives out next (it never reuses one)
    pc,        \* where the running handler stands
    again,     \* will the main loop call check_pending once more?
    todo,      \* registrations the running loop has still to visit
    still,     \* check_pending's still_pending
    gone,      \* deleted roots the running handler has still to move
    work       \* paths reload_config has still to remove

fsVars    == <<fs, selfGone>>
cliVars   == <<store, requests>>
regVars   == <<entries, paths, p2g>>
groupVars == <<groups, ref, dev, nextKey>>
ctlVars   == <<pc, again, todo, still, gone, work>>
vars == <<fs, selfGone, store, requests, entries, paths, p2g, temp, pending,
          groups, ref, dev, nextKey, pc, again, todo, still, gone, work>>

-----------------------------------------------------------------------------
(* Bags of registrations: how often each (path, cmd) occurs in a vector.   *)

Zero(C)       == [p \in Path |-> [c \in C |-> 0]]
Plus(b, p, c) == [b EXCEPT ![p][c] = @ + 1]
Has(b, p)     == \E c \in DOMAIN b[p] : b[p][c] > 0

(* PathOptions::try_from: the store's name of the global group becomes None. *)
Normalise(c) == IF c = Global THEN None ELSE c

(* Monitored::flatten, as a bag; the daemon start normalises the cmd, a    *)
(* reload does not.                                                        *)
StartBag  == [p \in Path |-> [c \in EntryCmd |->
                IF \E s \in StoreCmd : <<p, s>> \in store /\ Normalise(s) = c
                THEN 1 ELSE 0]]
ReloadBag == [p \in Path |-> [c \in EntryCmd |->
                IF <<p, c>> \in store THEN 1 ELSE 0]]
StorePaths == {p \in Path : \E c \in StoreCmd : <<p, c>> \in store}

TypeOK ==
    /\ fs \subseteq Path /\ selfGone \subseteq Path
    /\ store \subseteq Path \X StoreCmd
    /\ requests \subseteq Request
    /\ entries \in [Path -> [OptCmd -> Nat]]
    /\ paths \subseteq Path
    /\ p2g \in [Path -> Key \cup {NoKey}]
    /\ temp \in [Path -> Key \cup {NoKey}]
    /\ pending \in [Path -> [EntryCmd -> Nat]]
    /\ groups \subseteq Key
    /\ ref \in [Key -> Nat]
    /\ dev \in [Key -> Device \cup {NoDev}]
    /\ nextKey \in 1..(MaxGroups + 1)
    /\ pc \in {"down", "boot", "idle", "begin", "check", "cleanup", "unroot",
               "tempMark", "reloadAdd", "reloadRemove"}
    /\ again \in BOOLEAN
    /\ todo \in [Path -> [EntryCmd -> Nat]]
    /\ still \in [Path -> [EntryCmd -> Nat]]
    /\ gone \in Seq(Path)
    /\ work \subseteq Path

-----------------------------------------------------------------------------
(* The group table.                                                        *)

GroupOn_Any(d) == groups        \* mutation: the device is not compared

GroupOn(d) == {k \in groups : dev[k] = d}

JoinGroup_Uncounted(k) ==       \* mutation: no ref_count += 1
    UNCHANGED groupVars

(* ref_count += 1 on a group that is already open for the device. *)
JoinGroup(k) ==
    /\ ref[k] < MaxRefs
    /\ ref' = [ref EXCEPT ![k] = @ + 1]
    /\ UNCHANGED <<groups, dev, nextKey>>

(* The factory creates a group; it is inserted with ref_count 1.  Its      *)
(* reader task is the subject of ReaderSupervisor.                         *)
CreateGroup(d) ==
    /\ nextKey \in Key
    /\ groups' = groups \cup {nextKey}
    /\ ref' = [ref EXCEPT ![nextKey] = 1]
    /\ dev' = [dev EXCEPT ![nextKey] = d]
    /\ nextKey' = nextKey + 1

AcquireGroup(d, k) ==
    \/ k \in GroupOn(d) /\ JoinGroup(k)
    \/ GroupOn(d) = {} /\ k = nextKey /\ CreateGroup(d)

ReleaseGroup_Early(k) ==        \* mutation: removed one reference too soon
    /\ ref' = [ref EXCEPT ![k] = IF @ > 0 THEN @ - 1 ELSE 0]
    /\ groups' = IF ref[k] <= 2 THEN groups \ {k} ELSE groups
    /\ UNCHANGED <<dev, nextKey>>

(* ref_count.saturating_sub(1); the group leaves the table at zero. *)
ReleaseGroup(k) ==
    /\ ref' = [ref EXCEPT ![k] = IF @ > 0 THEN @ - 1 ELSE 0]
    /\ groups' = IF ref[k] <= 1 THEN groups \ {k} ELSE groups
    /\ UNCHANGED <<dev, nextKey>>

-----------------------------------------------------------------------------
(* Monitor::add_path, called with the entries `ents' for the PathEntry     *)
(* (p, c).  Every action below says how the call returns.                  *)

AddCmd(ents, p, c) ==            \* Ok: the path is monitored already
    /\ p \in paths
    /\ entries' = Plus(ents, p, Normalise(c))
    /\ UNCHANGED <<paths, p2g, pending, groupVars>>

AddPending(ents, p, c) ==        \* Ok: wait until the path is created
    /\ p \notin paths /\ p \notin LogPath /\ p \notin fs
    /\ pending' = IF pending[p][c] > 0 THEN pending ELSE Plus(pending, p, c)
    /\ entries' = ents
    /\ UNCHANGED <<paths, p2g, groupVars>>

AddMonitored(ents, p, c) ==      \* Ok: join or create the device's group
    /\ p \notin paths /\ p \notin LogPath /\ p \in fs
    /\ \E k \in Key :
         /\ AcquireGroup(DevOf[p], k)
         /\ p2g' = [p2g EXCEPT ![p] = k]
    /\ paths' = paths \cup {p}
    /\ entries' = Plus(ents, p, Normalise(c))
    /\ UNCHANGED pending

AddOk(ents, p, c) ==
    AddCmd(ents, p, c) \/ AddPending(ents, p, c) \/ AddMonitored(ents, p, c)

(* Err: the options do not parse, or no group could be opened. *)
AddTransient(ents, p) ==
    /\ \/ p \in paths
       \/ p \notin LogPath /\ p \in fs
    /\ entries' = ents
    /\ UNCHANGED <<paths, p2g, pending, groupVars>>

(* Err: the path overlaps the log directory. *)
AddPermanent(ents, p) ==
    /\ p \notin paths /\ p \in LogPath
    /\ entries' = ents
    /\ UNCHANGED <<paths, p2g, pending, groupVars>>

(* Monitor::remove_path, for the entries of p whose cmd is in sel.         *)
RemovePath(p, sel) ==
    LET left == [c \in OptCmd |-> IF c \in sel THEN 0 ELSE entries[p][c]]
        other == \E c \in OptCmd : left[c] > 0
    IN  /\ entries' = [entries EXCEPT ![p] = left]
        /\ IF other \/ p \notin paths \/ left = entries[p]
           THEN UNCHANGED <<paths, p2g, groupVars>>
           ELSE /\ paths' = paths \ {p}
                /\ p2g' = [p2g EXCEPT ![p] = NoKey]
                /\ IF p2g[p] = NoKey THEN UNCHANGED groupVars
                                     ELSE ReleaseGroup(p2g[p])

-----------------------------------------------------------------------------
(* The file system.  A deleted directory queues DELETE_SELF when an        *)
(* inotify watch is on it, which is not always so.  The daemon never looks  *)
(* whether a path that overlaps the log directory exists: it is refused    *)
(* first, so fs leaves these paths out.                                    *)

FsCreate(p) ==
    /\ p \notin fs \cup LogPath
    /\ fs' = fs \cup {p}
    /\ UNCHANGED <<selfGone, cliVars, regVars, temp, pending, groupVars, ctlVars>>

FsDelete(p) ==
    /\ p \in fs
    /\ fs' = fs \ {p}
    /\ selfGone' \in {selfGone, selfGone \cup {p}}
    /\ UNCHANGED <<cliVars, regVars, temp, pending, groupVars, ctlVars>>

(* The clients: fsmon add and fsmon remove save the store, then send the   *)
(* command to the daemon.  fsmon remove without --path sends nothing.      *)

(* The bound on the copies of a registration that wait, in both spellings. *)
Room(p, c) ==
    pending[p][c] + (IF c = None THEN pending[p][Global] ELSE 0) < MaxCopies

daemonVars == <<regVars, temp, pending, groupVars, ctlVars>>

CliAdd(p, c) ==
    /\ Cardinality(requests) < MaxClients
    /\ store' = store \cup {<<p, c>>}
    /\ requests' = requests \cup {[op |-> "add", path |-> p, cmd |-> c]}
    /\ UNCHANGED <<fsVars, daemonVars>>

CliRemove(p, c) ==
    /\ Cardinality(requests) < MaxClients
    /\ <<p, c>> \in store
    /\ store' = store \ {<<p, c>>}
    /\ requests' = requests \cup {[op |-> "remove", path |-> p, cmd |-> c]}
    /\ UNCHANGED <<fsVars, daemonVars>>

CliRemoveGroup(c) ==
    /\ \E p \in Path : <<p, c>> \in store
    /\ store' = {s \in store : s[2] # c}
    /\ UNCHANGED <<requests, fsVars, daemonVars>>

(* A permanent error makes the client take its entry out of the store. *)
CliRollback(m) ==
    /\ m.op = "rollback"
    /\ store' = store \ {<<m.path, m.cmd>>}
    /\ requests' = requests \ {m}
    /\ UNCHANGED <<fsVars, daemonVars>>

(* No daemon answers: there is none, or its main loop took up another      *)
(* event while the command was still being read, which drops the           *)
(* connection.  The store stays as the client left it.                     *)
CliUnanswered(m) ==
    /\ pc \in {"down", "idle"} /\ m.op # "rollback"
    /\ requests' = requests \ {m}
    /\ UNCHANGED <<store, fsVars, daemonVars>>

-----------------------------------------------------------------------------
(* Start of the daemon: Monitor::new refuses a store with a path that      *)
(* overlaps the log directory; init_fanotify then visits the paths.        *)

Start ==
    /\ pc = "down"
    /\ StorePaths \cap LogPath = {}
    /\ pc' = "boot"
    /\ todo' = StartBag
    /\ UNCHANGED <<fsVars, cliVars, regVars, temp, pending, groupVars,
                   again, still, gone, work>>

StartEntries_Raw(p) == todo[p]  \* mutation: the cmd is not a PathOptions cmd

StartEntries(p) == [c \in OptCmd |-> todo[p][c]]

InitPath(p) ==
    /\ pc = "boot" /\ Has(todo, p)
    /\ todo' = [todo EXCEPT ![p] = Zero(EntryCmd)[p]]
    /\ \/ /\ p \notin fs
          /\ pending' = [pending EXCEPT ![p] = todo[p]]
          /\ UNCHANGED <<regVars, groupVars>>
       \/ /\ p \in fs
          /\ paths' = paths \cup {p}
          /\ entries' = [entries EXCEPT ![p] = StartEntries(p)]
          /\ \/ \E k \in Key : /\ AcquireGroup(DevOf[p], k)
                               /\ p2g' = [p2g EXCEPT ![p] = k]
             \/ UNCHANGED <<p2g, groupVars>>     \* it cannot be opened or marked
          /\ UNCHANGED pending
    /\ UNCHANGED <<fsVars, cliVars, temp, pc, again, still, gone, work>>

InitDone ==
    /\ pc = "boot" /\ todo = Zero(EntryCmd)
    /\ pc' = "idle"
    /\ UNCHANGED <<fsVars, cliVars, regVars, temp, pending, groupVars,
                   again, todo, still, gone, work>>

(* The daemon is killed: all it knew is gone, and every descriptor is      *)
(* closed.                                                                 *)
Crash ==
    /\ MayCrash /\ pc # "down"
    /\ pc' = "down" /\ again' = FALSE
    /\ entries' = Zero(OptCmd) /\ paths' = {}
    /\ p2g' = [p \in Path |-> NoKey] /\ temp' = [p \in Path |-> NoKey]
    /\ pending' = Zero(EntryCmd) /\ todo' = Zero(EntryCmd) /\ still' = Zero(EntryCmd)
    /\ groups' = {} /\ nextKey' = 1
    /\ ref' = [k \in Key |-> 0] /\ dev' = [k \in Key |-> NoDev]
    /\ gone' = <<>> /\ work' = {} /\ selfGone' = {}
    /\ UNCHANGED <<fs, cliVars>>

-----------------------------------------------------------------------------
(* Socket commands (handle_socket_cmd).                                    *)

(* Add takes out the (path, cmd) pair itself; when no other cmd is left it *)
(* calls remove_path, which then finds no entry of the path and fails, so  *)
(* add_path always meets the path as it was.  The refusal of forbidden     *)
(* paths is left out: add.rs makes the same test before it saves and       *)
(* sends, so that no client sends one.                                     *)
SocketAdd(m) ==
    LET p == m.path
        c == Normalise(m.cmd)
        ents == [entries EXCEPT ![p][c] = 0]
    IN  /\ pc = "idle" /\ m.op = "add" /\ Room(p, c)
        /\ \/ /\ AddOk(ents, p, c) \/ AddTransient(ents, p)
              /\ requests' = requests \ {m}
           \/ /\ AddPermanent(ents, p)
              /\ requests' = (requests \ {m}) \cup {[m EXCEPT !.op = "rollback"]}
        /\ UNCHANGED <<fsVars, store, temp, ctlVars>>

(* Remove compares the name as sent: "_global" is not translated. *)
SocketRemove(m) ==
    /\ pc = "idle" /\ m.op = "remove"
    /\ RemovePath(m.path, {m.cmd} \cap OptCmd)
    /\ requests' = requests \ {m}
    /\ UNCHANGED <<fsVars, store, temp, pending, ctlVars>>

-----------------------------------------------------------------------------
(* SIGHUP (reload_config): add the store's paths that are not monitored,   *)
(* then remove the monitored paths that are not in the store.              *)

StartReload ==
    /\ pc = "idle" /\ \A s \in store : s[1] \in paths \/ Room(s[1], Normalise(s[2]))
    /\ pc' = "reloadAdd"
    /\ todo' = ReloadBag
    /\ work' = paths \ StorePaths
    /\ UNCHANGED <<fsVars, cliVars, regVars, temp, pending, groupVars,
                   again, still, gone>>

(* A loop over registrations is done with one copy of (p, c). *)
Visited(p, c) == todo' = [todo EXCEPT ![p][c] = @ - 1]

ReloadAdd(p, c) ==
    /\ pc = "reloadAdd" /\ todo[p][c] > 0
    /\ Visited(p, c)
    /\ \/ p \in paths /\ UNCHANGED <<regVars, pending, groupVars>>
       \/ /\ p \notin paths
          /\ \/ AddOk(entries, p, c)
             \/ AddTransient(entries, p)
             \/ AddPermanent(entries, p)
    /\ UNCHANGED <<fsVars, cliVars, temp, pc, again, still, gone, work>>

ReloadAdded ==
    /\ pc = "reloadAdd" /\ todo = Zero(EntryCmd)
    /\ pc' = "reloadRemove"
    /\ UNCHANGED <<fsVars, cliVars, regVars, temp, pending, groupVars,
                   again, todo, still, gone, work>>

ReloadRemove(p) ==
    /\ pc = "reloadRemove" /\ p \in work
    /\ RemovePath(p, OptCmd)
    /\ work' = work \ {p}
    /\ UNCHANGED <<fsVars, cliVars, temp, pending, pc, again, todo, still, gone>>

ReloadDone ==
    /\ pc = "reloadRemove" /\ work = {}
    /\ pc' = "idle"
    /\ UNCHANGED <<fsVars, cliVars, regVars, temp, pending, groupVars,
                   again, todo, still, gone, work>>

-----------------------------------------------------------------------------
(* A monitored root is gone: it becomes pending, and its nearest ancestor  *)
(* is marked meanwhile.                                                    *)

MoveToPending_Every(p, pushed) ==   \* mutation: every cmd group waits for it
    /\ RemovePath(p, OptCmd)
    /\ pending' = [pending EXCEPT ![p] =
                     [c \in EntryCmd |-> IF c \in OptCmd THEN 1 ELSE @[c]]]

MoveToPending(p, pushed) ==
    /\ RemovePath(p, OptCmd)
    /\ pending' = [pending EXCEPT ![p] =
                     [c \in EntryCmd |-> IF c \in OptCmd THEN pushed[c] ELSE @[c]]]

(* handle_canonical_root_deleted, for a fanotify event whose last path     *)
(* component is the root's: the root may be elsewhere, or exist again.     *)
FanotifyRootGone(p) ==
    /\ pc = "idle" /\ p \in paths
    /\ MoveToPending(p, [c \in OptCmd |-> pending[p][c] + entries[p][c]])
    /\ pc' = "tempMark" /\ gone' = <<p>> /\ again' = TRUE
    /\ UNCHANGED <<fsVars, cliVars, temp, todo, still, work>>

(* handle_inotify_events: one read returns every queued event; a root that *)
(* was moved and then deleted is named twice.                              *)
HandleInotify ==
    /\ pc = "idle" /\ selfGone # {}
    /\ \E n \in 0..MaxBatch : \E s \in [1..n -> selfGone \cap paths] :
         /\ {s[i] : i \in 1..n} = selfGone \cap paths
         /\ gone' = s
         /\ again' = (n > 0)
         /\ pc' = IF n > 0 THEN "unroot" ELSE "begin"
    /\ selfGone' = {}
    /\ UNCHANGED <<fs, cliVars, regVars, temp, pending, groupVars, todo, still, work>>

InotifyRootGone ==
    /\ pc = "unroot"
    /\ LET p == Head(gone)
       IN  MoveToPending(p, [c \in OptCmd |->
             IF pending[p][c] = 0 /\ entries[p][c] > 0 THEN 1 ELSE pending[p][c]])
    /\ pc' = "tempMark"
    /\ UNCHANGED <<fsVars, cliVars, temp, again, todo, still, gone, work>>

(* add_temp_parent_mark, which replaces an earlier mark of the same target *)
(* without releasing it.  It does nothing when the root exists again, when *)
(* no registration waits for it, or when the factory fails.                *)
AddTempParentMark(p) ==
    \/ /\ p \notin fs /\ (Has(pending, p) \/ Has(entries, p))
       /\ \E k \in Key : /\ AcquireGroup(AncestorDev[p], k)
                         /\ temp' = [temp EXCEPT ![p] = k]
    \/ UNCHANGED <<temp, groupVars>>

TempMark ==
    /\ pc = "tempMark"
    /\ AddTempParentMark(Head(gone))
    /\ gone' = Tail(gone)
    /\ pc' = IF Len(gone) > 1 THEN "unroot" ELSE "begin"
    /\ UNCHANGED <<fsVars, cliVars, regVars, pending, again, todo, still, work>>

-----------------------------------------------------------------------------
(* check_pending: after every batch of events and at the end of the two    *)
(* handlers above.                                                         *)

NothingPending == pending = Zero(EntryCmd) /\ \A p \in Path : temp[p] = NoKey

BeginCheck ==
    /\ pc \in {"idle", "begin"} /\ ~NothingPending
    /\ pc' = "check"
    /\ todo' = pending /\ pending' = Zero(EntryCmd) /\ still' = Zero(EntryCmd)
    /\ UNCHANGED <<fsVars, cliVars, regVars, temp, groupVars, again, gone, work>>

SkipCheck ==
    /\ pc = "begin" /\ NothingPending
    /\ pc' = "idle" /\ again' = FALSE
    /\ UNCHANGED <<fsVars, cliVars, regVars, temp, pending, groupVars,
                   todo, still, gone, work>>

(* One attempt per pending path: it stays pending when it does not exist   *)
(* or when add_path fails.                                                 *)
RetryFails_Forget(p, c) ==      \* mutation: the entry is not kept
    /\ p \in fs
    /\ AddTransient(entries, p) \/ AddPermanent(entries, p)
    /\ Visited(p, c) /\ UNCHANGED still

RetryFails(p, c) ==
    /\ p \in fs
    /\ AddTransient(entries, p) \/ AddPermanent(entries, p)
    /\ Visited(p, c) /\ still' = Plus(still, p, c)

Retry(p, c) ==
    /\ pc = "check" /\ todo[p][c] > 0
    /\ \/ /\ p \notin fs
          /\ Visited(p, c) /\ still' = Plus(still, p, c)
          /\ UNCHANGED <<regVars, pending, groupVars>>
       \/ /\ p \in fs
          /\ AddOk(entries, p, c)
          /\ Visited(p, c) /\ UNCHANGED still
       \/ RetryFails(p, c)
    /\ UNCHANGED <<fsVars, cliVars, temp, pc, again, gone, work>>

(* The path existed for check_pending and is deleted before add_path looks *)
(* again: add_path queues it in the vector that check_pending took and     *)
(* will overwrite, and returns Ok.                                         *)
RetryVanished(p, c) ==
    /\ RaceWindow
    /\ pc = "check" /\ todo[p][c] > 0
    /\ p \in fs /\ p \notin paths /\ p \notin LogPath
    /\ fs' = fs \ {p}
    /\ Visited(p, c)
    /\ pending' = IF pending[p][c] > 0 THEN pending ELSE Plus(pending, p, c)
    /\ UNCHANGED <<selfGone, cliVars, regVars, temp, groupVars,
                   pc, again, still, gone, work>>

Retried_Again ==                \* mutation: until every path that exists is added
    /\ pc = "check" /\ todo = Zero(EntryCmd)
    /\ LET more == \E p \in fs : Has(still, p)
       IN  /\ pending' = IF more THEN pending ELSE still
           /\ todo' = IF more THEN still ELSE todo
           /\ pc' = IF more THEN "check" ELSE "cleanup"
    /\ still' = Zero(EntryCmd)
    /\ UNCHANGED <<fsVars, cliVars, regVars, temp, groupVars, again, gone, work>>

Retried ==
    /\ pc = "check" /\ todo = Zero(EntryCmd)
    /\ pending' = still
    /\ still' = Zero(EntryCmd)
    /\ pc' = "cleanup"
    /\ UNCHANGED <<fsVars, cliVars, regVars, temp, groupVars, again, todo, gone, work>>

(* cleanup_temp_parent_marks: the target is monitored again. *)
Cleanup(p) ==
    /\ pc = "cleanup" /\ p \in paths /\ temp[p] # NoKey
    /\ temp' = [temp EXCEPT ![p] = NoKey]
    /\ IF temp[p] \in groups THEN ReleaseGroup(temp[p]) ELSE UNCHANGED groupVars
    /\ UNCHANGED <<fsVars, cliVars, regVars, pending, ctlVars>>

CheckDone_NoCleanup ==          \* mutation: the marks are not cleaned up
    /\ pc = "cleanup"
    /\ pc' = IF again THEN "begin" ELSE "idle"
    /\ again' = FALSE
    /\ UNCHANGED <<fsVars, cliVars, regVars, temp, pending, groupVars,
                   todo, still, gone, work>>

CheckDone ==
    /\ pc = "cleanup" /\ \A p \in paths : temp[p] = NoKey
    /\ pc' = IF again THEN "begin" ELSE "idle"
    /\ again' = FALSE
    /\ UNCHANGED <<fsVars, cliVars, regVars, temp, pending, groupVars,
                   todo, still, gone, work>>

-----------------------------------------------------------------------------
Init ==
    /\ fs \in SUBSET (Path \ LogPath) /\ selfGone = {}
    /\ store = {} /\ requests = {}
    /\ entries = Zero(OptCmd) /\ paths = {}
    /\ p2g = [p \in Path |-> NoKey] /\ temp = [p \in Path |-> NoKey]
    /\ pending = Zero(EntryCmd)
    /\ groups = {} /\ ref = [k \in Key |-> 0] /\ dev = [k \in Key |-> NoDev]
    /\ nextKey = 1
    /\ pc = "down" /\ again = FALSE
    /\ todo = Zero(EntryCmd) /\ still = Zero(EntryCmd)
    /\ gone = <<>> /\ work = {}

(* A step of the handler that is running. *)
HandlerStep ==
    \/ \E p \in Path : InitPath(p) \/ ReloadRemove(p) \/ Cleanup(p)
    \/ \E p \in Path, c \in EntryCmd :
         ReloadAdd(p, c) \/ Retry(p, c) \/ RetryVanished(p, c)
    \/ InitDone \/ ReloadAdded \/ ReloadDone
    \/ InotifyRootGone \/ TempMark
    \/ (pc = "begin" /\ BeginCheck) \/ SkipCheck \/ Retried \/ CheckDone

(* The main loop takes up the next event. *)
LoopStep ==
    \/ \E m \in requests : SocketAdd(m) \/ SocketRemove(m)
    \/ \E p \in Path : FanotifyRootGone(p)
    \/ HandleInotify \/ StartReload \/ (pc = "idle" /\ BeginCheck)

Environment ==
    \/ \E p \in Path : FsCreate(p) \/ FsDelete(p)
    \/ \E p \in Path, c \in StoreCmd : CliAdd(p, c) \/ CliRemove(p, c)
    \/ \E c \in StoreCmd : CliRemoveGroup(c)
    \/ \E m \in requests : CliRollback(m) \/ CliUnanswered(m)
    \/ Start \/ Crash

Next == HandlerStep \/ LoopStep \/ Environment

(* A handler that has begun runs to its end: the main loop does not wait   *)
(* for anything inside it.                                                 *)
Fairness == WF_vars(HandlerStep)

Spec == Init /\ [][Next]_vars /\ Fairness

-----------------------------------------------------------------------------
(* Properties.                                                             *)

Waiting(p, c) ==    \* an unfinished registration of p for the cmd c
    \E e \in EntryCmd :
      /\ Normalise(e) = c
      /\ \/ pending[p][e] > 0
         \/ still[p][e] > 0
         \/ pc \in {"boot", "check"} /\ todo[p][e] > 0

Registered(p, c) == entries[p][c] > 0 \/ Waiting(p, c)

UsesOf(f, k) == {p \in Path : f[p] = k}
Users(k) == UsesOf(p2g, k)    \* the paths in the group
Marks(k) == UsesOf(temp, k)   \* the targets of temporary marks in the group

(* The key of a path or of a temporary mark always names a live group:     *)
(* add_path and remove_path index the slot map with path_to_group's key    *)
(* (self.fanotify.groups[key]), which panics on a dead key.                *)
KeysLive ==
    \A p \in Path : /\ p2g[p] # NoKey => p2g[p] \in groups
                    /\ temp[p] # NoKey => temp[p] \in groups

(* A group's ref_count never undercounts the paths and the temporary marks *)
(* that use it, whatever order of adds, removals, deletions and retries    *)
(* led here.                                                               *)
RefsCovered ==
    \A k \in groups : Cardinality(Users(k)) + Cardinality(Marks(k)) <= ref[k]

(* The table has at most one group per file system, and a path is marked   *)
(* in the group of its own file system: the kernel would refuse the mark   *)
(* on another one.                                                         *)
GroupMatchesDevice ==
    /\ \A k, l \in groups : dev[k] = dev[l] => k = l
    /\ \A p \in Path : p2g[p] # NoKey => dev[p2g[p]] = DevOf[p]

(* A temporary parent mark never outlives what it waits for: its target is *)
(* monitored (and the next check_pending removes the mark) or some         *)
(* registration still waits for it.                                        *)
TempMarkHasTarget ==
    \A p \in Path :
      temp[p] # NoKey => p \in paths \/ \E c \in OptCmd : Waiting(p, c)

(* No handler loses a registration.  One disappears from the monitored     *)
(* entries and the pending ones only when a client's command about that    *)
(* very (path, cmd) is answered, when a reload removes its path, or when   *)
(* the daemon is killed: deletion, recreation, retries and failures of the *)
(* factory only move it.                                                   *)
RegistrationKept ==
    [][ \A p \in Path, c \in OptCmd :
          Registered(p, c) /\ ~Registered(p, c)' =>
            \/ \E m \in requests \ requests' : m.path = p /\ Normalise(m.cmd) = c
            \/ pc = "reloadRemove" /\ p \in work
            \/ pc' = "down" ]_vars

(* Every handler returns to the main loop, however the file system and the *)
(* factory behave: check_pending attempts each pending path once per call. *)
HandlerReturns == pc \notin {"idle", "down"} ~> pc \in {"idle", "down"}
=============================================================================
