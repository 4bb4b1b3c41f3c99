------------------------------ MODULE TreeMarks ------------------------------
(***************************************************************************)
(* How the daemon follows the directories below one recursive path:        *)
(* fanotify marks on each of them, the cache from directory handles to     *)
(* paths that the reader decodes events with (src/common/dir_cache.rs,     *)
(* src/common/fid_parser.rs), and inotify watches beside them              *)
(* (src/common/monitor/dir_watcher.rs).  Users make, remove and rename     *)
(* directories while the daemon walks the tree.                            *)
(*                                                                         *)
(* A directory is a number that is never used again, as a file handle is;  *)
(* the path is its place now.  Only what a directory's own creation and    *)
(* renames do is followed: events about files take the same way through    *)
(* the cache and change nothing.  The monitored root <<>> itself stays     *)
(* (MonitorRegistry has its deletion), and nothing crosses its border.     *)
(***************************************************************************)
EXTENDS Naturals, FiniteSets, SequencesExt

CONSTANTS
    Name,       \* names of directories
    Trees,      \* the sets of paths that may exist when the root is added
    Starts,     \* "boot": the root is in the store at startup; "add": fsmon add
    Limit,      \* max_depth of the entry (None: more than MaxDepth)
    Batch,      \* MAX_DIRS_PER_MARK
    Capacity,   \* capacity of the handle cache
    QueueMax,   \* events the kernel keeps for the group
    MaxDepth,   \* bound: length of a path
    MaxOps      \* bound: changes of the file system, failed requests to the
                \* factory and expired entries, together

Path == UNION {[1..n -> Name] : n \in 0..MaxDepth}
Root == <<>>
Dir  == Nat
Nil  == <<>>    \* no record

ASSUME TreeMarksAssumption ==
    /\ Starts \subseteq {"boot", "add"}
    /\ \A t \in Trees : /\ t \subseteq Path /\ IsFiniteSet(t) /\ Root \in t
                        /\ \A p \in t : p # Root => Front(p) \in t
    /\ {Batch, Capacity} \subseteq Nat \ {0}
    /\ {Limit, QueueMax, MaxDepth, MaxOps} \subseteq Nat

VARIABLES
    at,         \* the directory at each path that exists
    next,       \* the next directory's number
    marked,     \* directories with an inode mark
    cache,      \* dir_cache: from directory to path
    shared,     \* shared_dir_cache is Some
    fanq,       \* the group's queue
    reading,    \* the group has a reader task
    chan,       \* decoded: paths that are said to be new directories
    watches,    \* inotify_state.watches: pairs of path and directory
    inoq,       \* the inotify queue
    pc,         \* where the main loop stands
    job,        \* what it walks for: startup, fsmon add or a new directory
    top,        \* on_new_subdirectory: canonical
    todo,       \* mark_recursive_with_depth: queue; its head is current
    pending,    \* pending
    level,      \* pending_depth
    lost,       \* history: directories the daemon lost sight of, see below
    ops

kernel == <<at, next, fanq, inoq>>
walk   == <<job, top, todo, pending, level>>
vars   == <<at, next, marked, cache, shared, fanq, reading, chan, watches,
            inoq, pc, job, top, todo, pending, level, lost, ops>>

Record == {Nil} \cup (Dir \X Name)

TypeOK ==
    /\ DOMAIN at \subseteq Path /\ \A p \in DOMAIN at : at[p] < next
    /\ marked \subseteq 0..next /\ DOMAIN cache \subseteq 0..next
    /\ Cardinality(DOMAIN cache) <= Capacity
    /\ \A d \in DOMAIN cache : cache[d] \in Seq(Name)
    /\ shared \in BOOLEAN /\ reading \in BOOLEAN
    /\ fanq \in Seq([dir : Dir, src : Record, dst : Record, rename : BOOLEAN])
    /\ Len(fanq) <= QueueMax /\ chan \in Seq(Seq(Name))
    /\ watches \in Seq(Path \X Dir) /\ inoq \in Seq(Dir \X Name)
    /\ pc \in {"off", "idle", "cache", "pop", "full", "list", "watch"}
    /\ job \in {"boot", "add", "new"} /\ top \in Seq(Name)
    /\ todo \in Seq(Seq(Name) \X Nat)
    /\ pending \subseteq 0..next /\ Cardinality(pending) <= Batch /\ level \in Nat
    /\ lost \subseteq 0..next /\ ops \in 0..MaxOps

-----------------------------------------------------------------------------
(* The file system and the kernel's queues.                                *)

Below(p)       == {q \in DOMAIN at : IsPrefix(p, q)}
DirsBelow(d)   == {at[q] : q \in UNION {Below(p) : p \in {r \in DOMAIN at : at[r] = d}}}
Children(p)    == {q \in DOMAIN at : q # Root /\ Front(q) = p}
Watched(d)     == \E i \in DOMAIN watches : watches[i][2] = d
Rec(p)         == IF at[Front(p)] \in marked THEN <<at[Front(p)], Last(p)>> ELSE Nil

(* The walk has listed the directory and not marked it yet: nothing tells  *)
(* the daemon what appears in it now.                                      *)
Overlooked(d) == d \in pending /\ ~(pc \in {"full", "list"} /\ Head(todo)[1] \in DOMAIN at
                                    /\ at[Head(todo)[1]] = d)

(* An event goes to the groups with a mark on a parent, if there is room,  *)
(* with a record for each side that is marked; and to inotify.  `tree' is  *)
(* what is lost with it.                                                   *)
Notify(e, q, tree) ==
    LET told == e.src # Nil \/ e.dst # Nil
    IN  /\ fanq' = IF told /\ Len(fanq) < QueueMax THEN Append(fanq, e) ELSE fanq
        /\ inoq' = IF Watched(at[Front(q)]) THEN Append(inoq, <<at[Front(q)], Last(q)>>) ELSE inoq
        /\ lost' = IF Overlooked(at[Front(q)]) \/ (told /\ Len(fanq) = QueueMax)
                   THEN lost \cup tree ELSE lost

MkDir(q) ==
    /\ q # Root /\ q \notin DOMAIN at /\ Front(q) \in DOMAIN at /\ ops < MaxOps
    /\ Notify([dir |-> next, src |-> Rec(q), dst |-> Nil, rename |-> FALSE], q, {next})
    /\ at' = [r \in DOMAIN at \cup {q} |-> IF r = q THEN next ELSE at[r]] /\ next' = next + 1
    /\ ops' = ops + 1
    /\ UNCHANGED <<marked, cache, shared, reading, chan, watches, pc, walk>>

(* The kernel drops the marks; its events change nothing here. *)
RmDir(p) ==
    /\ p # Root /\ Below(p) = {p} /\ ops < MaxOps
    /\ at' = [q \in DOMAIN at \ {p} |-> at[q]]
    /\ marked' = marked \ {at[p]}
    /\ ops' = ops + 1
    /\ UNCHANGED <<next, cache, shared, fanq, reading, chan, watches, inoq, pc, walk, lost>>

(* What the path r below p is when p is called q. *)
Moved(r, p, q) == q \o SubSeq(r, Len(p) + 1, Len(r))

Rename(p, q) ==
    /\ p # Root /\ p \in DOMAIN at /\ q # Root /\ q \notin DOMAIN at
    /\ Front(q) \in DOMAIN at /\ ~IsPrefix(p, q) /\ ops < MaxOps
    /\ LET moved == {Moved(r, p, q) : r \in Below(p)}
       IN  /\ moved \subseteq Path
           /\ at' = [r \in moved \cup (DOMAIN at \ Below(p)) |->
                      at[IF r \in moved THEN Moved(r, q, p) ELSE r]]
    /\ Notify([dir |-> at[p], src |-> Rec(p), dst |-> Rec(q), rename |-> TRUE], q, DirsBelow(at[p]))
    /\ ops' = ops + 1
    /\ UNCHANGED <<next, marked, cache, shared, reading, chan, watches, pc, walk>>

FileSystem ==
    \/ \E q \in Path : MkDir(q)
    \/ \E p \in DOMAIN at : RmDir(p)
    \/ \E p, q \in Path : Rename(p, q)

-----------------------------------------------------------------------------
(* DirCache.                                                               *)

Insert_Late(d, p) ==            \* mutation: > instead of >=
    \E c \in IF Cardinality(DOMAIN cache) > Capacity THEN DOMAIN cache ELSE {d} :
      cache' = [x \in {d} \cup (DOMAIN cache \ {c}) |-> IF x = d THEN p ELSE cache[x]]

(* insert: a full cache drops some entry first, also for a handle that it  *)
(* has already.                                                            *)
Insert(d, p) ==
    \E c \in IF Cardinality(DOMAIN cache) >= Capacity THEN DOMAIN cache ELSE {d} :
      cache' = [x \in {d} \cup (DOMAIN cache \ {c}) |-> IF x = d THEN p ELSE cache[x]]

(* with_path: an entry past its time to live is no entry. *)
Expire(d) ==
    /\ d \in DOMAIN cache /\ ops < MaxOps
    /\ cache' = [x \in DOMAIN cache \ {d} |-> cache[x]]
    /\ lost' = lost \cup {d}
    /\ ops' = ops + 1
    /\ UNCHANGED <<kernel, marked, shared, reading, chan, watches, pc, walk>>

-----------------------------------------------------------------------------
(* The reader: decode_events, and the half of expand_renames that is about *)
(* the new place.  A creation or rename whose own directory is not in the  *)
(* cache is dropped, a target that is not leaves half of the rename.  The  *)
(* library may also tell the cache what it resolved, or that a handle is   *)
(* stale (DirCacheStore); when it does is its own affair and left out.     *)

Known(r)     == r # Nil /\ r[1] \in DOMAIN cache
Resolve(r)   == Append(cache[r[1]], r[2])
NewPlace(e)  == IF e.rename THEN e.dst ELSE e.src
Decodes(e)   == Known(e.src) /\ Known(NewPlace(e))

Read ==
    /\ reading /\ fanq # <<>>
    /\ LET e == Head(fanq)
       IN  /\ chan' = IF Decodes(e) THEN Append(chan, Resolve(NewPlace(e))) ELSE chan
           /\ lost' = IF Decodes(e) THEN lost ELSE lost \cup DirsBelow(e.dir)
    /\ fanq' = Tail(fanq)
    /\ UNCHANGED <<at, next, inoq, marked, cache, shared, reading, watches, pc, walk, ops>>

-----------------------------------------------------------------------------
(* Starting to monitor the root.                                           *)

(* At startup init_fanotify watches the roots, creates the group and marks *)
(* the root, and walks; spawn_tasks sets shared_dir_cache after that.      *)
StartUp ==
    /\ job = "boot" /\ pc = "off"
    /\ watches' = <<<<Root, at[Root]>>>>
    /\ marked' = {at[Root]} /\ todo' = <<<<Root, 0>>>> /\ level' = 0 /\ pc' = "pop"
    /\ UNCHANGED <<kernel, cache, shared, reading, chan, job, top, pending, lost, ops>>

(* add_path, on a group that exists and is read, or on a new one. *)
AddPath ==
    /\ job = "add" /\ pc = "off"
    /\ marked' = {at[Root]} /\ todo' = <<<<Root, 0>>>> /\ level' = 0 /\ pc' = "pop"
    /\ UNCHANGED <<kernel, cache, shared, reading, chan, watches, job, top, pending, lost, ops>>

(* setup_inotify_watches runs again with the next pending path, and only   *)
(* looks at the roots.                                                     *)
SetupWatches ==
    /\ pc = "idle" /\ \A i \in DOMAIN watches : watches[i][1] # Root
    /\ watches' = Append(watches, <<Root, at[Root]>>)
    /\ UNCHANGED <<kernel, marked, cache, shared, reading, chan, pc, walk, lost, ops>>

-----------------------------------------------------------------------------
(* mark_recursive_with_depth.                                              *)

Current == Head(todo)[1]
Depth   == Head(todo)[2]

(* flush_pending_marks: an error is discarded; the factory may have got    *)
(* some of the way.                                                        *)
Flush ==
    /\ \E done \in IF ops < MaxOps THEN SUBSET pending ELSE {pending} :
         /\ marked' = marked \cup (done \cap {at[p] : p \in DOMAIN at})
         /\ lost' = lost \cup (pending \ done)
         /\ ops' = IF done = pending THEN ops ELSE ops + 1
    /\ pending' = {}

(* The level above is complete, or the walk is. *)
FlushLevel ==
    /\ pc = "pop" /\ pending # {} /\ (todo # <<>> => Depth # level)
    /\ Flush
    /\ UNCHANGED <<kernel, cache, shared, reading, chan, watches, pc, job, top, todo, level>>

Skip ==
    /\ pc = "pop" /\ todo # <<>> /\ (pending = {} \/ Depth = level)
    /\ Depth > Limit \/ Current \notin DOMAIN at
    /\ level' = Depth /\ todo' = Tail(todo)
    /\ UNCHANGED <<kernel, marked, cache, shared, reading, chan, watches, pc, job, top, pending,
                   lost, ops>>

(* What the cache gains and drops. *)
Remember(d) ==
    IF shared
    THEN /\ Insert(d, Current)
         /\ lost' = (lost \ (IF Depth > 0 \/ d \in marked THEN {d} ELSE {}))
                      \cup (DOMAIN cache \ DOMAIN cache')
    ELSE lost' = lost \cup {d} /\ UNCHANGED cache

OpenDir ==
    /\ pc = "pop" /\ todo # <<>> /\ (pending = {} \/ Depth = level)
    /\ Depth <= Limit /\ Current \in DOMAIN at
    /\ Remember(at[Current])
    /\ level' = Depth
    /\ pending' = IF Depth > 0 THEN pending \cup {at[Current]} ELSE pending
    /\ pc' = IF Cardinality(pending') >= Batch THEN "full" ELSE "list"
    /\ UNCHANGED <<kernel, marked, shared, reading, chan, watches, job, top, todo, ops>>

FlushFull ==
    /\ pc = "full"
    /\ Flush
    /\ pc' = "list"
    /\ UNCHANGED <<kernel, cache, shared, reading, chan, watches, job, top, todo, level>>

(* read_dir, by the path: what is there now, or nothing. *)
List ==
    /\ pc = "list"
    /\ LET found == SetToSeq(Children(Current))
       IN  todo' = Tail(todo) \o [i \in DOMAIN found |-> <<found[i], Depth + 1>>]
    /\ pc' = "pop"
    /\ UNCHANGED <<kernel, marked, cache, shared, reading, chan, watches, job, top, pending, level,
                   lost, ops>>

(* The end of the walk; a new group gets its reader now. *)
WalkEnd ==
    /\ pc = "pop" /\ todo = <<>> /\ pending = {}
    /\ pc' = IF job = "new" THEN "watch" ELSE "idle"
    /\ shared' = TRUE /\ reading' = TRUE
    /\ UNCHANGED <<kernel, marked, cache, chan, watches, walk, lost, ops>>

-----------------------------------------------------------------------------
(* on_new_subdirectory.                                                    *)

MarkNew_Once(p) ==              \* mutation: a directory that has its mark is left alone
    IF p \notin DOMAIN at \/ at[p] \in marked
    THEN UNCHANGED <<marked, pc, job, top, todo, level, lost, ops>>
    ELSE /\ marked' = marked \cup {at[p]} /\ pc' = "cache"
         /\ job' = "new" /\ top' = p /\ todo' = <<<<p, 0>>>> /\ level' = 0
         /\ UNCHANGED <<lost, ops>>

(* The directory is marked through its descriptor; everything after that   *)
(* goes by the path.                                                       *)
MarkNew(p) ==
    IF p \notin DOMAIN at
    THEN UNCHANGED <<marked, pc, job, top, todo, level, lost, ops>>
    ELSE \/ /\ marked' = marked \cup {at[p]} /\ pc' = "cache"
            /\ job' = "new" /\ top' = p /\ todo' = <<<<p, 0>>>> /\ level' = 0
            /\ UNCHANGED <<lost, ops>>
         \/ /\ ops < MaxOps /\ ops' = ops + 1
            /\ lost' = lost \cup DirsBelow(at[p])
            /\ UNCHANGED <<marked, pc, job, top, todo, level>>

(* process_event_batch *)
TakeEvent ==
    /\ pc = "idle" /\ chan # <<>>
    /\ MarkNew(Head(chan))
    /\ chan' = Tail(chan)
    /\ UNCHANGED <<kernel, cache, shared, reading, watches, pending>>

(* handle_inotify_events: the path of the first watch with the event's     *)
(* descriptor, which a rename leaves behind.                               *)
TakeInotify ==
    /\ pc = "idle" /\ inoq # <<>>
    /\ LET w == SelectSeq(watches, LAMBDA x : x[2] = Head(inoq)[1])
       IN  MarkNew(Append(w[1][1], Head(inoq)[2]))
    /\ inoq' = Tail(inoq)
    /\ UNCHANGED <<at, next, fanq, cache, shared, reading, chan, watches, pending>>

CacheNew ==
    /\ pc = "cache"
    /\ IF top \in DOMAIN at THEN Remember(at[top]) ELSE UNCHANGED <<cache, lost>>
    /\ pc' = "pop"
    /\ UNCHANGED <<kernel, marked, shared, reading, chan, watches, walk, ops>>

(* watch_recursive: a path that is in the list already stops it. *)
WatchNew ==
    /\ pc = "watch"
    /\ LET has  == {watches[i][1] : i \in DOMAIN watches}
           new  == {q \in Below(top) : \A r \in has : ~(IsPrefix(top, r) /\ IsPrefix(r, q))}
           seq  == SetToSeq(new)
       IN  watches' = watches \o [i \in DOMAIN seq |-> <<seq[i], at[seq[i]]>>]
    /\ pc' = "idle"
    /\ UNCHANGED <<kernel, marked, cache, shared, reading, chan, walk, lost, ops>>

-----------------------------------------------------------------------------
Init ==
    /\ \E t \in Trees :
         LET s == SetToSeq(t) IN at = [p \in t |-> CHOOSE i \in DOMAIN s : s[i] = p]
    /\ next = Cardinality(DOMAIN at) + 1
    /\ marked = {} /\ cache = <<>> /\ job \in Starts
    /\ shared = (job = "add") /\ reading \in {FALSE, shared}
    /\ fanq = <<>> /\ chan = <<>> /\ watches = <<>> /\ inoq = <<>>
    /\ pc = "off" /\ top = Root /\ todo = <<>> /\ pending = {} /\ level = 0
    /\ lost = {} /\ ops = 0

Walk == FlushLevel \/ Skip \/ OpenDir \/ FlushFull \/ List \/ WalkEnd

Next ==
    \/ FileSystem
    \/ Read
    \/ \E d \in DOMAIN cache : Expire(d)
    \/ StartUp \/ AddPath \/ SetupWatches
    \/ TakeEvent \/ TakeInotify \/ CacheNew \/ WatchNew
    \/ Walk

Spec == Init /\ [][Next]_vars

-----------------------------------------------------------------------------
(* Properties.                                                             *)

(* The daemon has nothing left to do. *)
AtRest == pc = "idle" /\ reading /\ fanq = <<>> /\ chan = <<>> /\ inoq = <<>>

(* The daemon keeps up with the tree, however creations and renames of     *)
(* directories, of those above and below them too, interleave with its     *)
(* walks and with the decoding of what is queued: when it is at rest,      *)
(* every directory within max_depth has its mark, and the cache has it at  *)
(* the place where it is now.  The only exceptions are the directories in  *)
(* `lost' and what is below them: those that appeared in a directory after *)
(* the walk listed it and before its batch was marked, whose event found   *)
(* the kernel's queue full or a parent's handle missing in the cache,      *)
(* whose mark failed, whose entry expired or was evicted, or that were     *)
(* walked at startup, when the walk has no cache yet.                      *)
TreeFollowed ==
    AtRest =>
      \A p \in DOMAIN at :
        \/ Len(p) > Limit
        \/ \E q \in DOMAIN at : IsPrefix(q, p) /\ at[q] \in lost
        \/ at[p] \in marked /\ at[p] \in DOMAIN cache /\ cache[at[p]] = p

(* What mark_recursive_with_depth says of its cache, "This is what makes   *)
(* every marked directory resolvable later" (fid_parser.rs): in a tree     *)
(* that nobody changes, with room in the cache and nothing expired, every  *)
(* marked directory's handle is in the cache once the daemon runs.         *)
MarkedResolvable ==
    AtRest /\ ops = 0 /\ Cardinality(DOMAIN at) <= Capacity
      => \A p \in DOMAIN at : at[p] \in marked => at[p] \in DOMAIN cache
=============================================================================
