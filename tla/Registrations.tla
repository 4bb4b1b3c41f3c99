---------------------------- MODULE Registrations ----------------------------
(***************************************************************************)
(* What the fsmon daemon promises to those who register directories with   *)
(* it, with no word of groups, marks, retries or directories that come and *)
(* go: the daemon has a set of registrations, which changes only on behalf *)
(* of the command line clients and of the store.                           *)
(***************************************************************************)
CONSTANTS
    Path,      \* the directories that may be monitored
    Name       \* the cmd groups, as the store names them

VARIABLES
    store,     \* the registrations in monitored.jsonl
    requests,  \* commands on their way to the daemon
    up,        \* the daemon runs
    reg,       \* the registrations it has, monitored now or when their path appears
    plan,      \* registrations the running reload has read and may still add
    doomed     \* paths the running reload may still remove

vars == <<store, requests, up, reg, plan, doomed>>

Pair    == Path \X Name
Command == [op : {"add", "remove", "rollback"}, path : Path, cmd : Name]
Of(m)   == <<m.path, m.cmd>>

Init ==
    /\ store = {} /\ requests = {}
    /\ up = FALSE /\ reg = {} /\ plan = {} /\ doomed = {}

(* A client edits the store and asks the daemon to follow. *)
Ask(m) ==
    /\ requests' = requests \cup {m}
    /\ \/ m.op = "add" /\ store' = store \cup {Of(m)}
       \/ m.op = "remove" /\ Of(m) \in store /\ store' = store \ {Of(m)}
    /\ UNCHANGED <<up, reg, plan, doomed>>

(* A whole group leaves the store, and the daemon is not told. *)
DropGroup(c) ==
    /\ \E r \in store : r[2] = c
    /\ store' = {r \in store : r[2] # c}
    /\ UNCHANGED <<requests, up, reg, plan, doomed>>

(* A request is lost, or a client undoes what the daemon refused. *)
Unanswered(m) ==
    /\ requests' = requests \ {m}
    /\ \/ m.op # "rollback" /\ UNCHANGED store
       \/ m.op = "rollback" /\ store' = store \ {Of(m)}
    /\ UNCHANGED <<up, reg, plan, doomed>>

(* An answer to a command settles that registration and touches no other;  *)
(* an add that fails leaves none.                                          *)
Answer(m) ==
    /\ up
    /\ \/ requests' = requests \ {m}
       \/ /\ m.op = "add" /\ Of(m) \notin reg'
          /\ requests' = (requests \ {m}) \cup {[m EXCEPT !.op = "rollback"]}
    /\ \/ m.op = "add" /\ reg' \in {reg \cup {Of(m)}, reg \ {Of(m)}}
       \/ m.op = "remove" /\ reg' \in {reg, reg \ {Of(m)}}
    /\ UNCHANGED <<store, up, plan, doomed>>

(* The daemon starts with what the store says, all of it. *)
Start ==
    /\ ~up /\ up' = TRUE
    /\ reg' = store
    /\ UNCHANGED <<store, requests, plan, doomed>>

Crash ==
    /\ up /\ up' = FALSE
    /\ reg' = {} /\ plan' = {} /\ doomed' = {}
    /\ UNCHANGED <<store, requests>>

(* A reload reads the store once; what it adds was in it then, and a path  *)
(* it removes had no line in it then.                                      *)
Reload ==
    /\ up
    /\ plan' = store
    /\ doomed' \in SUBSET {p \in Path : \A c \in Name : <<p, c>> \notin store}
    /\ UNCHANGED <<store, requests, up, reg>>

ReloadAdd(r) ==
    /\ r \in plan
    /\ reg' \in {reg, reg \cup {r}}
    /\ plan' = plan \ {r}
    /\ UNCHANGED <<store, requests, up, doomed>>

ReloadRemove(p) ==
    /\ p \in doomed /\ plan = {}
    /\ reg' \in SUBSET reg /\ \A r \in reg \ reg' : r[1] = p
    /\ doomed' = doomed \ {p}
    /\ UNCHANGED <<store, requests, up, plan>>

Next ==
    \/ \E m \in Command : Ask(m)
    \/ \E c \in Name : DropGroup(c)
    \/ \E m \in requests : Unanswered(m) \/ Answer(m)
    \/ Start \/ Crash \/ Reload
    \/ \E r \in plan : ReloadAdd(r)
    \/ \E p \in doomed : ReloadRemove(p)

Spec == Init /\ [][Next]_vars
=============================================================================
