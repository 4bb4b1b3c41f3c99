----------------------- MODULE MonitorRegistryProofs -----------------------
(***************************************************************************)
(* Proofs about MonitorRegistry, for every value of its constants: types,  *)
(* the table of groups, and, as long as no path vanishes between two tests *)
(* of one handler, that registrations are kept and that the registry       *)
(* implements Registrations.                                               *)
(***************************************************************************)
EXTENDS RegistryRefinement, FiniteSetTheorems, SequenceTheorems, TLAPS

-----------------------------------------------------------------------------
(* Type correctness.                                                       *)

(* The handlers that take the head of `gone' find one there. *)
GoneInv == pc \in {"unroot", "tempMark"} => gone # <<>>

TypeInv == TypeOK /\ GoneInv

LEMMA CmdSets ==
    /\ None \in OptCmd /\ None \in EntryCmd
    /\ OptCmd \subseteq EntryCmd /\ StoreCmd \subseteq EntryCmd
    /\ \A c \in EntryCmd : Normalise(c) \in OptCmd
BY DEF OptCmd, EntryCmd, StoreCmd, Normalise

(* Adding a copy keeps a bag a bag. *)
LEMMA PlusType ==
    ASSUME NEW C, NEW b \in [Path -> [C -> Nat]], NEW p \in Path, NEW c \in C
    PROVE  Plus(b, p, c) \in [Path -> [C -> Nat]]
BY DEF Plus

LEMMA ZeroType ==
    ASSUME NEW C PROVE Zero(C) \in [Path -> [C -> Nat]]
BY DEF Zero

LEMMA AcquireType ==
    ASSUME TypeOK, NEW d \in Device, NEW k \in Key, AcquireGroup(d, k)
    PROVE  /\ groups' \subseteq Key /\ ref' \in [Key -> Nat]
           /\ dev' \in [Key -> Device \cup {NoDev}]
           /\ nextKey' \in 1..(MaxGroups + 1)
<1>1. CASE k \in GroupOn(d) /\ JoinGroup(k)
  <2>1. ref[k] + 1 \in Nat
    BY DEF TypeOK
  <2> QED
    BY <1>1, <2>1 DEF JoinGroup, TypeOK
<1>2. CASE CreateGroup(d)
  <2>1. nextKey \in Key /\ nextKey + 1 \in 1..(MaxGroups + 1)
    BY <1>2, RegistryAssumption DEF RegistryAssumption, CreateGroup, Key
  <2>2. groups' \subseteq Key
    BY <1>2, <2>1 DEF CreateGroup, TypeOK
  <2>3. ref' \in [Key -> Nat]
    BY <1>2, <2>1 DEF CreateGroup, TypeOK
  <2>4. dev' \in [Key -> Device \cup {NoDev}]
    BY <1>2, <2>1 DEF CreateGroup, TypeOK
  <2> QED
    BY <1>2, <2>1, <2>2, <2>3, <2>4 DEF CreateGroup
<1> QED
  BY <1>1, <1>2 DEF AcquireGroup

LEMMA ReleaseType ==
    ASSUME TypeOK, NEW k \in Key, ReleaseGroup(k)
    PROVE  /\ groups' \subseteq Key /\ ref' \in [Key -> Nat]
           /\ dev' \in [Key -> Device \cup {NoDev}]
           /\ nextKey' \in 1..(MaxGroups + 1)
BY DEF ReleaseGroup, TypeOK

(* What the type invariant says of the registry and of the group table. *)
RegType ==
    /\ entries \in [Path -> [OptCmd -> Nat]]
    /\ paths \subseteq Path
    /\ p2g \in [Path -> Key \cup {NoKey}]
    /\ pending \in [Path -> [EntryCmd -> Nat]]
    /\ groups \subseteq Key
    /\ ref \in [Key -> Nat]
    /\ dev \in [Key -> Device \cup {NoDev}]
    /\ nextKey \in 1..(MaxGroups + 1)

LEMMA AddPathType ==
    ASSUME TypeOK, NEW p \in Path, NEW c \in EntryCmd,
           NEW ents \in [Path -> [OptCmd -> Nat]],
           AddOk(ents, p, c) \/ AddTransient(ents, p) \/ AddPermanent(ents, p)
    PROVE  RegType'
<1>1. CASE AddCmd(ents, p, c)
  BY <1>1, CmdSets, PlusType DEF AddCmd, TypeOK, RegType, groupVars
<1>2. CASE AddPending(ents, p, c)
  BY <1>2, PlusType DEF AddPending, TypeOK, RegType, groupVars
<1>3. CASE AddMonitored(ents, p, c)
  <2>1. PICK k \in Key : AcquireGroup(DevOf[p], k) /\ p2g' = [p2g EXCEPT ![p] = k]
    BY <1>3 DEF AddMonitored
  <2>2. DevOf[p] \in Device
    BY RegistryAssumption DEF RegistryAssumption
  <2> QED
    BY <1>3, <2>1, <2>2, AcquireType, CmdSets, PlusType
       DEF AddMonitored, TypeOK, RegType
<1>4. CASE AddTransient(ents, p)
  BY <1>4 DEF AddTransient, TypeOK, RegType, groupVars
<1>5. CASE AddPermanent(ents, p)
  BY <1>5 DEF AddPermanent, TypeOK, RegType, groupVars
<1> QED
  BY <1>1, <1>2, <1>3, <1>4, <1>5 DEF AddOk

LEMMA RemovePathType ==
    ASSUME TypeOK, NEW p \in Path, NEW sel, RemovePath(p, sel),
           pending' \in [Path -> [EntryCmd -> Nat]]
    PROVE  RegType'
<1> DEFINE left == [c \in OptCmd |-> IF c \in sel THEN 0 ELSE entries[p][c]]
<1>1. left \in [OptCmd -> Nat]
  BY DEF TypeOK
<1>2. entries' \in [Path -> [OptCmd -> Nat]]
  BY <1>1 DEF RemovePath, TypeOK
<1>3. CASE UNCHANGED <<paths, p2g, groupVars>>
  BY <1>2, <1>3 DEF TypeOK, RegType, groupVars
<1>4. CASE /\ paths' = paths \ {p}
           /\ p2g' = [p2g EXCEPT ![p] = NoKey]
           /\ IF p2g[p] = NoKey THEN UNCHANGED groupVars
                                ELSE ReleaseGroup(p2g[p])
  <2>1. CASE p2g[p] = NoKey
    BY <1>2, <1>4, <2>1 DEF TypeOK, RegType, groupVars
  <2>2. CASE p2g[p] # NoKey
    <3>1. p2g[p] \in Key
      BY <2>2 DEF TypeOK
    <3> QED
      BY <1>2, <1>4, <2>2, <3>1, ReleaseType DEF TypeOK, RegType
  <2> QED
    BY <2>1, <2>2
<1> QED
  BY <1>3, <1>4 DEF RemovePath

(* Everything the type invariant says besides RegType, in two parts. *)
EnvType ==
    /\ fs \subseteq Path /\ selfGone \subseteq Path
    /\ store \subseteq Path \X StoreCmd
    /\ requests \subseteq Request

CtlType ==
    /\ temp \in [Path -> Key \cup {NoKey}]
    /\ pc \in {"down", "boot", "idle", "begin", "check", "cleanup", "unroot",
               "tempMark", "reloadAdd", "reloadRemove"}
    /\ again \in BOOLEAN
    /\ todo \in [Path -> [EntryCmd -> Nat]]
    /\ still \in [Path -> [EntryCmd -> Nat]]
    /\ gone \in Seq(Path)
    /\ work \subseteq Path
    /\ GoneInv

LEMMA TypeParts == TypeInv <=> RegType /\ EnvType /\ CtlType
BY DEF TypeInv, TypeOK, RegType, EnvType, CtlType

LEMMA TypeInit == Init => TypeInv
<1> SUFFICES ASSUME Init PROVE TypeInv
  OBVIOUS
<1>1. RegType
  <2>1. 1 \in 1..(MaxGroups + 1)
    BY RegistryAssumption DEF RegistryAssumption
  <2> QED
    BY <2>1, ZeroType DEF Init, RegType
<1>2. EnvType
  BY DEF Init, EnvType
<1>3. CtlType
  <2>0. again \in BOOLEAN
    BY DEF Init
  <2>1. gone \in Seq(Path) /\ pc = "down" /\ work \subseteq Path
    BY DEF Init
  <2>2. temp \in [Path -> Key \cup {NoKey}]
    BY DEF Init
  <2> QED
    BY <2>0, <2>1, <2>2, ZeroType DEF Init, CtlType, GoneInv
<1> QED
  BY <1>1, <1>2, <1>3, TypeParts

(* The file system and the clients leave the daemon's state alone. *)
LEMMA TypeEnvironment ==
    ASSUME TypeInv,
           \/ \E p \in Path : FsCreate(p) \/ FsDelete(p)
           \/ \E p \in Path, c \in StoreCmd : CliAdd(p, c) \/ CliRemove(p, c)
           \/ \E c \in StoreCmd : CliRemoveGroup(c)
           \/ \E m \in requests : CliRollback(m) \/ CliUnanswered(m)
    PROVE  TypeInv'
<1>1. UNCHANGED daemonVars
  BY DEF FsCreate, FsDelete, CliAdd, CliRemove, CliRemoveGroup, CliRollback,
         CliUnanswered, daemonVars
<1>2. RegType' /\ CtlType'
  BY <1>1, TypeParts DEF daemonVars, regVars, groupVars, ctlVars, RegType, CtlType, GoneInv
<1>3. EnvType'
  <2>1. ASSUME NEW p \in Path, FsCreate(p) \/ FsDelete(p) PROVE EnvType'
    BY <2>1, TypeParts DEF FsCreate, FsDelete, cliVars, EnvType
  <2>2. ASSUME NEW p \in Path, NEW c \in StoreCmd, CliAdd(p, c) \/ CliRemove(p, c)
        PROVE  EnvType'
    BY <2>2, TypeParts DEF CliAdd, CliRemove, fsVars, EnvType, Request
  <2>3. ASSUME NEW c \in StoreCmd, CliRemoveGroup(c) PROVE EnvType'
    BY <2>3, TypeParts DEF CliRemoveGroup, fsVars, EnvType
  <2>4. ASSUME NEW m \in requests, CliRollback(m) \/ CliUnanswered(m) PROVE EnvType'
    BY <2>4, TypeParts DEF CliRollback, CliUnanswered, fsVars, EnvType
  <2> QED
    BY <2>1, <2>2, <2>3, <2>4
<1> QED
  BY <1>2, <1>3 DEF TypeInv, TypeOK, RegType, EnvType, CtlType

LEMMA StoreBagTypes ==
    /\ StartBag \in [Path -> [EntryCmd -> Nat]]
    /\ ReloadBag \in [Path -> [EntryCmd -> Nat]]
    /\ StorePaths \subseteq Path
BY DEF StartBag, ReloadBag, StorePaths

(* Starting, visiting the store's paths, and dying. *)
LEMMA TypeLifecycle ==
    ASSUME TypeInv, Start \/ InitDone \/ Crash \/ \E p \in Path : InitPath(p)
    PROVE  TypeInv'
<1> USE DEF TypeInv, TypeOK
<1>1. CASE Start
  BY <1>1, StoreBagTypes
     DEF Start, fsVars, cliVars, regVars, groupVars, GoneInv
<1>2. CASE InitDone
  BY <1>2 DEF InitDone, fsVars, cliVars, regVars, groupVars, GoneInv
<1>3. CASE Crash
  <2>1. 1 \in 1..(MaxGroups + 1)
    BY RegistryAssumption DEF RegistryAssumption
  <2>2. RegType'
    BY <1>3, <2>1, ZeroType DEF Crash, RegType
  <2>3. EnvType'
    BY <1>3 DEF Crash, EnvType, cliVars
  <2>4. again' \in BOOLEAN
    BY <1>3 DEF Crash
  <2>6. gone' \in Seq(Path)
    BY <1>3 DEF Crash
  <2>5. CtlType'
    BY <1>3, <2>4, <2>6, ZeroType DEF Crash, CtlType, GoneInv
  <2> QED
    BY <2>2, <2>3, <2>5 DEF RegType, EnvType, CtlType
<1>4. ASSUME NEW p \in Path, InitPath(p) PROVE TypeInv'
  <2>1. todo' \in [Path -> [EntryCmd -> Nat]]
    BY <1>4, ZeroType DEF InitPath
  <2>2. EnvType' /\ CtlType'
    BY <1>4, <2>1 DEF InitPath, fsVars, cliVars, EnvType, CtlType, GoneInv
  <2>3. CASE p \notin fs
    <3>1. pending' = [pending EXCEPT ![p] = todo[p]] /\ UNCHANGED <<regVars, groupVars>>
      BY <1>4, <2>3 DEF InitPath
    <3>2. pending' \in [Path -> [EntryCmd -> Nat]]
      BY <3>1
    <3> QED
      BY <2>2, <3>1, <3>2 DEF regVars, groupVars, RegType, EnvType, CtlType
  <2>4. CASE p \in fs
    <3>1. [c \in OptCmd |-> todo[p][c]] \in [OptCmd -> Nat]
      BY CmdSets
    <3>0. /\ entries' = [entries EXCEPT ![p] = [c \in OptCmd |-> todo[p][c]]]
          /\ paths' = paths \cup {p}
      BY <1>4, <2>4 DEF InitPath, StartEntries
    <3>2. entries' \in [Path -> [OptCmd -> Nat]] /\ paths' \subseteq Path
      BY <3>0, <3>1
    <3>3. pending' \in [Path -> [EntryCmd -> Nat]]
      BY <1>4, <2>4 DEF InitPath
    <3>4. CASE UNCHANGED <<p2g, groupVars>>
      BY <2>2, <3>2, <3>3, <3>4 DEF groupVars, RegType, EnvType, CtlType
    <3>5. CASE \E k \in Key : AcquireGroup(DevOf[p], k) /\ p2g' = [p2g EXCEPT ![p] = k]
      <4>1. PICK k \in Key : AcquireGroup(DevOf[p], k) /\ p2g' = [p2g EXCEPT ![p] = k]
        BY <3>5
      <4>2. DevOf[p] \in Device
        BY RegistryAssumption DEF RegistryAssumption
      <4>3. p2g' \in [Path -> Key \cup {NoKey}]
        BY <4>1
      <4> QED
        BY <2>2, <3>2, <3>3, <4>1, <4>2, <4>3, AcquireType DEF RegType, EnvType, CtlType
    <3> QED
      BY <1>4, <2>4, <3>4, <3>5 DEF InitPath
  <2> QED
    BY <2>3, <2>4
<1> QED
  BY <1>1, <1>2, <1>3, <1>4

(* Socket commands. *)
LEMMA TypeSocket ==
    ASSUME TypeInv, NEW m \in requests, SocketAdd(m) \/ SocketRemove(m)
    PROVE  TypeInv'
<1> USE DEF TypeInv, TypeOK
<1>1. m \in Request /\ m.path \in Path /\ m.cmd \in StoreCmd
  BY DEF Request
<1>2. CtlType'
  BY DEF SocketAdd, SocketRemove, ctlVars, CtlType, GoneInv
<1>3. EnvType'
  <2>1. [m EXCEPT !.op = "rollback"] \in Request
    BY <1>1 DEF Request
  <2> QED
    BY <2>1 DEF SocketAdd, SocketRemove, fsVars, EnvType
<1>4. RegType'
  <2>1. CASE SocketAdd(m)
    <3> DEFINE p == m.path
               c == Normalise(m.cmd)
               ents == [entries EXCEPT ![p][c] = 0]
    <3>1. c \in OptCmd /\ c \in EntryCmd
      BY <1>1, CmdSets
    <3>2. ents \in [Path -> [OptCmd -> Nat]]
      BY <1>1, <3>1
    <3>3. AddOk(ents, p, c) \/ AddTransient(ents, p) \/ AddPermanent(ents, p)
      BY <2>1 DEF SocketAdd
    <3> HIDE DEF p, c, ents
    <3>4. p \in Path
      BY <1>1 DEF p
    <3> QED
      BY <3>1, <3>2, <3>3, <3>4, AddPathType
  <2>2. CASE SocketRemove(m)
    BY <1>1, <2>2, RemovePathType DEF SocketRemove
  <2> QED
    BY <2>1, <2>2
<1> QED
  BY <1>2, <1>3, <1>4 DEF RegType, EnvType, CtlType

(* Reloading the store. *)
LEMMA TypeReload ==
    ASSUME TypeInv,
           \/ StartReload \/ ReloadAdded \/ ReloadDone
           \/ \E p \in Path, c \in EntryCmd : ReloadAdd(p, c)
           \/ \E p \in Path : ReloadRemove(p)
    PROVE  TypeInv'
<1> USE DEF TypeInv, TypeOK
<1>1. CASE StartReload \/ ReloadAdded \/ ReloadDone
  BY <1>1, StoreBagTypes
     DEF StartReload, ReloadAdded, ReloadDone, fsVars, cliVars, regVars, groupVars, GoneInv
<1>2. ASSUME NEW p \in Path, NEW c \in EntryCmd, ReloadAdd(p, c) PROVE TypeInv'
  <2>1. todo' \in [Path -> [EntryCmd -> Nat]]
    BY <1>2 DEF ReloadAdd, Visited
  <2>2. EnvType' /\ CtlType'
    BY <1>2, <2>1 DEF ReloadAdd, fsVars, cliVars, EnvType, CtlType, GoneInv
  <2>3. RegType'
    <3>1. CASE UNCHANGED <<regVars, pending, groupVars>>
      BY <3>1 DEF regVars, groupVars, RegType
    <3>2. CASE AddOk(entries, p, c) \/ AddTransient(entries, p) \/ AddPermanent(entries, p)
      BY <3>2, AddPathType
    <3> QED
      BY <1>2, <3>1, <3>2 DEF ReloadAdd
  <2> QED
    BY <2>2, <2>3 DEF RegType, EnvType, CtlType
<1>3. ASSUME NEW p \in Path, ReloadRemove(p) PROVE TypeInv'
  <2>1. EnvType' /\ CtlType'
    BY <1>3 DEF ReloadRemove, fsVars, cliVars, EnvType, CtlType, GoneInv
  <2>2. RegType'
    BY <1>3, RemovePathType DEF ReloadRemove
  <2> QED
    BY <2>1, <2>2 DEF RegType, EnvType, CtlType
<1> QED
  BY <1>1, <1>2, <1>3

(* A deleted root becomes pending. *)
LEMMA MoveToPendingType ==
    ASSUME TypeOK, NEW p \in Path, NEW pushed \in [OptCmd -> Nat],
           MoveToPending(p, pushed)
    PROVE  RegType'
<1> DEFINE row == [c \in EntryCmd |-> IF c \in OptCmd THEN pushed[c] ELSE pending[p][c]]
<1>1. row \in [EntryCmd -> Nat]
  BY DEF TypeOK
<1>2. pending' = [pending EXCEPT ![p] = row]
  BY DEF MoveToPending, TypeOK
<1>3. pending' \in [Path -> [EntryCmd -> Nat]]
  BY <1>1, <1>2 DEF TypeOK
<1> QED
  BY <1>3, RemovePathType DEF MoveToPending

LEMMA TypeRootGone ==
    ASSUME TypeInv,
           HandleInotify \/ InotifyRootGone \/ \E p \in Path : FanotifyRootGone(p)
    PROVE  TypeInv'
<1> USE DEF TypeInv, TypeOK
<1>1. CASE HandleInotify
  <2>0. PICK n \in 0..MaxBatch : \E s \in [1..n -> selfGone \cap paths] :
          /\ gone' = s
          /\ again' = (n > 0)
          /\ pc' = IF n > 0 THEN "unroot" ELSE "begin"
    BY <1>1 DEF HandleInotify
  <2>1. PICK s \in [1..n -> selfGone \cap paths] :
          /\ gone' = s
          /\ again' = (n > 0)
          /\ pc' = IF n > 0 THEN "unroot" ELSE "begin"
    BY <2>0
  <2>2. n \in Nat
    BY RegistryAssumption DEF RegistryAssumption
  <2>3. s \in Seq(Path) /\ Len(s) = n
    BY <2>2
  <2>4. again' \in BOOLEAN
    BY <2>1
  <2>5. GoneInv'
    BY <2>1, <2>2, <2>3 DEF GoneInv
  <2>6. CtlType'
    BY <1>1, <2>1, <2>3, <2>4, <2>5 DEF HandleInotify, CtlType
  <2>7. EnvType' /\ RegType'
    BY <1>1 DEF HandleInotify, EnvType, RegType, cliVars, regVars, groupVars
  <2> QED
    BY <2>6, <2>7 DEF RegType, EnvType, CtlType
<1>2. CASE InotifyRootGone
  <2>1. Head(gone) \in Path
    BY <1>2 DEF InotifyRootGone, GoneInv
  <2> DEFINE p == Head(gone)
             pushed == [c \in OptCmd |->
                IF pending[p][c] = 0 /\ entries[p][c] > 0 THEN 1 ELSE pending[p][c]]
  <2>2. pushed \in [OptCmd -> Nat]
    BY <2>1, CmdSets
  <2>3. MoveToPending(p, pushed)
    BY <1>2 DEF InotifyRootGone
  <2> HIDE DEF pushed
  <2>4. RegType'
    BY <2>1, <2>2, <2>3, MoveToPendingType
  <2>5. EnvType' /\ CtlType'
    BY <1>2 DEF InotifyRootGone, fsVars, cliVars, EnvType, CtlType, GoneInv
  <2> QED
    BY <2>4, <2>5 DEF RegType, EnvType, CtlType
<1>3. ASSUME NEW p \in Path, FanotifyRootGone(p) PROVE TypeInv'
  <2> DEFINE pushed == [c \in OptCmd |-> pending[p][c] + entries[p][c]]
  <2>0. \A c \in OptCmd : pending[p][c] \in Nat /\ entries[p][c] \in Nat
    BY CmdSets
  <2>1. pushed \in [OptCmd -> Nat]
    BY <2>0
  <2>2. MoveToPending(p, pushed)
    BY <1>3 DEF FanotifyRootGone
  <2> HIDE DEF pushed
  <2>3. RegType'
    BY <2>1, <2>2, MoveToPendingType
  <2>4. again' \in BOOLEAN
    BY <1>3 DEF FanotifyRootGone
  <2>5. gone' \in Seq(Path) /\ gone' # <<>>
    BY <1>3 DEF FanotifyRootGone
  <2>6. EnvType' /\ CtlType'
    BY <1>3, <2>4, <2>5 DEF FanotifyRootGone, fsVars, cliVars, EnvType, CtlType, GoneInv
  <2> QED
    BY <2>3, <2>6 DEF RegType, EnvType, CtlType
<1> QED
  BY <1>1, <1>2, <1>3

(* The temporary mark on the ancestor. *)
LEMMA TypeTempMark ==
    ASSUME TypeInv, TempMark PROVE TypeInv'
<1> USE DEF TypeInv, TypeOK
<1>1. gone # <<>> /\ Head(gone) \in Path /\ Tail(gone) \in Seq(Path)
  BY DEF TempMark, GoneInv
<1>2. GoneInv' /\ pc' \in {"unroot", "begin"} /\ gone' \in Seq(Path)
  <2>1. Len(gone) > 1 => Tail(gone) # <<>>
    <3>1. Len(Tail(gone)) = Len(gone) - 1 /\ Len(gone) \in Nat
      BY <1>1
    <3>2. Tail(gone) = <<>> <=> Len(Tail(gone)) = 0
      BY <1>1, EmptySeq
    <3> DEFINE n == Len(gone)
               t == Len(Tail(gone))
    <3> HIDE DEF n, t
    <3>3. n > 1 => t # 0
      <4>1. n \in Nat /\ t = n - 1
        BY <3>1 DEF n, t
      <4> QED
        BY <4>1
    <3> QED
      BY <3>2, <3>3, Zenon DEF n, t
  <2> QED
    BY <1>1, <2>1 DEF TempMark, GoneInv
<1> DEFINE p == Head(gone)
<1>3. CASE UNCHANGED <<temp, groupVars>>
  BY <1>2, <1>3 DEF TempMark, fsVars, cliVars, regVars, groupVars
<1>4. CASE \E k \in Key : AcquireGroup(AncestorDev[p], k) /\ temp' = [temp EXCEPT ![p] = k]
  <2>1. PICK k \in Key : AcquireGroup(AncestorDev[p], k) /\ temp' = [temp EXCEPT ![p] = k]
    BY <1>4
  <2>2. AncestorDev[p] \in Device
    BY <1>1, RegistryAssumption DEF RegistryAssumption
  <2>3. temp' \in [Path -> Key \cup {NoKey}]
    BY <1>1, <2>1
  <2> HIDE DEF p
  <2>4. RegType'
    BY <2>1, <2>2, AcquireType DEF TempMark, regVars, RegType
  <2>5. EnvType' /\ CtlType'
    BY <1>2, <2>3 DEF TempMark, fsVars, cliVars, EnvType, CtlType
  <2> QED
    BY <2>4, <2>5 DEF RegType, EnvType, CtlType
<1> QED
  BY <1>3, <1>4 DEF TempMark, AddTempParentMark

(* check_pending. *)
LEMMA TypeCheck ==
    ASSUME TypeInv,
           \/ BeginCheck \/ SkipCheck \/ Retried \/ CheckDone
           \/ \E p \in Path : Cleanup(p)
           \/ \E p \in Path, c \in EntryCmd : Retry(p, c) \/ RetryVanished(p, c)
    PROVE  TypeInv'
<1> USE DEF TypeInv, TypeOK
<1>1. CASE BeginCheck \/ Retried
  <2>1. Zero(EntryCmd) \in [Path -> [EntryCmd -> Nat]]
    BY ZeroType
  <2>2. CASE BeginCheck
    BY <2>1, <2>2 DEF BeginCheck, fsVars, cliVars, regVars, groupVars, GoneInv
  <2>3. CASE Retried
    BY <2>1, <2>3 DEF Retried, fsVars, cliVars, regVars, groupVars, GoneInv
  <2> QED
    BY <1>1, <2>2, <2>3
<1>2. CASE SkipCheck \/ CheckDone
  <2>1. again' \in BOOLEAN
    BY <1>2 DEF SkipCheck, CheckDone
  <2>2. pc' \in {"begin", "idle"}
    BY <1>2 DEF SkipCheck, CheckDone
  <2> QED
    BY <1>2, <2>1, <2>2
       DEF SkipCheck, CheckDone, fsVars, cliVars, regVars, groupVars, GoneInv
<1>3. ASSUME NEW p \in Path, Cleanup(p) PROVE TypeInv'
  <2>1. temp[p] \in Key /\ temp' \in [Path -> Key \cup {NoKey}]
    BY <1>3 DEF Cleanup
  <2>2. EnvType' /\ CtlType'
    BY <1>3, <2>1 DEF Cleanup, fsVars, cliVars, ctlVars, EnvType, CtlType, GoneInv
  <2>3. RegType'
    <3>1. CASE UNCHANGED groupVars
      BY <1>3, <3>1 DEF Cleanup, regVars, groupVars, RegType
    <3>2. CASE ReleaseGroup(temp[p])
      BY <1>3, <2>1, <3>2, ReleaseType DEF Cleanup, regVars, RegType
    <3> QED
      BY <1>3, <3>1, <3>2 DEF Cleanup
  <2> QED
    BY <2>2, <2>3 DEF RegType, EnvType, CtlType
<1>4. ASSUME NEW p \in Path, NEW c \in EntryCmd, Retry(p, c) PROVE TypeInv'
  <2>1. todo' \in [Path -> [EntryCmd -> Nat]]
    <3>1. Visited(p, c) /\ todo[p][c] > 0
      BY <1>4 DEF Retry, RetryFails
    <3> QED
      BY <3>1 DEF Visited
  <2>2. still' \in [Path -> [EntryCmd -> Nat]]
    <3>1. still' = still \/ still' = Plus(still, p, c)
      BY <1>4 DEF Retry, RetryFails
    <3>2. still \in [Path -> [EntryCmd -> Nat]]
      OBVIOUS
    <3>3. Plus(still, p, c) \in [Path -> [EntryCmd -> Nat]]
      BY <3>2, PlusType
    <3> QED
      BY <3>1, <3>2, <3>3
  <2>3. EnvType' /\ CtlType'
    BY <1>4, <2>1, <2>2 DEF Retry, RetryFails, fsVars, cliVars, EnvType, CtlType, GoneInv
  <2>4. RegType'
    <3>1. CASE UNCHANGED <<regVars, pending, groupVars>>
      BY <3>1 DEF regVars, groupVars, RegType
    <3>2. CASE AddOk(entries, p, c) \/ AddTransient(entries, p) \/ AddPermanent(entries, p)
      BY <3>2, AddPathType
    <3> QED
      BY <1>4, <3>1, <3>2 DEF Retry, RetryFails
  <2> QED
    BY <2>3, <2>4 DEF RegType, EnvType, CtlType
<1>5. ASSUME NEW p \in Path, NEW c \in EntryCmd, RetryVanished(p, c) PROVE TypeInv'
  <2>1. todo' \in [Path -> [EntryCmd -> Nat]]
    BY <1>5 DEF RetryVanished, Visited
  <2>2. pending' \in [Path -> [EntryCmd -> Nat]]
    BY <1>5, PlusType DEF RetryVanished
  <2> QED
    BY <1>5, <2>1, <2>2 DEF RetryVanished, cliVars, regVars, groupVars, GoneInv
<1> QED
  BY <1>1, <1>2, <1>3, <1>4, <1>5

LEMMA TypeNext == TypeInv /\ [Next]_vars => TypeInv'
<1> SUFFICES ASSUME TypeInv, [Next]_vars PROVE TypeInv'
  OBVIOUS
<1>1. CASE UNCHANGED vars
  BY <1>1 DEF vars, TypeInv, TypeOK, GoneInv
<1>2. CASE HandlerStep
  BY <1>2, TypeLifecycle, TypeReload, TypeRootGone, TypeTempMark, TypeCheck DEF HandlerStep
<1>3. CASE LoopStep
  BY <1>3, TypeSocket, TypeReload, TypeRootGone, TypeCheck DEF LoopStep
<1>4. CASE Environment
  BY <1>4, TypeEnvironment, TypeLifecycle DEF Environment
<1> QED
  BY <1>1, <1>2, <1>3, <1>4 DEF Next

(* Every state of the daemon is well typed, and the handlers of deleted    *)
(* roots always find the root they work on (deleted_paths in               *)
(* handle_inotify_events).                                                 *)
THEOREM TypeCorrect == Spec => []TypeOK
<1>1. Init => TypeInv
  BY TypeInit
<1>2. TypeInv /\ [Next]_vars => TypeInv'
  BY TypeNext
<1>3. TypeInv => TypeOK
  BY DEF TypeInv
<1> QED
  BY <1>1, <1>2, <1>3, PTL DEF Spec

-----------------------------------------------------------------------------
(* The group table.  f and t stand for path_to_group and temp_parent_marks *)
(* or the other way round: a reference is counted alike for both.          *)

KeyMap == [Path -> Key \cup {NoKey}]

Live(G, f) == \A p \in Path : f[p] # NoKey => f[p] \in G

Covered(G, R, f, t) ==
    \A k \in G : Cardinality(UsesOf(f, k)) + Cardinality(UsesOf(t, k)) <= R[k]

LEMMA UsesFinite ==
    ASSUME NEW f, NEW k
    PROVE  IsFiniteSet(UsesOf(f, k)) /\ Cardinality(UsesOf(f, k)) \in Nat
<1>1. UsesOf(f, k) \subseteq Path /\ IsFiniteSet(Path)
  BY RegistryAssumption DEF RegistryAssumption, UsesOf
<1>2. IsFiniteSet(UsesOf(f, k))
  BY <1>1, FS_Subset
<1> QED
  BY <1>2, FS_CardinalityType

(* A new reference to k adds at most one use of k, and none of another. *)
LEMMA SetUse ==
    ASSUME NEW f \in KeyMap, NEW p \in Path, NEW k \in Key, NEW j \in Key
    PROVE  LET g == [f EXCEPT ![p] = k]
           IN  Cardinality(UsesOf(g, j)) <=
                 Cardinality(UsesOf(f, j)) + (IF j = k THEN 1 ELSE 0)
<1> DEFINE g == [f EXCEPT ![p] = k]
<1>1. CASE j = k
  <2>1. UsesOf(g, j) = UsesOf(f, j) \cup {p}
    BY <1>1 DEF UsesOf, KeyMap
  <2>2. IsFiniteSet(UsesOf(f, j)) /\ Cardinality(UsesOf(f, j)) \in Nat
    BY UsesFinite
  <2>3. Cardinality(UsesOf(f, j) \cup {p}) =
          IF p \in UsesOf(f, j) THEN Cardinality(UsesOf(f, j))
                                ELSE Cardinality(UsesOf(f, j)) + 1
    BY <2>2, FS_AddElement
  <2> HIDE DEF g
  <2>4. Cardinality(UsesOf(g, j)) <= Cardinality(UsesOf(f, j)) + 1
    BY <2>1, <2>2, <2>3
  <2> QED
    BY <1>1, <2>4 DEF g
<1>2. CASE j # k
  <2>1. UsesOf(g, j) \subseteq UsesOf(f, j)
    BY <1>2 DEF UsesOf, KeyMap
  <2>2. IsFiniteSet(UsesOf(f, j)) /\ Cardinality(UsesOf(f, j)) \in Nat
    BY UsesFinite
  <2> HIDE DEF g
  <2>3. Cardinality(UsesOf(g, j)) <= Cardinality(UsesOf(f, j))
    BY <2>1, <2>2, FS_Subset
  <2> QED
    BY <1>2, <2>2, <2>3 DEF g
<1> QED
  BY <1>1, <1>2

(* Dropping the reference of p to k takes one use from k and none from     *)
(* another key.                                                            *)
LEMMA ClearUse ==
    ASSUME NEW f \in KeyMap, NEW p \in Path, NEW k \in Key, f[p] = k, NEW j \in Key
    PROVE  LET g == [f EXCEPT ![p] = NoKey]
           IN  /\ j = k => Cardinality(UsesOf(g, j)) = Cardinality(UsesOf(f, j)) - 1
               /\ j # k => UsesOf(g, j) = UsesOf(f, j)
<1> DEFINE g == [f EXCEPT ![p] = NoKey]
<1>0. NoKey \notin Key
  BY DEF NoKey, Key
<1>1. CASE j = k
  <2>1. UsesOf(g, j) = UsesOf(f, j) \ {p} /\ p \in UsesOf(f, j)
    BY <1>0, <1>1 DEF UsesOf, KeyMap
  <2> QED
    BY <1>1, <2>1, UsesFinite, FS_RemoveElement
<1>2. CASE j # k
  BY <1>0, <1>2 DEF UsesOf, KeyMap
<1> QED
  BY <1>1, <1>2

LEMMA JoinCovered ==
    ASSUME NEW G \in SUBSET Key, NEW R \in [Key -> Nat],
           NEW f \in KeyMap, NEW t \in KeyMap, NEW p \in Path, NEW k \in G,
           Live(G, f), Covered(G, R, f, t)
    PROVE  LET g == [f EXCEPT ![p] = k]
               S == [R EXCEPT ![k] = @ + 1]
           IN  Live(G, g) /\ Covered(G, S, g, t)
<1> DEFINE g == [f EXCEPT ![p] = k]
           S == [R EXCEPT ![k] = @ + 1]
<1>1. Live(G, g)
  BY DEF Live, KeyMap
<1>2. ASSUME NEW j \in G
      PROVE  Cardinality(UsesOf(g, j)) + Cardinality(UsesOf(t, j)) <= S[j]
  <2>1. Cardinality(UsesOf(f, j)) + Cardinality(UsesOf(t, j)) <= R[j]
    BY DEF Covered
  <2>2. Cardinality(UsesOf(g, j)) <= Cardinality(UsesOf(f, j)) + (IF j = k THEN 1 ELSE 0)
    BY SetUse
  <2>3. S[j] = R[j] + (IF j = k THEN 1 ELSE 0) /\ R[j] \in Nat
    OBVIOUS
  <2> HIDE DEF g, S
  <2> QED
    BY <2>1, <2>2, <2>3, UsesFinite
<1> QED
  BY <1>1, <1>2 DEF Covered

LEMMA CreateCovered ==
    ASSUME NEW G \in SUBSET Key, NEW R \in [Key -> Nat],
           NEW f \in KeyMap, NEW t \in KeyMap, NEW p \in Path, NEW n \in Key, n \notin G,
           Live(G, f), Live(G, t), Covered(G, R, f, t)
    PROVE  LET g == [f EXCEPT ![p] = n]
               S == [R EXCEPT ![n] = 1]
               H == G \cup {n}
           IN  Live(H, g) /\ Live(H, t) /\ Covered(H, S, g, t)
<1> DEFINE g == [f EXCEPT ![p] = n]
           S == [R EXCEPT ![n] = 1]
           H == G \cup {n}
<1>1. Live(H, g) /\ Live(H, t)
  BY DEF Live, KeyMap
<1>2. ASSUME NEW j \in H
      PROVE  Cardinality(UsesOf(g, j)) + Cardinality(UsesOf(t, j)) <= S[j]
  <2>1. CASE j = n
    <3>1. UsesOf(f, n) = {} /\ UsesOf(t, n) = {}
      BY DEF UsesOf, Live, NoKey, Key
    <3>2. Cardinality(UsesOf(f, n)) = 0 /\ Cardinality(UsesOf(t, n)) = 0
      BY <3>1, FS_EmptySet
    <3>3. Cardinality(UsesOf(g, n)) <= Cardinality(UsesOf(f, n)) + 1
      BY SetUse
    <3>4. S[n] = 1
      OBVIOUS
    <3> HIDE DEF g, S
    <3> QED
      BY <2>1, <3>2, <3>3, <3>4, UsesFinite
  <2>2. CASE j # n
    <3>1. j \in G /\ S[j] = R[j] /\ R[j] \in Nat
      BY <2>2
    <3>2. Cardinality(UsesOf(f, j)) + Cardinality(UsesOf(t, j)) <= R[j]
      BY <3>1 DEF Covered
    <3>3. Cardinality(UsesOf(g, j)) <= Cardinality(UsesOf(f, j)) + 0
      BY <2>2, <3>1, SetUse
    <3> HIDE DEF g, S
    <3> QED
      BY <3>1, <3>2, <3>3, UsesFinite
  <2> QED
    BY <2>1, <2>2
<1> HIDE DEF g, S, H
<1>3. Covered(H, S, g, t)
  BY <1>2 DEF Covered
<1> QED
  BY <1>1, <1>3 DEF g, S, H

LEMMA ReleaseCovered ==
    ASSUME NEW G \in SUBSET Key, NEW R \in [Key -> Nat],
           NEW f \in KeyMap, NEW t \in KeyMap, NEW p \in Path, NEW k \in G, f[p] = k,
           Live(G, f), Live(G, t), Covered(G, R, f, t)
    PROVE  LET g == [f EXCEPT ![p] = NoKey]
               S == [R EXCEPT ![k] = IF @ > 0 THEN @ - 1 ELSE 0]
               H == IF R[k] <= 1 THEN G \ {k} ELSE G
           IN  Live(H, g) /\ Live(H, t) /\ Covered(H, S, g, t)
<1> DEFINE g == [f EXCEPT ![p] = NoKey]
           S == [R EXCEPT ![k] = IF @ > 0 THEN @ - 1 ELSE 0]
           H == IF R[k] <= 1 THEN G \ {k} ELSE G
<1>1. /\ Cardinality(UsesOf(g, k)) = Cardinality(UsesOf(f, k)) - 1
      /\ Cardinality(UsesOf(f, k)) + Cardinality(UsesOf(t, k)) <= R[k]
  BY ClearUse DEF Covered
<1>2. R[k] > 0 /\ R[k] \in Nat /\ S[k] = R[k] - 1
  <2>1. /\ Cardinality(UsesOf(g, k)) \in Nat /\ Cardinality(UsesOf(t, k)) \in Nat
        /\ Cardinality(UsesOf(f, k)) \in Nat
    BY UsesFinite
  <2>2. R[k] \in Nat
    OBVIOUS
  <2> HIDE DEF g
  <2>3. R[k] > 0
    BY <1>1, <2>1, <2>2
  <2> QED
    BY <2>2, <2>3
<1>3. R[k] <= 1 => UsesOf(g, k) = {} /\ UsesOf(t, k) = {}
  <2>1. /\ IsFiniteSet(UsesOf(g, k)) /\ Cardinality(UsesOf(g, k)) \in Nat
        /\ IsFiniteSet(UsesOf(t, k)) /\ Cardinality(UsesOf(t, k)) \in Nat
        /\ Cardinality(UsesOf(f, k)) \in Nat
    BY UsesFinite
  <2> HIDE DEF g
  <2>2. R[k] <= 1 => Cardinality(UsesOf(g, k)) = 0 /\ Cardinality(UsesOf(t, k)) = 0
    BY <1>1, <1>2, <2>1
  <2> QED
    BY <2>1, <2>2, FS_EmptySet
<1>4. Live(H, g)
  BY <1>3 DEF Live, KeyMap, UsesOf
<1>5. Live(H, t)
  BY <1>3 DEF Live, KeyMap, UsesOf
<1>6. ASSUME NEW j \in H
      PROVE  Cardinality(UsesOf(g, j)) + Cardinality(UsesOf(t, j)) <= S[j]
  <2>0. j \in G
    OBVIOUS
  <2>1. CASE j = k
    <3> HIDE DEF g, S
    <3> QED
      BY <1>1, <1>2, <2>1, UsesFinite
  <2>2. CASE j # k
    <3>1. UsesOf(g, j) = UsesOf(f, j)
      BY <2>0, <2>2, ClearUse
    <3>2. S[j] = R[j]
      BY <2>0, <2>2
    <3> HIDE DEF g, S
    <3> QED
      BY <2>0, <3>1, <3>2 DEF Covered
  <2> QED
    BY <2>1, <2>2
<1> HIDE DEF g, S, H
<1>7. Covered(H, S, g, t)
  BY <1>6 DEF Covered
<1> QED
  BY <1>4, <1>5, <1>7 DEF g, S, H

-----------------------------------------------------------------------------
(* The inductive invariant: what remove_path and remove_temp_parent_mark   *)
(* rely on, strengthened by the freshness of the slot map's keys.          *)

FreshKeys == \A k \in groups : k < nextKey

TableInv == KeysLive /\ RefsCovered /\ GroupMatchesDevice /\ FreshKeys

(* What any step of the daemon does to the table: nothing, take a          *)
(* reference for a path or a mark, drop one, or start over.                *)
TableVars == <<groups, ref, dev, nextKey, p2g, temp>>

TakeForPath(p, k) ==
    AcquireGroup(DevOf[p], k) /\ p2g' = [p2g EXCEPT ![p] = k] /\ UNCHANGED temp

TakeForMark(p, k) ==
    AcquireGroup(AncestorDev[p], k) /\ temp' = [temp EXCEPT ![p] = k] /\ UNCHANGED p2g

DropPath(p) ==
    /\ p2g[p] # NoKey /\ ReleaseGroup(p2g[p])
    /\ p2g' = [p2g EXCEPT ![p] = NoKey] /\ UNCHANGED temp

DropMark(p) ==
    /\ temp[p] # NoKey /\ ReleaseGroup(temp[p])
    /\ temp' = [temp EXCEPT ![p] = NoKey] /\ UNCHANGED p2g

StartOver ==
    /\ groups' = {}
    /\ p2g' = [p \in Path |-> NoKey] /\ temp' = [p \in Path |-> NoKey]

TableStep ==
    \/ UNCHANGED TableVars
    \/ \E p \in Path : DropPath(p) \/ DropMark(p)
    \/ \E p \in Path, k \in Key : TakeForPath(p, k) \/ TakeForMark(p, k)
    \/ StartOver

LEMMA TableInvParts ==
    TableInv <=> /\ Live(groups, p2g) /\ Live(groups, temp)
                 /\ Covered(groups, ref, p2g, temp)
                 /\ GroupMatchesDevice /\ FreshKeys
BY DEF TableInv, KeysLive, RefsCovered, Users, Marks, Live, Covered

LEMMA TakeKeepsDevice ==
    ASSUME TypeOK, TableInv, NEW d \in Device, NEW k \in Key, AcquireGroup(d, k),
           \A p \in Path : p2g'[p] # NoKey =>
             p2g'[p] = p2g[p] \/ (p2g'[p] = k /\ DevOf[p] = d)
    PROVE  GroupMatchesDevice' /\ FreshKeys'
<1> USE DEF TypeOK, TableInv, GroupMatchesDevice, FreshKeys, KeysLive
<1>1. CASE k \in GroupOn(d) /\ JoinGroup(k)
  BY <1>1 DEF GroupOn, JoinGroup
<1>2. CASE GroupOn(d) = {} /\ k = nextKey /\ CreateGroup(d)
  <2>1. /\ groups' = groups \cup {k} /\ dev' = [dev EXCEPT ![k] = d]
        /\ nextKey' = k + 1 /\ k = nextKey /\ k \in Nat
    BY <1>2 DEF CreateGroup, Key
  <2>2. k \notin groups /\ \A l \in groups : dev[l] # d /\ l \in Key /\ l < k
    BY <1>2, <2>1 DEF GroupOn
  <2>3. FreshKeys'
    BY <2>1, <2>2 DEF Key
  <2>4. \A l, m \in groups' : dev'[l] = dev'[m] => l = m
    BY <2>1, <2>2
  <2>5. \A p \in Path : p2g'[p] # NoKey => dev'[p2g'[p]] = DevOf[p]
    <3> SUFFICES ASSUME NEW p \in Path, p2g'[p] # NoKey PROVE dev'[p2g'[p]] = DevOf[p]
      OBVIOUS
    <3>1. CASE p2g'[p] = p2g[p]
      BY <2>1, <2>2, <3>1
    <3>2. CASE p2g'[p] = k /\ DevOf[p] = d
      BY <2>1, <3>2
    <3> QED
      BY <3>1, <3>2
  <2> QED
    BY <2>3, <2>4, <2>5
<1> QED
  BY <1>1, <1>2 DEF AcquireGroup

LEMMA TableTakePath ==
    ASSUME TypeOK, TableInv, NEW p \in Path, NEW k \in Key, TakeForPath(p, k)
    PROVE  TableInv'
<1>0. p2g \in KeyMap /\ temp \in KeyMap /\ groups \in SUBSET Key /\ ref \in [Key -> Nat]
  BY DEF TypeOK, KeyMap
<1>1. /\ Live(groups, p2g) /\ Live(groups, temp) /\ Covered(groups, ref, p2g, temp)
  BY TableInvParts
<1>2. GroupMatchesDevice' /\ FreshKeys'
  <2>1. DevOf[p] \in Device
    BY RegistryAssumption DEF RegistryAssumption
  <2>2. \A q \in Path : p2g'[q] # NoKey =>
          p2g'[q] = p2g[q] \/ (p2g'[q] = k /\ DevOf[q] = DevOf[p])
    BY <1>0 DEF TakeForPath, KeyMap
  <2> QED
    BY <2>1, <2>2, TakeKeepsDevice DEF TakeForPath
<1>3. /\ Live(groups', p2g') /\ Live(groups', temp')
      /\ Covered(groups', ref', p2g', temp')
  <2>1. CASE k \in GroupOn(DevOf[p]) /\ JoinGroup(k)
    BY <1>0, <1>1, <2>1, JoinCovered DEF TakeForPath, JoinGroup, GroupOn
  <2>2. CASE k = nextKey /\ CreateGroup(DevOf[p])
    <3>1. k \notin groups
      BY <2>2 DEF TableInv, FreshKeys, Key
    <3> QED
      BY <1>0, <1>1, <2>2, <3>1, CreateCovered DEF TakeForPath, CreateGroup
  <2> QED
    BY <2>1, <2>2 DEF TakeForPath, AcquireGroup
<1> QED
  BY <1>2, <1>3 DEF TableInv, KeysLive, RefsCovered, Users, Marks, Live, Covered

LEMMA CoveredSwap ==
    ASSUME NEW G, NEW R, NEW f, NEW t
    PROVE  Covered(G, R, f, t) <=> Covered(G, R, t, f)
BY UsesFinite DEF Covered

LEMMA TableTakeMark ==
    ASSUME TypeOK, TableInv, NEW p \in Path, NEW k \in Key, TakeForMark(p, k)
    PROVE  TableInv'
<1>0. p2g \in KeyMap /\ temp \in KeyMap /\ groups \in SUBSET Key /\ ref \in [Key -> Nat]
  BY DEF TypeOK, KeyMap
<1>1. Live(groups, p2g) /\ Live(groups, temp) /\ Covered(groups, ref, temp, p2g)
  BY TableInvParts, CoveredSwap
<1>2. GroupMatchesDevice' /\ FreshKeys'
  <2>1. AncestorDev[p] \in Device
    BY RegistryAssumption DEF RegistryAssumption
  <2>2. \A q \in Path : p2g'[q] # NoKey =>
          p2g'[q] = p2g[q] \/ (p2g'[q] = k /\ DevOf[q] = AncestorDev[p])
    BY DEF TakeForMark
  <2> QED
    BY <2>1, <2>2, TakeKeepsDevice DEF TakeForMark
<1>3. /\ Live(groups', p2g') /\ Live(groups', temp')
      /\ Covered(groups', ref', temp', p2g')
  <2>1. CASE k \in GroupOn(AncestorDev[p]) /\ JoinGroup(k)
    BY <1>0, <1>1, <2>1, JoinCovered DEF TakeForMark, JoinGroup, GroupOn
  <2>2. CASE k = nextKey /\ CreateGroup(AncestorDev[p])
    <3>1. k \notin groups
      BY <2>2 DEF TableInv, FreshKeys, Key
    <3> QED
      BY <1>0, <1>1, <2>2, <3>1, CreateCovered DEF TakeForMark, CreateGroup
  <2> QED
    BY <2>1, <2>2 DEF TakeForMark, AcquireGroup
<1>4. Covered(groups', ref', p2g', temp')
  BY <1>3, CoveredSwap
<1> QED
  BY <1>2, <1>3, <1>4 DEF TableInv, KeysLive, RefsCovered, Users, Marks, Live, Covered

LEMMA TableDrop ==
    ASSUME TypeOK, TableInv, NEW p \in Path, DropPath(p) \/ DropMark(p)
    PROVE  TableInv'
<1>0. p2g \in KeyMap /\ temp \in KeyMap /\ groups \in SUBSET Key /\ ref \in [Key -> Nat]
  BY DEF TypeOK, KeyMap
<1>1. /\ Live(groups, p2g) /\ Live(groups, temp)
      /\ Covered(groups, ref, p2g, temp) /\ Covered(groups, ref, temp, p2g)
  BY TableInvParts, CoveredSwap
<1>2. GroupMatchesDevice' /\ FreshKeys'
  <2>1. /\ groups' \subseteq groups /\ UNCHANGED <<dev, nextKey>>
        /\ \A q \in Path : p2g'[q] = p2g[q] \/ p2g'[q] = NoKey
    BY <1>0 DEF DropPath, DropMark, ReleaseGroup, KeyMap
  <2> QED
    BY <2>1 DEF TableInv, GroupMatchesDevice, FreshKeys
<1>3. /\ Live(groups', p2g') /\ Live(groups', temp')
      /\ Covered(groups', ref', p2g', temp')
  <2>1. CASE DropPath(p)
    <3>1. p2g[p] \in groups
      BY <1>1, <2>1 DEF DropPath, Live
    <3> QED
      BY <1>0, <1>1, <2>1, <3>1, ReleaseCovered DEF DropPath, ReleaseGroup
  <2>2. CASE DropMark(p)
    <3>1. temp[p] \in groups
      BY <1>1, <2>2 DEF DropMark, Live
    <3>2. /\ Live(groups', p2g') /\ Live(groups', temp')
          /\ Covered(groups', ref', temp', p2g')
      BY <1>0, <1>1, <2>2, <3>1, ReleaseCovered DEF DropMark, ReleaseGroup
    <3> QED
      BY <3>2, CoveredSwap
  <2> QED
    BY <2>1, <2>2
<1> QED
  BY <1>2, <1>3 DEF TableInv, KeysLive, RefsCovered, Users, Marks, Live, Covered

LEMMA TableStepKeeps ==
    ASSUME TypeOK, TableInv, TableStep PROVE TableInv'
<1>1. CASE UNCHANGED TableVars
  BY <1>1 DEF TableVars, TableInv, KeysLive, RefsCovered, Users, Marks, UsesOf,
              GroupMatchesDevice, FreshKeys
<1>2. CASE StartOver
  BY <1>2 DEF StartOver, TableInv, KeysLive, RefsCovered, GroupMatchesDevice, FreshKeys
<1> QED
  BY <1>1, <1>2, TableDrop, TableTakePath, TableTakeMark DEF TableStep

(* add_path takes a reference for the path or leaves the table alone. *)
LEMMA AddPathStep ==
    ASSUME NEW p \in Path, NEW c, NEW ents,
           AddOk(ents, p, c) \/ AddTransient(ents, p) \/ AddPermanent(ents, p),
           UNCHANGED temp
    PROVE  TableStep
BY DEF AddOk, AddCmd, AddPending, AddMonitored, AddTransient, AddPermanent,
       groupVars, TableStep, TableVars, TakeForPath

(* remove_path drops the path's reference or leaves the table alone. *)
LEMMA RemovePathStep ==
    ASSUME TypeOK, NEW p \in Path, NEW sel, RemovePath(p, sel), UNCHANGED temp
    PROVE  TableStep
<1>1. CASE UNCHANGED <<paths, p2g, groupVars>>
  BY <1>1 DEF groupVars, TableStep, TableVars
<1>2. CASE p2g' = [p2g EXCEPT ![p] = NoKey] /\ p2g[p] = NoKey /\ UNCHANGED groupVars
  <2>1. p2g' = p2g
    BY <1>2 DEF TypeOK
  <2> QED
    BY <1>2, <2>1 DEF groupVars, TableStep, TableVars
<1>3. CASE p2g' = [p2g EXCEPT ![p] = NoKey] /\ p2g[p] # NoKey /\ ReleaseGroup(p2g[p])
  BY <1>3 DEF TableStep, DropPath
<1> QED
  BY <1>1, <1>2, <1>3 DEF RemovePath

LEMMA HandlerTableStep ==
    ASSUME TypeInv, TableInv, HandlerStep PROVE TableStep
<1>1. ASSUME NEW p \in Path, InitPath(p) PROVE TableStep
  BY <1>1 DEF InitPath, regVars, groupVars, TableStep, TableVars, TakeForPath
<1>2. ASSUME NEW p \in Path, ReloadRemove(p) PROVE TableStep
  BY <1>2, RemovePathStep DEF ReloadRemove, TypeInv
<1>3. ASSUME NEW p \in Path, Cleanup(p) PROVE TableStep
  <2>1. temp[p] \in groups
    BY <1>3 DEF Cleanup, TableInv, KeysLive
  <2> QED
    BY <1>3, <2>1 DEF Cleanup, regVars, TableStep, DropMark
<1>4. ASSUME NEW p \in Path, NEW c \in EntryCmd,
             ReloadAdd(p, c) \/ Retry(p, c) \/ RetryVanished(p, c)
      PROVE  TableStep
  <2>1. CASE UNCHANGED <<regVars, temp, groupVars>>
    BY <2>1 DEF regVars, groupVars, TableStep, TableVars
  <2>2. CASE /\ UNCHANGED temp
             /\ AddOk(entries, p, c) \/ AddTransient(entries, p) \/ AddPermanent(entries, p)
    BY <2>2, AddPathStep
  <2> QED
    BY <1>4, <2>1, <2>2 DEF ReloadAdd, Retry, RetryFails, RetryVanished
<1>5. CASE InitDone \/ ReloadAdded \/ ReloadDone \/ BeginCheck \/ SkipCheck
             \/ Retried \/ CheckDone
  BY <1>5 DEF InitDone, ReloadAdded, ReloadDone, BeginCheck, SkipCheck, Retried,
              CheckDone, regVars, groupVars, TableStep, TableVars
<1>6. Head(gone) \in Path \/ pc \notin {"unroot", "tempMark"}
  BY DEF TypeInv, TypeOK, GoneInv
<1>7. CASE InotifyRootGone
  BY <1>6, <1>7, RemovePathStep DEF InotifyRootGone, MoveToPending, TypeInv
<1>8. CASE TempMark
  BY <1>6, <1>8 DEF TempMark, AddTempParentMark, regVars, groupVars,
                    TableStep, TableVars, TakeForMark
<1> QED
  BY <1>1, <1>2, <1>3, <1>4, <1>5, <1>7, <1>8 DEF HandlerStep

LEMMA LoopTableStep ==
    ASSUME TypeInv, TableInv, LoopStep PROVE TableStep
<1>1. ASSUME NEW m \in requests, SocketAdd(m) \/ SocketRemove(m) PROVE TableStep
  <2>1. m.path \in Path
    BY DEF TypeInv, TypeOK, Request
  <2>2. CASE SocketAdd(m)
    BY <2>1, <2>2, AddPathStep DEF SocketAdd
  <2>3. CASE SocketRemove(m)
    BY <2>1, <2>3, RemovePathStep DEF SocketRemove, TypeInv
  <2> QED
    BY <1>1, <2>2, <2>3
<1>2. ASSUME NEW p \in Path, FanotifyRootGone(p) PROVE TableStep
  BY <1>2, RemovePathStep DEF FanotifyRootGone, MoveToPending, TypeInv
<1>3. CASE HandleInotify \/ StartReload \/ BeginCheck
  BY <1>3 DEF HandleInotify, StartReload, BeginCheck, regVars, groupVars,
              TableStep, TableVars
<1> QED
  BY <1>1, <1>2, <1>3 DEF LoopStep

LEMMA EnvironmentTableStep ==
    ASSUME Environment PROVE TableStep
BY DEF Environment, FsCreate, FsDelete, CliAdd, CliRemove, CliRemoveGroup,
       CliRollback, CliUnanswered, Start, Crash, daemonVars, regVars, groupVars,
       TableStep, TableVars, StartOver

IInv == TypeInv /\ TableInv

LEMMA InvInit == Init => IInv
<1>1. Init => TableInv
  BY DEF Init, TableInv, KeysLive, RefsCovered, GroupMatchesDevice, FreshKeys
<1> QED
  BY <1>1, TypeInit DEF IInv

LEMMA InvNext == IInv /\ [Next]_vars => IInv'
<1> SUFFICES ASSUME IInv, [Next]_vars PROVE IInv'
  OBVIOUS
<1>1. TypeInv'
  BY TypeNext DEF IInv
<1>2. TableStep
  <2>1. CASE UNCHANGED vars
    BY <2>1 DEF vars, TableStep, TableVars
  <2> QED
    BY <2>1, HandlerTableStep, LoopTableStep, EnvironmentTableStep DEF IInv, Next
<1>3. TableInv'
  BY <1>2, TableStepKeeps DEF IInv, TypeInv
<1> QED
  BY <1>1, <1>3 DEF IInv

(* No sequence of client commands, deletions, recreations, reloads,        *)
(* restarts and factory failures makes a ref_count smaller than the number *)
(* of paths and temporary marks that use the group.                        *)
THEOREM RefCountCoversUses == Spec => []RefsCovered
<1>1. IInv => RefsCovered
  BY DEF IInv, TableInv
<1> QED
  BY <1>1, InvInit, InvNext, PTL DEF Spec

(* The indexing self.fanotify.groups[key] in add_path, remove_path and     *)
(* init_fanotify never meets a dead key: the daemon does not panic there.  *)
THEOREM GroupKeysNeverDangle == Spec => []KeysLive
<1>1. IInv => KeysLive
  BY DEF IInv, TableInv
<1> QED
  BY <1>1, InvInit, InvNext, PTL DEF Spec

(* The group table holds one group per file system, and every path is in   *)
(* the group of its own file system.                                       *)
THEOREM OneGroupPerDevice == Spec => []GroupMatchesDevice
<1>1. IInv => GroupMatchesDevice
  BY DEF IInv, TableInv
<1> QED
  BY <1>1, InvInit, InvNext, PTL DEF Spec

-----------------------------------------------------------------------------
(* Registrations are kept.                                                 *)

(* A registration waits under the cmd e as a PathEntry spells it. *)
WaitsAs(p, e) ==
    \/ pending[p][e] > 0
    \/ still[p][e] > 0
    \/ pc \in {"boot", "check"} /\ todo[p][e] > 0

Empty(b, p) == \A c \in EntryCmd : b[p][c] = 0
Bare(p)     == \A c \in OptCmd : entries[p][c] = 0

(* Which vectors hold registrations at which point of a handler.  Without  *)
(* it a handler's overwriting of pending, todo or still could lose one.    *)
BagInv ==
    /\ pc # "check" => \A p \in Path : Empty(still, p)
    /\ pc \notin {"boot", "check", "reloadAdd"} => \A p \in Path : Empty(todo, p)
    /\ pc = "check" => \A p \in Path : Empty(pending, p)
    /\ pc = "reloadAdd" => \A p \in Path : todo[p][None] = 0
                                           /\ \A c \in EntryCmd : todo[p][c] <= 1
    /\ pc = "tempMark" => Bare(Head(gone))

(* A daemon that is down or starting has only what it has visited.         *)
BootInv ==
    /\ pc = "down" => /\ paths = {} /\ work = {}
                      /\ \A p \in Path : Bare(p) /\ Empty(pending, p)
    /\ pc = "boot" => /\ work = {}
                      /\ \A p \in Path : /\ todo[p][Global] = 0
                                         /\ Empty(todo, p) \/ (Bare(p) /\ Empty(pending, p))
    /\ pc \in {"down", "boot"} => \A p \in Path : temp[p] = NoKey

(* A path that overlaps the log directory is never registered. *)
LogInv ==
    \A p \in LogPath :
      /\ p \notin fs /\ p \notin paths
      /\ \A e \in EntryCmd : ~WaitsAs(p, e)

(* An entry's path is monitored. *)
EntriesInv == \A p \in Path : Bare(p) \/ p \in paths

(* A temporary mark has a registration that waits for its target, or       *)
(* check_pending is about to remove the mark.                              *)
MarkInv ==
    \A p \in Path :
      temp[p] # NoKey => \/ \E e \in EntryCmd : WaitsAs(p, e)
                         \/ p \in paths /\ pc \in {"check", "cleanup"}

KeptInv == BagInv /\ BootInv /\ LogInv /\ EntriesInv /\ MarkInv

-----------------------------------------------------------------------------
(* Cmds and bags.                                                          *)

LEMMA CmdNames ==
    /\ None # Global /\ None \notin StoreCmd /\ Global \notin OptCmd
    /\ \A c \in OptCmd : Normalise(c) = c
    /\ \A c, d \in StoreCmd : Normalise(c) = Normalise(d) => c = d
    /\ \A c \in OptCmd : \E s \in StoreCmd : Normalise(s) = c
    /\ \A e \in EntryCmd : e \in OptCmd \/ e = Global
    /\ Global \in StoreCmd /\ Global \in EntryCmd
BY RegistryAssumption DEF RegistryAssumption, None, Global, StoreCmd, OptCmd, EntryCmd,
                          Normalise

LEMMA ZeroAt ==
    /\ \A q \in Path : Empty(Zero(EntryCmd), q)
    /\ \A q \in Path, c \in OptCmd : Zero(OptCmd)[q][c] = 0
BY DEF Zero, Empty

(* A bag of PathEntries that has none of a path is empty there.            *)
LEMMA HasAt ==
    ASSUME NEW b \in [Path -> [EntryCmd -> Nat]], NEW p \in Path
    PROVE  Empty(b, p) <=> ~Has(b, p)
<1>1. DOMAIN b[p] = EntryCmd /\ \A c \in EntryCmd : b[p][c] \in Nat
  OBVIOUS
<1> QED
  BY <1>1 DEF Empty, Has

LEMMA HasEntry ==
    ASSUME TypeOK, NEW p \in Path
    PROVE  Bare(p) <=> ~Has(entries, p)
<1>1. entries[p] \in [OptCmd -> Nat]
  BY DEF TypeOK
<1>2. DOMAIN entries[p] = OptCmd /\ \A c \in OptCmd : entries[p][c] \in Nat
  BY <1>1
<1> QED
  BY <1>2 DEF Bare, Has

-----------------------------------------------------------------------------
(* add_path and remove_path.                                               *)

Monitors(ents, p, c) ==
    /\ p \in paths \/ p \notin LogPath
    /\ paths' = paths \cup {p} /\ pending' = pending
    /\ entries' = Plus(ents, p, Normalise(c))

Defers(ents, p, c) ==
    /\ p \notin paths /\ p \notin LogPath /\ p \notin fs
    /\ paths' = paths /\ entries' = ents
    /\ pending' = IF pending[p][c] > 0 THEN pending ELSE Plus(pending, p, c)

Refuses(ents) == paths' = paths /\ entries' = ents /\ pending' = pending

LEMMA AddEffect ==
    ASSUME NEW p, NEW c, NEW ents
    PROVE  /\ AddOk(ents, p, c) => Monitors(ents, p, c) \/ Defers(ents, p, c)
           /\ AddTransient(ents, p) \/ AddPermanent(ents, p) => Refuses(ents)
<1>1. AddCmd(ents, p, c) => Monitors(ents, p, c)
  BY DEF AddCmd, Monitors
<1>2. AddMonitored(ents, p, c) => Monitors(ents, p, c)
  BY DEF AddMonitored, Monitors
<1>3. AddPending(ents, p, c) => Defers(ents, p, c)
  BY DEF AddPending, Defers
<1>4. AddTransient(ents, p) \/ AddPermanent(ents, p) => Refuses(ents)
  BY DEF AddTransient, AddPermanent, Refuses
<1> QED
  BY <1>1, <1>2, <1>3, <1>4 DEF AddOk

LEMMA RemoveEffect ==
    ASSUME TypeOK, NEW p \in Path, NEW sel, RemovePath(p, sel)
    PROVE  /\ \A q \in Path, c \in OptCmd :
                entries'[q][c] = IF q = p /\ c \in sel THEN 0 ELSE entries[q][c]
           /\ entries' \in [Path -> [OptCmd -> Nat]]
           /\ paths' = paths \/ (paths' = paths \ {p} /\ Bare(p)')
<1> DEFINE left == [c \in OptCmd |-> IF c \in sel THEN 0 ELSE entries[p][c]]
<1>1. left \in [OptCmd -> Nat] /\ entries \in [Path -> [OptCmd -> Nat]]
  BY DEF TypeOK
<1>2. entries' = [entries EXCEPT ![p] = left]
  BY DEF RemovePath
<1>3. /\ entries' \in [Path -> [OptCmd -> Nat]]
      /\ \A q \in Path, c \in OptCmd :
           entries'[q][c] = IF q = p /\ c \in sel THEN 0 ELSE entries[q][c]
  BY <1>1, <1>2
<1>4. paths' = paths \/ (paths' = paths \ {p} /\ ~\E c \in OptCmd : left[c] > 0)
  BY DEF RemovePath
<1>5. entries'[p] = left
  BY <1>1, <1>2
<1>6. (~\E c \in OptCmd : left[c] > 0) => Bare(p)'
  BY <1>1, <1>3, <1>5 DEF Bare
<1> QED
  BY <1>3, <1>4, <1>6

-----------------------------------------------------------------------------
(* KeptInv is inductive, action by action.                                 *)

LEMMA KeptInit == Init => KeptInv
<1> SUFFICES ASSUME Init PROVE KeptInv
  OBVIOUS
<1>1. \A p \in Path : /\ Empty(pending, p) /\ Empty(todo, p) /\ Empty(still, p) /\ Bare(p)
                      /\ temp[p] = NoKey
  BY ZeroAt DEF Init, Bare
<1>2. paths = {} /\ work = {} /\ pc = "down" /\ fs \cap LogPath = {} /\ LogPath \subseteq Path
  BY RegistryAssumption DEF Init, RegistryAssumption
<1>3. \A p \in Path, e \in EntryCmd : ~WaitsAs(p, e)
  BY <1>1, <1>2 DEF WaitsAs, Empty
<1> QED
  BY <1>1, <1>2, <1>3 DEF KeptInv, BagInv, BootInv, LogInv, EntriesInv, MarkInv

LEMMA KeptQuiet ==
    ASSUME KeptInv, UNCHANGED daemonVars, fs' \cap LogPath \subseteq fs
    PROVE  KeptInv'
<1>1. UNCHANGED <<entries, paths, temp, pending, pc, todo, still, gone, work>>
  BY DEF daemonVars, regVars, ctlVars
<1>2. /\ \A p \in Path, e \in EntryCmd : WaitsAs(p, e)' <=> WaitsAs(p, e)
      /\ \A p \in LogPath, e \in EntryCmd : WaitsAs(p, e)' <=> WaitsAs(p, e)
  BY <1>1 DEF WaitsAs
<1>3. BagInv' /\ BootInv' /\ EntriesInv'
  BY <1>1 DEF KeptInv, BagInv, BootInv, EntriesInv, Bare, Empty
<1>4. LogInv' /\ MarkInv'
  BY <1>1, <1>2 DEF KeptInv, LogInv, MarkInv
<1> QED
  BY <1>3, <1>4 DEF KeptInv

LEMMA KeptEnvironment ==
    ASSUME KeptInv,
           \/ \E p \in Path : FsCreate(p) \/ FsDelete(p)
           \/ \E p \in Path, c \in StoreCmd : CliAdd(p, c) \/ CliRemove(p, c)
           \/ \E c \in StoreCmd : CliRemoveGroup(c)
           \/ \E m \in requests : CliRollback(m) \/ CliUnanswered(m)
    PROVE  KeptInv'
<1>1. UNCHANGED daemonVars /\ fs' \cap LogPath \subseteq fs
  BY DEF FsCreate, FsDelete, CliAdd, CliRemove, CliRemoveGroup, CliRollback,
         CliUnanswered, daemonVars, fsVars
<1> QED
  BY <1>1, KeptQuiet

(* The start reads the store in the names that a PathOptions has. *)
LEMMA StartBagAt ==
    ASSUME NEW p \in Path, NEW c \in EntryCmd
    PROVE  /\ StartBag[p][c] \in Nat
           /\ StartBag[p][c] > 0 <=> \E s \in StoreCmd : <<p, s>> \in store /\ Normalise(s) = c
           /\ c = Global => StartBag[p][c] = 0
<1>1. StartBag[p][c] = IF \E s \in StoreCmd : <<p, s>> \in store /\ Normalise(s) = c
                       THEN 1 ELSE 0
  BY DEF StartBag
<1>2. \A s \in StoreCmd : Normalise(s) # Global
  BY CmdNames DEF Normalise
<1> QED
  <2>1. CASE \E s \in StoreCmd : <<p, s>> \in store /\ Normalise(s) = c
    BY <1>1, <1>2, <2>1
  <2>2. CASE ~\E s \in StoreCmd : <<p, s>> \in store /\ Normalise(s) = c
    BY <1>1, <2>2
  <2> QED
    BY <2>1, <2>2

LEMMA KeptStart ==
    ASSUME TypeInv, KeptInv, Start
    PROVE  KeptInv'
<1>1. /\ pc = "down" /\ pc' = "boot" /\ todo' = StartBag
      /\ UNCHANGED <<fs, entries, paths, temp, pending, still, gone, work>>
  BY DEF Start, fsVars, regVars
<1>2. \A p \in Path : /\ Empty(still, p) /\ Empty(pending, p) /\ Bare(p) /\ temp[p] = NoKey
  BY <1>1 DEF KeptInv, BagInv, BootInv
<1>3. \A p \in Path : /\ Empty(still, p)' /\ Empty(pending, p)' /\ Bare(p)' /\ temp'[p] = NoKey
  BY <1>1, <1>2 DEF Empty, Bare
<1>4. BagInv' /\ EntriesInv' /\ MarkInv'
  BY <1>1, <1>3 DEF BagInv, EntriesInv, MarkInv
<1>5. \A p \in Path : todo'[p][Global] = 0
  BY <1>1, StartBagAt, CmdNames
<1>6. BootInv'
  BY <1>1, <1>3, <1>5 DEF BootInv, KeptInv
<1>7. ASSUME NEW p \in LogPath, NEW e \in EntryCmd PROVE ~WaitsAs(p, e)'
  <2>1. p \in Path
    BY RegistryAssumption DEF RegistryAssumption
  <2>2. p \notin StorePaths
    BY DEF Start
  <2>3. ~\E s \in StoreCmd : <<p, s>> \in store
    BY <2>1, <2>2 DEF StorePaths
  <2>4. ~(todo'[p][e] > 0)
    BY <1>1, <2>1, <2>3, StartBagAt
  <2>5. pending'[p][e] = 0 /\ still'[p][e] = 0
    BY <1>3, <2>1 DEF Empty
  <2> QED
    BY <2>4, <2>5 DEF WaitsAs
<1>8. LogInv'
  BY <1>1, <1>7 DEF KeptInv, LogInv
<1> QED
  BY <1>4, <1>6, <1>8 DEF KeptInv

LEMMA KeptCrash ==
    ASSUME TypeInv, KeptInv, Crash
    PROVE  KeptInv'
<1>1. /\ pc' = "down" /\ paths' = {} /\ work' = {} /\ fs' = fs
      /\ entries' = Zero(OptCmd) /\ pending' = Zero(EntryCmd) /\ todo' = Zero(EntryCmd)
      /\ still' = Zero(EntryCmd) /\ temp' = [p \in Path |-> NoKey]
  BY DEF Crash
<1>2. \A p \in Path : /\ Empty(still, p)' /\ Empty(pending, p)' /\ Empty(todo, p)' /\ Bare(p)'
                      /\ temp'[p] = NoKey
  BY <1>1, ZeroAt DEF Bare
<1>3. \A p \in Path, e \in EntryCmd : ~WaitsAs(p, e)'
  BY <1>1, <1>2 DEF WaitsAs, Empty
<1>4. LogPath \subseteq Path
  BY RegistryAssumption DEF RegistryAssumption
<1>5. BagInv' /\ BootInv'
  BY <1>1, <1>2 DEF BagInv, BootInv
<1>6. LogInv' /\ EntriesInv' /\ MarkInv'
  BY <1>1, <1>2, <1>3, <1>4 DEF LogInv, EntriesInv, MarkInv, KeptInv
<1> QED
  BY <1>5, <1>6 DEF KeptInv

LEMMA KeptInitDone ==
    ASSUME TypeInv, KeptInv, InitDone
    PROVE  KeptInv'
<1>1. /\ pc = "boot" /\ pc' = "idle" /\ todo = Zero(EntryCmd)
      /\ UNCHANGED <<fs, entries, paths, temp, pending, todo, still, gone, work>>
  BY DEF InitDone, fsVars, regVars
<1>2. \A p \in Path : /\ Empty(still, p)' /\ Empty(todo, p)' /\ temp'[p] = NoKey
  BY <1>1, ZeroAt DEF KeptInv, BagInv, BootInv, Empty
<1>3. \A p \in LogPath, e \in EntryCmd : ~WaitsAs(p, e)'
  BY <1>1 DEF KeptInv, LogInv, WaitsAs
<1>4. BagInv' /\ BootInv' /\ MarkInv'
  BY <1>1, <1>2 DEF BagInv, BootInv, MarkInv
<1>5. LogInv' /\ EntriesInv'
  BY <1>1, <1>3 DEF LogInv, EntriesInv, Bare, KeptInv
<1> QED
  BY <1>4, <1>5 DEF KeptInv

LEMMA KeptInitPath ==
    ASSUME TypeInv, TypeInv', KeptInv, NEW p \in Path, InitPath(p)
    PROVE  KeptInv'
<1>1. /\ pc = "boot" /\ pc' = "boot" /\ UNCHANGED <<fs, temp, still, gone, work>>
      /\ todo' = [todo EXCEPT ![p] = Zero(EntryCmd)[p]]
  BY DEF InitPath, fsVars
<1>2. ~Empty(todo, p)
  BY HasAt DEF InitPath, TypeInv, TypeOK
<1>3. PICK e \in EntryCmd : todo[p][e] > 0
  BY <1>2 DEF Empty, TypeInv, TypeOK
<1>4. p \notin LogPath
  BY <1>1, <1>3 DEF KeptInv, LogInv, WaitsAs
<1>5. Bare(p) /\ Empty(pending, p)
  BY <1>1, <1>2 DEF KeptInv, BootInv
<1>6. /\ Empty(todo, p)'
      /\ \A q \in Path \ {p} : todo'[q] = todo[q]
  BY <1>1, ZeroAt DEF TypeInv, TypeOK, Empty
<1>7. /\ paths \subseteq paths' /\ paths' \subseteq paths \cup {p}
      /\ \A q \in Path \ {p} : entries'[q] = entries[q] /\ pending'[q] = pending[q]
      /\ p \in paths' \/ entries' = entries
  BY DEF InitPath, regVars, TypeInv, TypeOK
<1>8. \A q \in Path \ {p} : /\ Bare(q)' <=> Bare(q)
                            /\ Empty(pending, q)' <=> Empty(pending, q)
                            /\ Empty(todo, q)' <=> Empty(todo, q)
                            /\ \A d \in EntryCmd : WaitsAs(q, d)' <=> WaitsAs(q, d)
  BY <1>1, <1>6, <1>7 DEF Bare, Empty, WaitsAs
<1>9. BagInv'
  BY <1>1, <1>6 DEF KeptInv, BagInv, Empty
<1>10. \A q \in Path : todo'[q][Global] = 0
  BY <1>1, <1>6, CmdNames DEF KeptInv, BootInv, Empty
<1>11. BootInv'
  BY <1>1, <1>6, <1>8, <1>10 DEF KeptInv, BootInv
<1>12. LogInv'
  BY <1>1, <1>4, <1>7, <1>8, RegistryAssumption DEF KeptInv, LogInv, RegistryAssumption
<1>13. Bare(p)' \/ p \in paths'
  BY <1>5, <1>7 DEF Bare
<1>14. EntriesInv'
  BY <1>7, <1>8, <1>13 DEF KeptInv, EntriesInv
<1>15. MarkInv'
  BY <1>1 DEF KeptInv, BootInv, MarkInv
<1> QED
  BY <1>9, <1>11, <1>12, <1>14, <1>15 DEF KeptInv

(* What add_path does to the vectors, whatever it returns.                 *)
AddedTo(ents, p, c) == Monitors(ents, p, c) \/ Defers(ents, p, c) \/ Refuses(ents)

(* The entries add_path is called with: those of p may have been taken out. *)
Given(ents, p) ==
    /\ ents \in [Path -> [OptCmd -> Nat]]
    /\ \A q \in Path \ {p} : ents[q] = entries[q]
    /\ Bare(p) => \A c \in OptCmd : ents[p][c] = 0

LEMMA AddVectors ==
    ASSUME TypeInv, KeptInv, NEW p \in Path, NEW c \in EntryCmd, NEW ents,
           Given(ents, p), AddedTo(ents, p, c)
    PROVE  /\ EntriesInv'
           /\ paths \subseteq paths' /\ \A q \in LogPath : q \notin paths'
           /\ \A q \in Path, e \in EntryCmd :
                pending[q][e] > 0 => pending'[q][e] > 0
           /\ \A q \in LogPath : pending'[q] = pending[q]
<1>1. /\ paths \subseteq Path /\ LogPath \subseteq Path /\ Normalise(c) \in OptCmd
      /\ pending \in [Path -> [EntryCmd -> Nat]] /\ EntriesInv
      /\ \A q \in LogPath : q \notin paths
  BY RegistryAssumption, CmdSets, CmdNames
     DEF TypeInv, TypeOK, KeptInv, LogInv, RegistryAssumption, Normalise
<1>2. \A q \in Path \ {p} : (\A d \in OptCmd : ents[q][d] = 0) \/ q \in paths
  BY <1>1 DEF EntriesInv, Bare, Given
<1>3. (\A d \in OptCmd : ents[p][d] = 0) \/ p \in paths
  BY <1>1 DEF EntriesInv, Given
<1>4. CASE Monitors(ents, p, c)
  <2>1. /\ paths' = paths \cup {p} /\ pending' = pending /\ p \notin LogPath
        /\ entries' = Plus(ents, p, Normalise(c))
    BY <1>1, <1>4 DEF Monitors
  <2>2. \A q \in Path \ {p} : entries'[q] = ents[q]
    BY <2>1 DEF Plus, Given
  <2>3. \A q \in Path \ {p} : Bare(q)' \/ q \in paths
    BY <1>2, <2>2 DEF Bare
  <2>4. EntriesInv'
    BY <2>1, <2>3 DEF EntriesInv
  <2> QED
    BY <1>1, <2>1, <2>4
<1>5. CASE Defers(ents, p, c)
  <2>1. /\ paths' = paths /\ entries' = ents /\ p \notin LogPath
        /\ pending' = pending \/ pending' = Plus(pending, p, c)
    BY <1>5 DEF Defers
  <2>2. EntriesInv'
    BY <1>2, <1>3, <2>1 DEF EntriesInv, Bare
  <2>3. /\ \A q \in Path, e \in EntryCmd : pending[q][e] > 0 => pending'[q][e] > 0
        /\ \A q \in Path \ {p} : pending'[q] = pending[q]
    BY <1>1, <2>1 DEF Plus
  <2> QED
    BY <1>1, <2>1, <2>2, <2>3
<1>6. CASE Refuses(ents)
  <2>1. paths' = paths /\ entries' = ents /\ pending' = pending
    BY <1>6 DEF Refuses
  <2>2. EntriesInv'
    BY <1>2, <1>3, <2>1 DEF EntriesInv, Bare
  <2> QED
    BY <1>1, <2>1, <2>2
<1> QED
  BY <1>4, <1>5, <1>6 DEF AddedTo

(* add_path outside check_pending. *)
LEMMA AddKept ==
    ASSUME TypeInv, KeptInv, NEW p \in Path, NEW c \in EntryCmd, NEW ents,
           Given(ents, p), AddedTo(ents, p, c),
           pc \in {"idle", "reloadAdd"}, UNCHANGED <<fs, temp, still, pc>>
    PROVE  EntriesInv' /\ LogInv' /\ MarkInv'
<1>1. /\ EntriesInv' /\ paths \subseteq paths' /\ \A q \in LogPath : q \notin paths'
      /\ \A q \in Path, e \in EntryCmd : pending[q][e] > 0 => pending'[q][e] > 0
      /\ \A q \in LogPath : pending'[q] = pending[q]
  BY AddVectors
<1>2. \A q \in Path, e \in EntryCmd : WaitsAs(q, e) => WaitsAs(q, e)'
  BY <1>1 DEF WaitsAs
<1>3. \A q \in LogPath, e \in EntryCmd : ~WaitsAs(q, e)'
  BY <1>1 DEF WaitsAs, KeptInv, LogInv
<1>4. LogInv'
  BY <1>1, <1>3 DEF KeptInv, LogInv
<1>5. MarkInv'
  BY <1>2 DEF KeptInv, MarkInv
<1> QED
  BY <1>1, <1>4, <1>5

LEMMA KeptSocketAdd ==
    ASSUME TypeInv, KeptInv, NEW m \in requests, SocketAdd(m)
    PROVE  KeptInv'
<1> DEFINE p == m.path
           c == Normalise(m.cmd)
           ents == [entries EXCEPT ![p][c] = 0]
<1>1. p \in Path /\ m.cmd \in StoreCmd /\ c \in EntryCmd /\ c \in OptCmd
  BY CmdSets, CmdNames DEF TypeInv, TypeOK, Request, Normalise, StoreCmd, EntryCmd, OptCmd
<1>2. Given(ents, p)
  BY <1>1 DEF Given, Bare, TypeInv, TypeOK
<1>3. AddOk(ents, p, c) \/ AddTransient(ents, p) \/ AddPermanent(ents, p)
  BY DEF SocketAdd
<1>4. pc = "idle" /\ UNCHANGED <<fs, temp, pc, todo, still, gone, work>>
  BY DEF SocketAdd, fsVars, ctlVars
<1> HIDE DEF p, c, ents
<1>5. AddedTo(ents, p, c)
  BY <1>3, AddEffect DEF AddedTo
<1>6. EntriesInv' /\ LogInv' /\ MarkInv'
  BY <1>1, <1>2, <1>4, <1>5, AddKept
<1>7. BagInv' /\ BootInv'
  BY <1>4 DEF KeptInv, BagInv, BootInv, Empty
<1> QED
  BY <1>6, <1>7 DEF KeptInv

(* remove_path outside check_pending. *)
LEMMA RemoveKept ==
    ASSUME TypeInv, KeptInv, NEW p \in Path, NEW sel, RemovePath(p, sel),
           pc \in {"idle", "reloadRemove"}, UNCHANGED <<fs, temp, pending, still, pc>>
    PROVE  EntriesInv' /\ LogInv' /\ MarkInv'
<1>1. /\ \A q \in Path, c \in OptCmd :
           entries'[q][c] = IF q = p /\ c \in sel THEN 0 ELSE entries[q][c]
      /\ paths' = paths \/ (paths' = paths \ {p} /\ Bare(p)')
  BY RemoveEffect DEF TypeInv
<1>2. \A q \in Path : Bare(q) => Bare(q)'
  BY <1>1 DEF Bare
<1>3. EntriesInv'
  BY <1>1, <1>2 DEF EntriesInv, KeptInv
<1>4. \A e \in EntryCmd : /\ \A q \in Path : WaitsAs(q, e) <=> WaitsAs(q, e)'
                          /\ \A q \in LogPath : WaitsAs(q, e) <=> WaitsAs(q, e)'
  BY DEF WaitsAs
<1>5. LogInv' /\ MarkInv'
  BY <1>1, <1>4 DEF KeptInv, LogInv, MarkInv
<1> QED
  BY <1>3, <1>5

LEMMA KeptSocketRemove ==
    ASSUME TypeInv, KeptInv, NEW m \in requests, SocketRemove(m)
    PROVE  KeptInv'
<1>1. /\ pc = "idle" /\ UNCHANGED <<fs, temp, pending, pc, todo, still, gone, work>>
      /\ RemovePath(m.path, {m.cmd} \cap OptCmd)
  BY DEF SocketRemove, fsVars, ctlVars
<1>2. m.path \in Path
  BY DEF TypeInv, TypeOK, Request
<1>3. EntriesInv' /\ LogInv' /\ MarkInv'
  BY <1>1, <1>2, RemoveKept
<1>4. BagInv' /\ BootInv'
  BY <1>1 DEF KeptInv, BagInv, BootInv, Empty
<1> QED
  BY <1>3, <1>4 DEF KeptInv

LEMMA ReloadBagAt ==
    ASSUME NEW q \in Path, NEW c \in EntryCmd
    PROVE  ReloadBag[q][c] = IF <<q, c>> \in store THEN 1 ELSE 0
BY DEF ReloadBag

LEMMA KeptStartReload ==
    ASSUME TypeInv, KeptInv, StartReload
    PROVE  KeptInv'
<1>1. /\ pc = "idle" /\ pc' = "reloadAdd" /\ todo' = ReloadBag
      /\ UNCHANGED <<fs, entries, paths, temp, pending, still, gone>>
  BY DEF StartReload, fsVars, regVars
<1>2. store \subseteq Path \X StoreCmd
  BY DEF TypeInv, TypeOK
<1>3. \A p \in Path : todo'[p][None] = 0 /\ \A c \in EntryCmd : todo'[p][c] <= 1
  <2> SUFFICES ASSUME NEW p \in Path
               PROVE  todo'[p][None] = 0 /\ \A c \in EntryCmd : todo'[p][c] <= 1
    OBVIOUS
  <2>1. \A c \in EntryCmd : todo'[p][c] = IF <<p, c>> \in store THEN 1 ELSE 0
    BY <1>1, ReloadBagAt
  <2>2. None \in EntryCmd /\ <<p, None>> \notin store
    BY <1>2, CmdNames DEF EntryCmd
  <2>3. \A c \in EntryCmd : todo'[p][c] \in {0, 1}
    BY <2>1
  <2>4. todo'[p][None] = 0
    BY <2>1, <2>2
  <2> QED
    BY <2>3, <2>4
<1>4. BagInv' /\ BootInv'
  BY <1>1, <1>3 DEF KeptInv, BagInv, BootInv, Empty
<1>5. \A e \in EntryCmd : /\ \A q \in Path : WaitsAs(q, e) <=> WaitsAs(q, e)'
                          /\ \A q \in LogPath : WaitsAs(q, e) <=> WaitsAs(q, e)'
  BY <1>1 DEF WaitsAs
<1>6. LogInv' /\ EntriesInv' /\ MarkInv'
  BY <1>1, <1>5 DEF KeptInv, LogInv, EntriesInv, MarkInv, Bare
<1> QED
  BY <1>4, <1>6 DEF KeptInv

(* A loop that visits one copy of a registration leaves the others. *)
LEMMA VisitedAt ==
    ASSUME TypeOK, NEW p \in Path, NEW c \in EntryCmd, todo[p][c] > 0, Visited(p, c)
    PROVE  \A q \in Path, e \in EntryCmd :
             todo'[q][e] = IF q = p /\ e = c THEN todo[q][e] - 1 ELSE todo[q][e]
BY DEF TypeOK, Visited

LEMMA KeptReloadAdd ==
    ASSUME TypeInv, KeptInv, NEW p \in Path, NEW c \in EntryCmd, ReloadAdd(p, c)
    PROVE  KeptInv'
<1>1. /\ pc = "reloadAdd" /\ UNCHANGED <<fs, temp, pc, still, gone, work>>
      /\ todo[p][c] > 0 /\ Visited(p, c)
  BY DEF ReloadAdd, fsVars
<1>2. Given(entries, p)
  BY DEF Given, Bare, TypeInv, TypeOK
<1>3. AddedTo(entries, p, c)
  <2>1. CASE UNCHANGED <<regVars, pending, groupVars>>
    BY <2>1 DEF AddedTo, Refuses, regVars
  <2>2. CASE AddOk(entries, p, c) \/ AddTransient(entries, p) \/ AddPermanent(entries, p)
    BY <2>2, AddEffect DEF AddedTo
  <2> QED
    BY <2>1, <2>2 DEF ReloadAdd
<1>4. EntriesInv' /\ LogInv' /\ MarkInv'
  BY <1>1, <1>2, <1>3, AddKept
<1>5. \A q \in Path, e \in EntryCmd :
        todo'[q][e] = IF q = p /\ e = c THEN todo[q][e] - 1 ELSE todo[q][e]
  BY <1>1, VisitedAt DEF TypeInv
<1>6. \A q \in Path, e \in EntryCmd : todo[q][e] \in Nat /\ todo[q][e] <= 1
  BY <1>1 DEF KeptInv, BagInv, TypeInv, TypeOK
<1>7. \A q \in Path, e \in EntryCmd : todo'[q][e] <= todo[q][e]
  BY <1>5, <1>6
<1>8. \A q \in Path : todo[q][None] = 0 /\ c # None
  BY <1>1 DEF KeptInv, BagInv
<1>9. \A q \in Path : todo'[q][None] = 0 /\ \A e \in EntryCmd : todo'[q][e] <= 1
  BY <1>5, <1>6, <1>7, <1>8 DEF EntryCmd
<1>10. BagInv' /\ BootInv'
  BY <1>1, <1>9 DEF KeptInv, BagInv, BootInv, Empty
<1> QED
  BY <1>4, <1>10 DEF KeptInv

LEMMA KeptReloadRemove ==
    ASSUME TypeInv, KeptInv, NEW p \in Path, ReloadRemove(p)
    PROVE  KeptInv'
<1>1. /\ pc = "reloadRemove" /\ UNCHANGED <<fs, temp, pending, pc, todo, still, gone>>
      /\ RemovePath(p, OptCmd)
  BY DEF ReloadRemove, fsVars
<1>2. EntriesInv' /\ LogInv' /\ MarkInv'
  BY <1>1, RemoveKept
<1>3. BagInv' /\ BootInv'
  BY <1>1 DEF KeptInv, BagInv, BootInv, Empty
<1> QED
  BY <1>2, <1>3 DEF KeptInv

(* Steps that only move the control of a handler that holds nothing. *)
LEMMA KeptControl ==
    ASSUME TypeInv, KeptInv, ReloadAdded \/ ReloadDone \/ SkipCheck \/ HandleInotify
    PROVE  KeptInv'
<1>1. /\ pc \in {"reloadAdd", "reloadRemove", "begin", "idle"}
      /\ pc' \in {"reloadRemove", "idle", "unroot", "begin"}
      /\ UNCHANGED <<fs, entries, paths, temp, pending, todo, still, work>>
      /\ pc = "reloadAdd" => todo = Zero(EntryCmd)
  BY DEF ReloadAdded, ReloadDone, SkipCheck, HandleInotify, fsVars, regVars
<1>2. \A q \in Path : Empty(todo, q)
  BY <1>1, ZeroAt DEF KeptInv, BagInv
<1>3. BagInv' /\ BootInv'
  BY <1>1, <1>2 DEF KeptInv, BagInv, BootInv, Empty
<1>4. \A e \in EntryCmd : /\ \A q \in Path : WaitsAs(q, e) <=> WaitsAs(q, e)'
                          /\ \A q \in LogPath : WaitsAs(q, e) <=> WaitsAs(q, e)'
  BY <1>1 DEF WaitsAs
<1>5. LogInv' /\ EntriesInv' /\ MarkInv'
  BY <1>1, <1>4 DEF KeptInv, LogInv, EntriesInv, MarkInv, Bare
<1> QED
  BY <1>3, <1>5 DEF KeptInv

(* A root that is gone: what it has entries for waits, and what waited     *)
(* still does.                                                             *)
MovedAside(p) ==
    /\ \A q \in Path \ {p} : entries'[q] = entries[q] /\ pending'[q] = pending[q]
    /\ Bare(p)'
    /\ \A c \in OptCmd : pending'[p][c] > 0 <=> pending[p][c] > 0 \/ entries[p][c] > 0
    /\ pending'[p][Global] = pending[p][Global]
    /\ paths' \in {paths, paths \ {p}}

LEMMA MoveEffect ==
    ASSUME TypeInv, KeptInv, NEW p \in Path, NEW pushed \in [OptCmd -> Nat],
           \A c \in OptCmd : pushed[c] > 0 <=> pending[p][c] > 0 \/ entries[p][c] > 0,
           MoveToPending(p, pushed)
    PROVE  MovedAside(p)
<1>1. /\ \A q \in Path, c \in OptCmd :
           entries'[q][c] = IF q = p /\ c \in OptCmd THEN 0 ELSE entries[q][c]
      /\ paths' = paths \/ (paths' = paths \ {p} /\ Bare(p)')
  BY RemoveEffect DEF TypeInv, MoveToPending
<1>2. \A q \in Path \ {p} : entries'[q] = entries[q]
  BY DEF MoveToPending, RemovePath, TypeInv, TypeOK
<1>3. pending' = [pending EXCEPT ![p] =
                    [c \in EntryCmd |-> IF c \in OptCmd THEN pushed[c] ELSE pending[p][c]]]
  BY DEF MoveToPending
<1>4. /\ \A q \in Path \ {p} : pending'[q] = pending[q]
      /\ \A c \in EntryCmd : pending'[p][c] = IF c \in OptCmd THEN pushed[c] ELSE pending[p][c]
  BY <1>3 DEF TypeInv, TypeOK
<1>5. OptCmd \subseteq EntryCmd /\ Global \notin OptCmd /\ Global \in EntryCmd
  BY CmdSets, CmdNames DEF OptCmd, EntryCmd
<1>6. /\ \A c \in OptCmd : pending'[p][c] > 0 <=> pending[p][c] > 0 \/ entries[p][c] > 0
      /\ pending'[p][Global] = pending[p][Global]
  BY <1>4, <1>5
<1>7. Bare(p)'
  BY <1>1 DEF Bare
<1> QED
  BY <1>1, <1>2, <1>4, <1>6, <1>7 DEF MovedAside

LEMMA RootGoneEffect ==
    ASSUME TypeInv, KeptInv
    PROVE  /\ \A p \in Path : FanotifyRootGone(p) =>
                MovedAside(p) /\ p \in paths /\ gone' = <<p>> /\ Head(gone') = p
           /\ InotifyRootGone =>
                /\ MovedAside(Head(gone)) /\ gone' = gone /\ Head(gone) \in Path
<1>1. ASSUME NEW p \in Path, FanotifyRootGone(p)
      PROVE  MovedAside(p) /\ p \in paths /\ gone' = <<p>> /\ Head(gone') = p
  <2> DEFINE pushed == [c \in OptCmd |-> pending[p][c] + entries[p][c]]
  <2>1. \A c \in OptCmd : pending[p][c] \in Nat /\ entries[p][c] \in Nat
    BY CmdSets DEF TypeInv, TypeOK, OptCmd, EntryCmd
  <2>2. /\ pushed \in [OptCmd -> Nat]
        /\ \A c \in OptCmd : pushed[c] > 0 <=> pending[p][c] > 0 \/ entries[p][c] > 0
    BY <2>1
  <2>3. MoveToPending(p, pushed) /\ p \in paths /\ gone' = <<p>>
    BY <1>1 DEF FanotifyRootGone
  <2> HIDE DEF pushed
  <2>4. MovedAside(p)
    BY <2>2, <2>3, MoveEffect
  <2> QED
    BY <2>3, <2>4
<1>2. ASSUME InotifyRootGone
      PROVE  MovedAside(Head(gone)) /\ gone' = gone /\ Head(gone) \in Path
  <2> DEFINE p == Head(gone)
             pushed == [c \in OptCmd |->
                          IF pending[p][c] = 0 /\ entries[p][c] > 0 THEN 1 ELSE pending[p][c]]
  <2>1. MoveToPending(p, pushed) /\ gone' = gone /\ pc = "unroot"
    BY <1>2 DEF InotifyRootGone
  <2>2. p \in Path
    BY <2>1, HeadTailProperties DEF TypeInv, TypeOK, GoneInv
  <2> HIDE DEF p
  <2>3. \A c \in OptCmd : pending[p][c] \in Nat /\ entries[p][c] \in Nat
    BY <2>2, CmdSets DEF TypeInv, TypeOK, OptCmd, EntryCmd
  <2>4. /\ pushed \in [OptCmd -> Nat]
        /\ \A c \in OptCmd : pushed[c] > 0 <=> pending[p][c] > 0 \/ entries[p][c] > 0
    BY <2>3
  <2> HIDE DEF pushed
  <2>5. MovedAside(p)
    BY <2>1, <2>2, <2>4, MoveEffect
  <2> QED
    BY <2>1, <2>2, <2>5 DEF p
<1> QED
  BY <1>1, <1>2

LEMMA KeptRootGone ==
    ASSUME TypeInv, TypeInv', KeptInv,
           InotifyRootGone \/ \E p \in Path : FanotifyRootGone(p)
    PROVE  KeptInv'
<1>1. PICK p \in Path : MovedAside(p) /\ Head(gone') = p
  BY RootGoneEffect
<1>2. /\ pc \in {"unroot", "idle"} /\ pc' = "tempMark"
      /\ UNCHANGED <<fs, temp, todo, still, work>>
  BY DEF InotifyRootGone, FanotifyRootGone, fsVars
<1>3. BagInv' /\ BootInv'
  BY <1>1, <1>2 DEF KeptInv, BagInv, BootInv, Empty, MovedAside
<1>4. \A q \in Path \ {p} : Bare(q)' <=> Bare(q)
  BY <1>1 DEF MovedAside, Bare
<1>5. EntriesInv'
  BY <1>1, <1>4 DEF KeptInv, EntriesInv, MovedAside
<1>6. \A q \in Path, e \in EntryCmd : WaitsAs(q, e) => WaitsAs(q, e)'
  BY <1>1, <1>2, CmdNames DEF WaitsAs, MovedAside
<1>7. MarkInv'
  BY <1>2, <1>6 DEF KeptInv, MarkInv
<1>8. paths' \subseteq paths /\ LogPath \subseteq Path
  BY <1>1, RegistryAssumption DEF MovedAside, RegistryAssumption
<1>9. ASSUME NEW q \in LogPath, NEW e \in EntryCmd PROVE ~WaitsAs(q, e)'
  <2>1. q \in Path /\ Bare(q) /\ ~WaitsAs(q, e)
    BY <1>8 DEF KeptInv, LogInv, EntriesInv
  <2>2. CASE q # p
    BY <1>1, <1>2, <2>1, <2>2 DEF MovedAside, WaitsAs
  <2>3. CASE q = p
    BY <1>1, <1>2, <2>1, <2>3, CmdNames DEF MovedAside, WaitsAs, Bare
  <2> QED
    BY <2>2, <2>3
<1>10. LogInv'
  BY <1>2, <1>8, <1>9 DEF KeptInv, LogInv
<1> QED
  BY <1>3, <1>5, <1>7, <1>10 DEF KeptInv

LEMMA KeptTempMark ==
    ASSUME TypeInv, KeptInv, TempMark
    PROVE  KeptInv'
<1> DEFINE p == Head(gone)
<1>1. /\ pc = "tempMark" /\ pc' \in {"unroot", "begin"}
      /\ UNCHANGED <<fs, entries, paths, pending, todo, still, work>>
      /\ AddTempParentMark(p)
  BY DEF TempMark, fsVars, regVars
<1>2. p \in Path /\ Bare(p)
  BY <1>1, HeadTailProperties DEF TypeInv, TypeOK, GoneInv, KeptInv, BagInv
<1> HIDE DEF p
<1>3. temp' = temp \/ (Has(pending, p) /\ \E k \in Key : temp' = [temp EXCEPT ![p] = k])
  BY <1>1, <1>2, HasEntry DEF AddTempParentMark, TypeInv
<1>4. BagInv' /\ BootInv'
  BY <1>1 DEF KeptInv, BagInv, BootInv, Empty
<1>5. \A e \in EntryCmd : /\ \A q \in Path : WaitsAs(q, e) <=> WaitsAs(q, e)'
                          /\ \A q \in LogPath : WaitsAs(q, e) <=> WaitsAs(q, e)'
  BY <1>1 DEF WaitsAs
<1>6. LogInv' /\ EntriesInv'
  BY <1>1, <1>5 DEF KeptInv, LogInv, EntriesInv, Bare
<1>7. ASSUME NEW q \in Path, temp'[q] # NoKey PROVE \E e \in EntryCmd : WaitsAs(q, e)'
  <2>1. CASE temp'[q] = temp[q]
    BY <1>1, <1>5, <1>7, <2>1 DEF KeptInv, MarkInv
  <2>2. CASE temp'[q] # temp[q]
    <3>1. q = p /\ Has(pending, q)
      BY <1>3, <2>2 DEF TypeInv, TypeOK
    <3>2. \E e \in EntryCmd : pending[q][e] > 0
      BY <3>1 DEF Has, TypeInv, TypeOK
    <3> QED
      BY <1>1, <3>2 DEF WaitsAs
  <2> QED
    BY <2>1, <2>2
<1>8. MarkInv'
  BY <1>7 DEF MarkInv
<1> QED
  BY <1>4, <1>6, <1>8 DEF KeptInv

LEMMA KeptBeginCheck ==
    ASSUME TypeInv, KeptInv, BeginCheck
    PROVE  /\ KeptInv'
           /\ \A q \in Path, e \in EntryCmd : WaitsAs(q, e) <=> WaitsAs(q, e)'
<1>1. /\ pc \in {"idle", "begin"} /\ pc' = "check"
      /\ todo' = pending /\ pending' = Zero(EntryCmd) /\ still' = Zero(EntryCmd)
      /\ UNCHANGED <<fs, entries, paths, temp, work, gone>>
  BY DEF BeginCheck, fsVars, regVars
<1>2. /\ \A q \in Path : Empty(pending, q)' /\ Empty(still, q)'
      /\ \A q \in Path : Empty(still, q) /\ Empty(todo, q)
  BY <1>1, ZeroAt DEF KeptInv, BagInv
<1>3. \A q \in Path, e \in EntryCmd : WaitsAs(q, e) <=> WaitsAs(q, e)'
  BY <1>1, <1>2 DEF WaitsAs, Empty
<1>4. BagInv' /\ BootInv'
  BY <1>1, <1>2 DEF BagInv, BootInv
<1>5. LogPath \subseteq Path
  BY RegistryAssumption DEF RegistryAssumption
<1>6. LogInv' /\ EntriesInv' /\ MarkInv'
  BY <1>1, <1>3, <1>5 DEF KeptInv, LogInv, EntriesInv, MarkInv, Bare
<1> QED
  BY <1>3, <1>4, <1>6 DEF KeptInv

(* One attempt of check_pending: the registration is monitored, or it goes *)
(* on waiting in still_pending.                                            *)
Attempted(p, c) ==
    /\ pending' = pending
    /\ \/ /\ entries' = entries /\ paths' = paths /\ still' = Plus(still, p, c)
       \/ /\ p \notin LogPath /\ paths' = paths \cup {p} /\ still' = still
          /\ entries' = Plus(entries, p, Normalise(c))

LEMMA RetryEffect ==
    ASSUME KeptInv, NEW p \in Path, NEW c \in EntryCmd, Retry(p, c)
    PROVE  Attempted(p, c)
<1>1. CASE UNCHANGED <<regVars, pending, groupVars>> /\ still' = Plus(still, p, c)
  BY <1>1 DEF regVars, Attempted
<1>2. CASE p \in fs /\ AddOk(entries, p, c) /\ UNCHANGED still
  BY <1>2, AddEffect DEF Monitors, Defers, Attempted, KeptInv, LogInv
<1>3. CASE RetryFails(p, c)
  BY <1>3, AddEffect DEF RetryFails, Refuses, Attempted
<1> QED
  BY <1>1, <1>2, <1>3 DEF Retry

LEMMA KeptRetry ==
    ASSUME TypeInv, TypeInv', KeptInv, NEW p \in Path, NEW c \in EntryCmd, Retry(p, c)
    PROVE  KeptInv'
<1>1. /\ pc = "check" /\ UNCHANGED <<fs, temp, pc, gone, work>>
      /\ todo[p][c] > 0 /\ Visited(p, c) /\ Attempted(p, c)
  BY RetryEffect DEF Retry, RetryFails, fsVars
<1>2. \A q \in Path, e \in EntryCmd :
        todo'[q][e] = IF q = p /\ e = c THEN todo[q][e] - 1 ELSE todo[q][e]
  BY <1>1, VisitedAt DEF TypeInv
<1>3. p \notin LogPath
  BY <1>1 DEF KeptInv, LogInv, WaitsAs
<1>4. BagInv' /\ BootInv'
  BY <1>1 DEF KeptInv, BagInv, BootInv, Empty, Attempted
<1>5. /\ \A q \in Path \ {p} : entries'[q] = entries[q] /\ still'[q] = still[q]
      /\ paths \subseteq paths' /\ paths' \subseteq paths \cup {p} /\ pending' = pending
      /\ p \in paths' \/ entries' = entries
  BY <1>1 DEF Attempted, Plus, TypeInv, TypeOK
<1>6. EntriesInv'
  BY <1>5 DEF KeptInv, EntriesInv, Bare
<1>7. \A q \in Path \ {p}, e \in EntryCmd : WaitsAs(q, e)' <=> WaitsAs(q, e)
  BY <1>1, <1>2, <1>5 DEF WaitsAs
<1>8. LogPath \subseteq Path
  BY RegistryAssumption DEF RegistryAssumption
<1>9. LogInv'
  BY <1>1, <1>3, <1>5, <1>7, <1>8 DEF KeptInv, LogInv
<1>10. p \in paths' \/ WaitsAs(p, c)'
  <2>1. CASE still' = Plus(still, p, c)
    <3>1. still'[p][c] > 0
      BY <2>1 DEF Plus, TypeInv, TypeOK
    <3> QED
      BY <3>1 DEF WaitsAs
  <2>2. CASE paths' = paths \cup {p}
    BY <2>2
  <2> QED
    BY <1>1, <2>1, <2>2 DEF Attempted
<1>11. MarkInv'
  BY <1>1, <1>5, <1>7, <1>10 DEF KeptInv, MarkInv
<1> QED
  BY <1>4, <1>6, <1>9, <1>11 DEF KeptInv

LEMMA KeptRetried ==
    ASSUME TypeInv, KeptInv, Retried
    PROVE  /\ KeptInv'
           /\ \A q \in Path, e \in EntryCmd : WaitsAs(q, e) <=> WaitsAs(q, e)'
<1>1. /\ pc = "check" /\ pc' = "cleanup" /\ todo = Zero(EntryCmd)
      /\ pending' = still /\ still' = Zero(EntryCmd)
      /\ UNCHANGED <<fs, entries, paths, temp, todo, work, gone>>
  BY DEF Retried, fsVars, regVars
<1>2. \A q \in Path : Empty(pending, q) /\ Empty(still, q)' /\ Empty(todo, q) /\ Empty(todo, q)'
  BY <1>1, ZeroAt DEF KeptInv, BagInv
<1>3. \A q \in Path, e \in EntryCmd : WaitsAs(q, e) <=> WaitsAs(q, e)'
  BY <1>1, <1>2 DEF WaitsAs, Empty
<1>4. BagInv' /\ BootInv'
  BY <1>1, <1>2 DEF BagInv, BootInv
<1>5. LogPath \subseteq Path
  BY RegistryAssumption DEF RegistryAssumption
<1>6. LogInv' /\ EntriesInv' /\ MarkInv'
  BY <1>1, <1>3, <1>5 DEF KeptInv, LogInv, EntriesInv, MarkInv, Bare
<1> QED
  BY <1>3, <1>4, <1>6 DEF KeptInv

LEMMA KeptCleanup ==
    ASSUME TypeInv, KeptInv, CheckDone \/ \E p \in Path : Cleanup(p)
    PROVE  KeptInv'
<1>1. /\ pc = "cleanup" /\ pc' \in {"cleanup", "begin", "idle"}
      /\ UNCHANGED <<fs, entries, paths, pending, todo, still, work>>
      /\ pc' # "cleanup" => \A q \in paths : temp'[q] = NoKey
      /\ \A q \in Path : temp'[q] # NoKey => temp[q] # NoKey
  BY DEF CheckDone, Cleanup, fsVars, regVars, ctlVars, TypeInv, TypeOK
<1>2. BagInv' /\ BootInv'
  BY <1>1 DEF KeptInv, BagInv, BootInv, Empty
<1>3. \A e \in EntryCmd : /\ \A q \in Path : WaitsAs(q, e) <=> WaitsAs(q, e)'
                          /\ \A q \in LogPath : WaitsAs(q, e) <=> WaitsAs(q, e)'
  BY <1>1 DEF WaitsAs
<1>4. LogInv' /\ EntriesInv' /\ MarkInv'
  BY <1>1, <1>3 DEF KeptInv, LogInv, EntriesInv, MarkInv, Bare
<1> QED
  BY <1>2, <1>4 DEF KeptInv

LEMMA KeptNext ==
    ASSUME TypeInv, KeptInv, ~RaceWindow, [Next]_vars
    PROVE  KeptInv'
<1>0. TypeInv'
  BY TypeNext
<1>1. CASE UNCHANGED vars
  BY <1>1, KeptQuiet DEF vars, daemonVars, regVars, groupVars, ctlVars
<1>2. CASE HandlerStep
  BY <1>0, <1>2, KeptInitPath, KeptReloadRemove, KeptCleanup, KeptReloadAdd, KeptRetry,
     KeptInitDone, KeptControl, KeptRootGone, KeptTempMark, KeptBeginCheck, KeptRetried
     DEF HandlerStep, RetryVanished
<1>3. CASE LoopStep
  BY <1>0, <1>3, KeptSocketAdd, KeptSocketRemove, KeptRootGone, KeptControl,
     KeptStartReload, KeptBeginCheck DEF LoopStep
<1>4. CASE Environment
  BY <1>4, KeptEnvironment, KeptStart, KeptCrash DEF Environment
<1> QED
  BY <1>1, <1>2, <1>3, <1>4 DEF Next

(* A temporary parent mark never outlives what it waits for: as long as no *)
(* path vanishes between check_pending's test and add_path's, its target   *)
(* is monitored or some registration still waits for it, for every number  *)
(* of paths, cmds, devices and groups.                                     *)
THEOREM MarksKeepTarget == ~RaceWindow => (Spec => []TempMarkHasTarget)
<1> SUFFICES ASSUME ~RaceWindow PROVE Spec => []TempMarkHasTarget
  OBVIOUS
<1>1. Init => TypeInv /\ KeptInv
  BY TypeInit, KeptInit
<1>2. TypeInv /\ KeptInv /\ [Next]_vars => (TypeInv /\ KeptInv)'
  BY TypeNext, KeptNext
<1>3. TypeInv /\ KeptInv => TempMarkHasTarget
  <2> SUFFICES ASSUME KeptInv, NEW p \in Path, temp[p] # NoKey, p \notin paths
               PROVE  \E c \in OptCmd : Waiting(p, c)
    BY DEF TempMarkHasTarget
  <2>1. PICK e \in EntryCmd : WaitsAs(p, e)
    BY DEF KeptInv, MarkInv
  <2>2. Normalise(e) \in OptCmd
    BY CmdNames DEF Normalise, OptCmd, EntryCmd
  <2>3. Waiting(p, Normalise(e))
    BY <2>1 DEF WaitsAs, Waiting
  <2> QED
    BY <2>2, <2>3
<1> QED
  BY <1>1, <1>2, <1>3, PTL DEF Spec

-----------------------------------------------------------------------------
(* What each step does to the registrations.                               *)

LEMMA RegisteredAs ==
    ASSUME NEW p, NEW c
    PROVE  /\ Registered(p, c) <=>
                entries[p][c] > 0 \/ \E e \in EntryCmd : Normalise(e) = c /\ WaitsAs(p, e)
           /\ Registered(p, c)' <=>
                entries'[p][c] > 0 \/ \E e \in EntryCmd : Normalise(e) = c /\ WaitsAs(p, e)'
<1>1. Waiting(p, c) <=> \E e \in EntryCmd : Normalise(e) = c /\ WaitsAs(p, e)
  BY DEF Waiting, WaitsAs
<1>2. Waiting(p, c)' <=> \E e \in EntryCmd : Normalise(e) = c /\ WaitsAs(p, e)'
  BY DEF Waiting, WaitsAs
<1> QED
  BY <1>1, <1>2 DEF Registered

Unmoved(p)       == \A d \in OptCmd : Registered(p, d)' <=> Registered(p, d)
AllUnmoved       == \A p \in Path : Unmoved(p)
OnlyMoves(p, c)  == \A q \in Path, d \in OptCmd :
                      q # p \/ d # c => (Registered(q, d)' <=> Registered(q, d))

LEMMA SameVectors ==
    ASSUME NEW p, \A c \in OptCmd : entries'[p][c] = entries[p][c],
           \A e \in EntryCmd : WaitsAs(p, e)' <=> WaitsAs(p, e)
    PROVE  Unmoved(p)
BY RegisteredAs DEF Unmoved

LEMMA AddMoves ==
    ASSUME TypeInv, TypeInv', KeptInv, NEW p \in Path, NEW c \in EntryCmd, NEW ents,
           Given(ents, p), \A d \in OptCmd : d # Normalise(c) => ents[p][d] = entries[p][d],
           AddedTo(ents, p, c),
           pc \in {"idle", "reloadAdd"}, UNCHANGED <<pc, still>>
    PROVE  /\ OnlyMoves(p, Normalise(c))
           /\ ents = entries /\ Registered(p, Normalise(c)) => Registered(p, Normalise(c))'
<1> DEFINE n == Normalise(c)
<1>1. n \in OptCmd
  BY CmdNames DEF Normalise, OptCmd, EntryCmd
<1> HIDE DEF n
<1>2. /\ \A q \in Path, d \in OptCmd : q # p \/ d # n => entries'[q][d] = entries[q][d]
      /\ ents = entries => entries'[p][n] >= entries[p][n]
  <2>1. \A q \in Path, d \in OptCmd : q # p \/ d # n => ents[q][d] = entries[q][d]
    BY DEF Given, n
  <2>2. \A q \in Path, d \in OptCmd : ents[q][d] \in Nat
    BY DEF Given
  <2>3. entries' = ents \/ entries' = Plus(ents, p, n)
    BY DEF AddedTo, Monitors, Defers, Refuses, n
  <2>4. \A q \in Path, d \in OptCmd :
          Plus(ents, p, n)[q][d] = IF q = p /\ d = n THEN ents[q][d] + 1 ELSE ents[q][d]
    BY <1>1 DEF Given, Plus
  <2>5. CASE entries' = ents
    BY <1>1, <2>1, <2>2, <2>5
  <2>6. CASE entries' = Plus(ents, p, n)
    <3>1. \A q \in Path, d \in OptCmd : q # p \/ d # n => entries'[q][d] = ents[q][d]
      BY <2>4, <2>6
    <3>2. entries'[p][n] = ents[p][n] + 1
      BY <1>1, <2>4, <2>6
    <3> QED
      BY <1>1, <2>1, <2>2, <3>1, <3>2
  <2> QED
    BY <2>3, <2>5, <2>6
<1>3. /\ \A q \in Path, e \in EntryCmd : q # p \/ e # c => pending'[q][e] = pending[q][e]
      /\ pending[p][c] > 0 => pending'[p][c] > 0
  <2>1. pending' = pending \/ (pending' = Plus(pending, p, c))
    BY DEF AddedTo, Monitors, Defers, Refuses
  <2>2. pending \in [Path -> [EntryCmd -> Nat]]
    BY DEF TypeInv, TypeOK
  <2>3. \A q \in Path, d \in EntryCmd :
          Plus(pending, p, c)[q][d] = IF q = p /\ d = c THEN pending[q][d] + 1 ELSE pending[q][d]
    BY <2>2 DEF Plus
  <2>4. CASE pending' = Plus(pending, p, c)
    <3>1. \A q \in Path, d \in EntryCmd : q # p \/ d # c => pending'[q][d] = pending[q][d]
      BY <2>3, <2>4
    <3>2. pending'[p][c] = pending[p][c] + 1 /\ pending[p][c] \in Nat
      BY <2>2, <2>3, <2>4
    <3> QED
      BY <3>1, <3>2
  <2> QED
    BY <2>1, <2>4
<1>4. /\ \A q \in Path, e \in EntryCmd : q # p \/ e # c => (WaitsAs(q, e)' <=> WaitsAs(q, e))
      /\ WaitsAs(p, c) => WaitsAs(p, c)'
  BY <1>3 DEF WaitsAs
<1>5. ASSUME NEW q \in Path, NEW d \in OptCmd, q # p \/ d # n
      PROVE  Registered(q, d)' <=> Registered(q, d)
  <2>1. entries'[q][d] = entries[q][d]
    BY <1>2, <1>5
  <2>2. \A e \in EntryCmd : Normalise(e) = d => (WaitsAs(q, e)' <=> WaitsAs(q, e))
    BY <1>4, <1>5 DEF n
  <2> QED
    BY <2>1, <2>2, RegisteredAs
<1>6. ents = entries /\ Registered(p, n) => Registered(p, n)'
  <2>1. \A e \in EntryCmd : WaitsAs(p, e) => WaitsAs(p, e)'
    BY <1>4
  <2>2. entries[p][n] \in Nat /\ entries'[p][n] \in Nat
    BY <1>1 DEF TypeInv, TypeOK
  <2> QED
    BY <1>2, <2>1, <2>2, RegisteredAs
<1> QED
  BY <1>5, <1>6 DEF OnlyMoves, n

LEMMA MovesSocketAdd ==
    ASSUME TypeInv, TypeInv', KeptInv, NEW m \in requests, SocketAdd(m)
    PROVE  /\ OnlyMoves(m.path, Normalise(m.cmd))
           /\ m.path \notin paths' /\ m.path \in LogPath =>
                ~Registered(m.path, Normalise(m.cmd))'
<1> DEFINE p == m.path
           c == Normalise(m.cmd)
           ents == [entries EXCEPT ![p][c] = 0]
<1>1. p \in Path /\ c \in EntryCmd /\ c \in OptCmd /\ Normalise(c) = c
  BY CmdNames DEF TypeInv, TypeOK, Request, Normalise, StoreCmd, EntryCmd, OptCmd
<1>2. Given(ents, p) /\ \A d \in OptCmd : d # c => ents[p][d] = entries[p][d]
  BY <1>1 DEF Given, Bare, TypeInv, TypeOK
<1>3. AddOk(ents, p, c) \/ AddTransient(ents, p) \/ AddPermanent(ents, p)
  BY DEF SocketAdd
<1>4. pc = "idle" /\ UNCHANGED <<pc, still>>
  BY DEF SocketAdd, ctlVars
<1>5. KeptInv'
  BY KeptSocketAdd
<1> HIDE DEF p, c, ents
<1>6. AddedTo(ents, p, c)
  BY <1>3, AddEffect DEF AddedTo
<1>7. OnlyMoves(p, c)
  BY <1>1, <1>2, <1>4, <1>6, AddMoves
<1>8. ASSUME p \in LogPath PROVE ~Registered(p, c)'
  <2>1. p \notin paths' /\ \A e \in EntryCmd : ~WaitsAs(p, e)'
    BY <1>5, <1>8 DEF KeptInv, LogInv
  <2>2. Bare(p)'
    BY <1>1, <1>5, <2>1 DEF KeptInv, EntriesInv
  <2> QED
    BY <1>1, <2>1, <2>2, RegisteredAs DEF Bare
<1> QED
  BY <1>7, <1>8 DEF p, c

LEMMA MovesReloadAdd ==
    ASSUME TypeInv, TypeInv', KeptInv, NEW p \in Path, NEW c \in EntryCmd, ReloadAdd(p, c)
    PROVE  /\ OnlyMoves(p, Normalise(c))
           /\ Registered(p, Normalise(c)) => Registered(p, Normalise(c))'
<1>1. Given(entries, p)
  BY DEF Given, Bare, TypeInv, TypeOK
<1>2. AddedTo(entries, p, c)
  <2>1. CASE UNCHANGED <<regVars, pending, groupVars>>
    BY <2>1 DEF AddedTo, Refuses, regVars
  <2>2. CASE AddOk(entries, p, c) \/ AddTransient(entries, p) \/ AddPermanent(entries, p)
    BY <2>2, AddEffect DEF AddedTo
  <2> QED
    BY <2>1, <2>2 DEF ReloadAdd
<1>3. pc = "reloadAdd" /\ UNCHANGED <<pc, still>>
  BY DEF ReloadAdd
<1> QED
  BY <1>1, <1>2, <1>3, AddMoves

(* remove_path takes out entries of the selected cmds of its path. *)
LEMMA RemoveMoves ==
    ASSUME TypeInv, NEW p \in Path, NEW sel, RemovePath(p, sel),
           pc \notin {"boot", "check"}, UNCHANGED <<pc, pending, still>>
    PROVE  \A q \in Path, d \in OptCmd :
             /\ Registered(q, d)' => Registered(q, d)
             /\ q # p \/ d \notin sel => (Registered(q, d)' <=> Registered(q, d))
<1>1. \A q \in Path, c \in OptCmd :
        entries'[q][c] = IF q = p /\ c \in sel THEN 0 ELSE entries[q][c]
  BY RemoveEffect DEF TypeInv
<1>2. \A q \in Path, e \in EntryCmd : WaitsAs(q, e)' <=> WaitsAs(q, e)
  BY DEF WaitsAs
<1>3. \A q \in Path, c \in OptCmd :
        entries'[q][c] = entries[q][c] \/ (q = p /\ c \in sel /\ entries'[q][c] = 0)
  BY <1>1
<1> QED
  BY <1>2, <1>3, RegisteredAs

LEMMA UnmovedControl ==
    ASSUME TypeInv, KeptInv,
           UNCHANGED <<entries, pending, still, todo>>,
           \/ pc' = pc
           \/ pc = "boot" /\ todo = Zero(EntryCmd) /\ pc' \notin {"boot", "check"}
           \/ pc \notin {"boot", "check"} /\ pc' \notin {"boot", "check"}
    PROVE  AllUnmoved
<1>1. \A q \in Path, e \in EntryCmd : todo = Zero(EntryCmd) => todo[q][e] = 0
  BY ZeroAt DEF Empty
<1>2. \A q \in Path, e \in EntryCmd : WaitsAs(q, e)' <=> WaitsAs(q, e)
  BY <1>1 DEF WaitsAs
<1> QED
  BY <1>2, SameVectors DEF AllUnmoved

LEMMA UnmovedInitPath ==
    ASSUME TypeInv, TypeInv', KeptInv, NEW p \in Path, InitPath(p)
    PROVE  AllUnmoved
<1>1. /\ pc = "boot" /\ pc' = "boot" /\ still' = still
      /\ todo' = [todo EXCEPT ![p] = Zero(EntryCmd)[p]]
  BY DEF InitPath
<1>2. Has(todo, p) /\ Bare(p) /\ Empty(pending, p) /\ Empty(still, p)
  BY <1>1, HasAt DEF InitPath, KeptInv, BagInv, BootInv, TypeInv, TypeOK
<1>3. Empty(todo, p)' /\ \A q \in Path \ {p} : todo'[q] = todo[q]
  BY <1>1, ZeroAt DEF TypeInv, TypeOK, Empty
<1>4. ASSUME NEW q \in Path \ {p} PROVE Unmoved(q)
  <2>1. entries'[q] = entries[q] /\ pending'[q] = pending[q] /\ todo'[q] = todo[q]
    BY <1>3 DEF InitPath, regVars, TypeInv, TypeOK
  <2>2. \A e \in EntryCmd : WaitsAs(q, e)' <=> WaitsAs(q, e)
    BY <1>1, <2>1 DEF WaitsAs
  <2> QED
    BY <2>1, <2>2, SameVectors
<1>5. \A e \in EntryCmd : WaitsAs(p, e) <=> todo[p][e] > 0
  BY <1>1, <1>2 DEF WaitsAs, Empty
<1>6. todo[p][Global] = 0
  BY <1>1 DEF KeptInv, BootInv
<1>7. CASE entries' = entries /\ pending' = [pending EXCEPT ![p] = todo[p]]
  <2>1. \A e \in EntryCmd : pending'[p][e] = todo[p][e]
    BY <1>7 DEF TypeInv, TypeOK
  <2>2. \A e \in EntryCmd : WaitsAs(p, e)' <=> WaitsAs(p, e)
    BY <1>1, <1>2, <1>3, <1>5, <2>1 DEF WaitsAs, Empty
  <2>3. Unmoved(p)
    BY <1>7, <2>2, SameVectors
  <2> QED
    BY <1>4, <2>3 DEF AllUnmoved
<1>8. CASE entries' = [entries EXCEPT ![p] = StartEntries(p)] /\ pending' = pending
  <2>1. \A d \in OptCmd : entries'[p][d] = todo[p][d]
    BY <1>8 DEF TypeInv, TypeOK, StartEntries
  <2>2. \A e \in EntryCmd : ~WaitsAs(p, e)'
    BY <1>1, <1>2, <1>3, <1>8 DEF WaitsAs, Empty
  <2>3. ASSUME NEW d \in OptCmd PROVE Registered(p, d)' <=> Registered(p, d)
    <3>1. d \in EntryCmd /\ Normalise(d) = d
      BY CmdNames DEF OptCmd, EntryCmd
    <3>2. \A e \in EntryCmd : Normalise(e) = d /\ WaitsAs(p, e) => e = d
      BY <1>5, <1>6 DEF Normalise
    <3> QED
      BY <1>2, <1>5, <2>1, <2>2, <3>1, <3>2, RegisteredAs DEF Bare
  <2> QED
    BY <1>4, <2>3 DEF AllUnmoved, Unmoved
<1> QED
  BY <1>7, <1>8 DEF InitPath, regVars

LEMMA UnmovedRootGone ==
    ASSUME TypeInv, TypeInv', KeptInv,
           InotifyRootGone \/ \E p \in Path : FanotifyRootGone(p)
    PROVE  AllUnmoved
<1>1. PICK p \in Path : MovedAside(p)
  BY RootGoneEffect
<1>2. pc \in {"unroot", "idle"} /\ pc' = "tempMark" /\ UNCHANGED <<todo, still>>
  BY DEF InotifyRootGone, FanotifyRootGone
<1>3. ASSUME NEW q \in Path \ {p} PROVE Unmoved(q)
  <2>1. entries'[q] = entries[q] /\ pending'[q] = pending[q]
    BY <1>1 DEF MovedAside
  <2>2. \A e \in EntryCmd : WaitsAs(q, e)' <=> WaitsAs(q, e)
    BY <1>2, <2>1 DEF WaitsAs
  <2> QED
    BY <2>1, <2>2, SameVectors
<1>4. ASSUME NEW d \in OptCmd PROVE Registered(p, d)' <=> Registered(p, d)
  <2>1. d \in EntryCmd /\ Normalise(d) = d /\ ~(entries'[p][d] > 0)
    BY <1>1, CmdNames DEF OptCmd, EntryCmd, MovedAside, Bare
  <2>2. WaitsAs(p, d)' <=> WaitsAs(p, d) \/ entries[p][d] > 0
    BY <1>1, <1>2 DEF WaitsAs, MovedAside
  <2>3. WaitsAs(p, Global)' <=> WaitsAs(p, Global)
    BY <1>1, <1>2 DEF WaitsAs, MovedAside
  <2>4. \A e \in EntryCmd : Normalise(e) = d => e = d \/ e = Global
    BY DEF Normalise
  <2> QED
    BY <2>1, <2>2, <2>3, <2>4, RegisteredAs
<1> QED
  BY <1>3, <1>4 DEF AllUnmoved, Unmoved

LEMMA UnmovedRetry ==
    ASSUME TypeInv, TypeInv', KeptInv, NEW p \in Path, NEW c \in EntryCmd, Retry(p, c)
    PROVE  AllUnmoved
<1> DEFINE n == Normalise(c)
<1>1. /\ pc = "check" /\ pc' = "check" /\ todo[p][c] > 0 /\ Visited(p, c) /\ Attempted(p, c)
  BY RetryEffect DEF Retry, RetryFails
<1>2. \A q \in Path, e \in EntryCmd :
        todo'[q][e] = IF q = p /\ e = c THEN todo[q][e] - 1 ELSE todo[q][e]
  BY <1>1, VisitedAt DEF TypeInv
<1>3. n \in OptCmd
  BY CmdNames DEF Normalise, OptCmd, EntryCmd
<1> HIDE DEF n
<1>4. /\ \A q \in Path, d \in OptCmd : q # p \/ d # n => entries'[q][d] = entries[q][d]
      /\ \A q \in Path, e \in EntryCmd : q # p \/ e # c => still'[q][e] = still[q][e]
      /\ pending' = pending
  <2>1. CASE entries' = entries /\ still' = Plus(still, p, c) /\ pending' = pending
    <3>1. \A q \in Path, e \in EntryCmd : q # p \/ e # c => still'[q][e] = still[q][e]
      BY <2>1 DEF Plus, TypeInv, TypeOK
    <3> QED
      BY <2>1, <3>1
  <2>2. CASE still' = still /\ entries' = Plus(entries, p, n) /\ pending' = pending
    <3>1. \A q \in Path, d \in OptCmd : q # p \/ d # n => entries'[q][d] = entries[q][d]
      BY <1>3, <2>2 DEF Plus, TypeInv, TypeOK
    <3> QED
      BY <2>2, <3>1
  <2> QED
    BY <1>1, <2>1, <2>2 DEF Attempted, n
<1>5. \A q \in Path, e \in EntryCmd : q # p \/ e # c => (WaitsAs(q, e)' <=> WaitsAs(q, e))
  BY <1>1, <1>2, <1>4 DEF WaitsAs
<1>6. ASSUME NEW q \in Path, NEW d \in OptCmd, q # p \/ d # n
      PROVE  Registered(q, d)' <=> Registered(q, d)
  <2>1. \A e \in EntryCmd : Normalise(e) = d => (WaitsAs(q, e)' <=> WaitsAs(q, e))
    BY <1>5, <1>6 DEF n
  <2>2. entries'[q][d] = entries[q][d]
    BY <1>4, <1>6
  <2> QED
    BY <2>1, <2>2, RegisteredAs
<1>7. WaitsAs(p, c) /\ Registered(p, n)
  <2>1. WaitsAs(p, c)
    BY <1>1 DEF WaitsAs
  <2> QED
    BY <2>1, RegisteredAs DEF n
<1>8. Registered(p, n)'
  <2>1. CASE still' = Plus(still, p, c)
    <3>1. still'[p][c] > 0
      BY <2>1 DEF Plus, TypeInv, TypeOK
    <3>2. WaitsAs(p, c)'
      BY <3>1 DEF WaitsAs
    <3> QED
      BY <3>2, RegisteredAs DEF n
  <2>2. CASE entries' = Plus(entries, p, n)
    <3>1. entries'[p][n] > 0
      BY <1>3, <2>2 DEF Plus, TypeInv, TypeOK
    <3> QED
      BY <3>1, RegisteredAs
  <2> QED
    BY <1>1, <2>1, <2>2 DEF Attempted, n
<1>9. ASSUME NEW q \in Path, NEW d \in OptCmd PROVE Registered(q, d)' <=> Registered(q, d)
  BY <1>6, <1>7, <1>8
<1> QED
  BY <1>9 DEF AllUnmoved, Unmoved

LEMMA UnmovedCheck ==
    ASSUME TypeInv, KeptInv, BeginCheck \/ Retried
    PROVE  AllUnmoved
<1>1. \A q \in Path, e \in EntryCmd : WaitsAs(q, e)' <=> WaitsAs(q, e)
  BY KeptBeginCheck, KeptRetried
<1>2. entries' = entries
  BY DEF BeginCheck, Retried, regVars
<1> QED
  BY <1>1, <1>2, SameVectors DEF AllUnmoved

-----------------------------------------------------------------------------
(* The step simulation.                                                    *)

Plan == {r \in Path \X StoreCmd : pc = "reloadAdd" /\ todo[r[1]][r[2]] > 0}

(* Nothing happens that Registrations would notice in the daemon. *)
Inner ==
    /\ AllUnmoved
    /\ Plan' = Plan /\ work' = work
    /\ pc' = "down" <=> pc = "down"

LEMMA RegAt ==
    ASSUME NEW p \in Path, NEW s \in StoreCmd
    PROVE  /\ <<p, s>> \in Reg <=> Registered(p, Normalise(s))
           /\ <<p, s>> \in Reg' <=> Registered(p, Normalise(s))'
           /\ Normalise(s) \in OptCmd
BY CmdNames DEF Reg, Normalise, StoreCmd, OptCmd

LEMMA RegUnmoved == AllUnmoved => Reg' = Reg
<1> SUFFICES ASSUME AllUnmoved PROVE Reg' = Reg
  OBVIOUS
<1>1. Reg \subseteq Path \X StoreCmd /\ Reg' \subseteq Path \X StoreCmd
  BY DEF Reg
<1>2. \A p \in Path, s \in StoreCmd : <<p, s>> \in Reg' <=> <<p, s>> \in Reg
  BY RegAt DEF AllUnmoved, Unmoved
<1> QED
  BY <1>1, <1>2

LEMMA RegOnlyMoves ==
    ASSUME NEW p \in Path, NEW s \in StoreCmd, OnlyMoves(p, Normalise(s))
    PROVE  /\ Registered(p, Normalise(s))' => Reg' = Reg \cup {<<p, s>>}
           /\ ~Registered(p, Normalise(s))' => Reg' = Reg \ {<<p, s>>}
<1>1. Reg \subseteq Path \X StoreCmd /\ Reg' \subseteq Path \X StoreCmd
  BY DEF Reg
<1>2. ASSUME NEW q \in Path, NEW t \in StoreCmd, <<q, t>> # <<p, s>>
      PROVE  <<q, t>> \in Reg' <=> <<q, t>> \in Reg
  <2>1. q # p \/ Normalise(t) # Normalise(s)
    BY <1>2, CmdNames
  <2> QED
    BY <2>1, RegAt DEF OnlyMoves
<1>3. <<p, s>> \in Reg' <=> Registered(p, Normalise(s))'
  BY RegAt
<1> QED
  BY <1>1, <1>2, <1>3

LEMMA PlanKept ==
    ASSUME \/ UNCHANGED <<pc, todo>>
           \/ pc # "reloadAdd" /\ pc' # "reloadAdd"
           \/ pc = "reloadAdd" /\ todo = Zero(EntryCmd) /\ pc' # "reloadAdd"
    PROVE  Plan' = Plan
<1>1. CASE UNCHANGED <<pc, todo>>
  BY <1>1 DEF Plan
<1>2. CASE pc # "reloadAdd" /\ pc' # "reloadAdd"
  BY <1>2 DEF Plan
<1>3. CASE pc = "reloadAdd" /\ todo = Zero(EntryCmd) /\ pc' # "reloadAdd"
  <2>1. \A q \in Path, e \in StoreCmd : ~(todo[q][e] > 0)
    BY <1>3, ZeroAt DEF Empty, StoreCmd, EntryCmd
  <2> QED
    BY <1>3, <2>1 DEF Plan
<1> QED
  BY <1>1, <1>2, <1>3

(* Handlers of the file system's events and of the main loop. *)
HiddenStep ==
    \/ \E p \in Path : InitPath(p) \/ Cleanup(p) \/ FanotifyRootGone(p)
                       \/ FsCreate(p) \/ FsDelete(p)
    \/ \E p \in Path, c \in EntryCmd : Retry(p, c)
    \/ InitDone \/ ReloadAdded \/ ReloadDone \/ HandleInotify \/ InotifyRootGone
    \/ TempMark \/ BeginCheck \/ SkipCheck \/ Retried \/ CheckDone

ClientStep ==
    \/ \E p \in Path, c \in StoreCmd : CliAdd(p, c) \/ CliRemove(p, c)
    \/ \E c \in StoreCmd : CliRemoveGroup(c)
    \/ \E m \in requests : CliRollback(m) \/ CliUnanswered(m)

LEMMA NextForms ==
    ASSUME Next, ~RaceWindow
    PROVE  \/ HiddenStep \/ ClientStep \/ Start \/ Crash \/ StartReload
           \/ \E m \in requests : SocketAdd(m) \/ SocketRemove(m)
           \/ \E p \in Path, c \in EntryCmd : ReloadAdd(p, c)
           \/ \E p \in Path : ReloadRemove(p)
BY DEF Next, HandlerStep, LoopStep, Environment, RetryVanished, HiddenStep, ClientStep

LEMMA HiddenInner ==
    ASSUME TypeInv, TypeInv', KeptInv, HiddenStep
    PROVE  Inner /\ UNCHANGED cliVars
<1>1. CASE \E p \in Path : InitPath(p)
  <2>1. AllUnmoved
    BY <1>1, UnmovedInitPath
  <2>2. pc = "boot" /\ pc' = "boot" /\ work' = work /\ UNCHANGED cliVars
    BY <1>1 DEF InitPath
  <2> QED
    BY <2>1, <2>2, PlanKept DEF Inner
<1>2. CASE \E p \in Path, c \in EntryCmd : Retry(p, c)
  <2>1. AllUnmoved
    BY <1>2, UnmovedRetry
  <2>2. pc = "check" /\ pc' = "check" /\ work' = work /\ UNCHANGED cliVars
    BY <1>2 DEF Retry
  <2> QED
    BY <2>1, <2>2, PlanKept DEF Inner
<1>3. CASE InotifyRootGone \/ \E p \in Path : FanotifyRootGone(p)
  <2>1. AllUnmoved
    BY <1>3, UnmovedRootGone
  <2>2. pc \in {"unroot", "idle"} /\ pc' = "tempMark" /\ work' = work /\ UNCHANGED cliVars
    BY <1>3 DEF InotifyRootGone, FanotifyRootGone
  <2> QED
    BY <2>1, <2>2, PlanKept DEF Inner
<1>4. CASE BeginCheck \/ Retried
  <2>1. AllUnmoved
    BY <1>4, UnmovedCheck
  <2>2. /\ pc \in {"idle", "begin", "check"} /\ pc' \in {"check", "cleanup"}
        /\ work' = work /\ UNCHANGED cliVars
    BY <1>4 DEF BeginCheck, Retried
  <2> QED
    BY <2>1, <2>2, PlanKept DEF Inner
<1>5. CASE \/ \E p \in Path : Cleanup(p) \/ FsCreate(p) \/ FsDelete(p)
           \/ TempMark \/ SkipCheck \/ CheckDone \/ HandleInotify \/ ReloadDone
  <2>1. UNCHANGED <<entries, pending, still, todo, work, cliVars>>
    BY <1>5 DEF Cleanup, FsCreate, FsDelete, TempMark, SkipCheck, CheckDone, HandleInotify,
                ReloadDone, regVars, ctlVars
  <2>2. \/ pc' = pc
        \/ /\ pc \in {"tempMark", "begin", "cleanup", "idle", "reloadRemove"}
           /\ pc' \in {"unroot", "begin", "idle"}
    BY <1>5 DEF Cleanup, FsCreate, FsDelete, TempMark, SkipCheck, CheckDone, HandleInotify,
                ReloadDone, ctlVars
  <2>3. AllUnmoved
    BY <2>1, <2>2, UnmovedControl
  <2> QED
    BY <2>1, <2>2, <2>3, PlanKept DEF Inner
<1>6. CASE InitDone
  <2>1. /\ UNCHANGED <<entries, pending, still, todo, work, cliVars>>
        /\ pc = "boot" /\ todo = Zero(EntryCmd) /\ pc' = "idle"
    BY <1>6 DEF InitDone, regVars
  <2>2. AllUnmoved
    BY <2>1, UnmovedControl
  <2> QED
    BY <2>1, <2>2, PlanKept DEF Inner
<1>7. CASE ReloadAdded
  <2>1. /\ UNCHANGED <<entries, pending, still, todo, work, cliVars>>
        /\ pc = "reloadAdd" /\ todo = Zero(EntryCmd) /\ pc' = "reloadRemove"
    BY <1>7 DEF ReloadAdded, regVars
  <2>2. AllUnmoved
    BY <2>1, UnmovedControl
  <2> QED
    BY <2>1, <2>2, PlanKept DEF Inner
<1> QED
  BY <1>1, <1>2, <1>3, <1>4, <1>5, <1>6, <1>7 DEF HiddenStep

LEMMA ClientInner ==
    ASSUME TypeInv, KeptInv, ClientStep
    PROVE  Inner
<1>1. UNCHANGED <<entries, pending, still, todo, work, pc>>
  BY DEF ClientStep, CliAdd, CliRemove, CliRemoveGroup, CliRollback, CliUnanswered,
         daemonVars, regVars, ctlVars
<1>2. AllUnmoved
  BY <1>1, UnmovedControl
<1> QED
  BY <1>1, <1>2, PlanKept DEF Inner

LEMMA NothingWhenDown ==
    ASSUME TypeInv, KeptInv, pc = "down"
    PROVE  \A p \in Path, c \in OptCmd : ~Registered(p, c)
<1>1. \A p \in Path : Bare(p) /\ Empty(pending, p) /\ Empty(still, p)
  BY DEF KeptInv, BagInv, BootInv
<1>2. \A p \in Path, e \in EntryCmd : ~WaitsAs(p, e)
  BY <1>1 DEF WaitsAs, Empty
<1> QED
  BY <1>1, <1>2, RegisteredAs DEF Bare

(* No handler loses a registration, for every number of paths, cmds,       *)
(* devices and groups: deletion, recreation, retries and failures of the   *)
(* factory only move it between the vectors.  With the race of             *)
(* check_pending and add_path it is lost (the run registry_race).          *)
THEOREM NoRegistrationLost == ~RaceWindow => (Spec => RegistrationKept)
<1> SUFFICES ASSUME ~RaceWindow PROVE Spec => RegistrationKept
  OBVIOUS
<1> DEFINE Kept ==
      \A p \in Path, c \in OptCmd :
        Registered(p, c) /\ ~Registered(p, c)' =>
          \/ \E m \in requests \ requests' : m.path = p /\ Normalise(m.cmd) = c
          \/ pc = "reloadRemove" /\ p \in work
          \/ pc' = "down"
<1>1. Init => TypeInv /\ KeptInv
  BY TypeInit, KeptInit
<1>2. TypeInv /\ KeptInv /\ [Next]_vars => (TypeInv /\ KeptInv)'
  BY TypeNext, KeptNext
<1>3. ASSUME TypeInv, TypeInv', KeptInv, Next PROVE Kept
  <2> SUFFICES ASSUME NEW p \in Path, NEW c \in OptCmd, Registered(p, c), ~Registered(p, c)'
               PROVE  \/ \E m \in requests \ requests' : m.path = p /\ Normalise(m.cmd) = c
                      \/ pc = "reloadRemove" /\ p \in work
                      \/ pc' = "down"
    OBVIOUS
  <2>1. CASE HiddenStep \/ ClientStep
    BY <1>3, <2>1, HiddenInner, ClientInner DEF Inner, AllUnmoved, Unmoved
  <2>2. CASE Start
    BY <1>3, <2>2, NothingWhenDown DEF Start
  <2>3. CASE Crash
    BY <2>3 DEF Crash
  <2>4. CASE StartReload
    <3>1. UNCHANGED <<entries, pending, still>> /\ pc = "idle" /\ pc' = "reloadAdd"
      BY <2>4 DEF StartReload, regVars
    <3>2. \A e \in EntryCmd : WaitsAs(p, e)' <=> WaitsAs(p, e)
      BY <3>1 DEF WaitsAs
    <3> QED
      BY <3>1, <3>2, SameVectors DEF Unmoved
  <2>5. CASE \E m \in requests : SocketAdd(m)
    <3>1. PICK m \in requests : SocketAdd(m)
      BY <2>5
    <3>2. p = m.path /\ c = Normalise(m.cmd)
      BY <1>3, <3>1, MovesSocketAdd DEF OnlyMoves
    <3>3. m.op = "add" /\ m \in Request
      BY <1>3, <3>1 DEF SocketAdd, TypeInv, TypeOK
    <3>4. [m EXCEPT !.op = "rollback"].op = "rollback"
      BY <3>3 DEF Request
    <3>5. m \notin requests'
      BY <3>1, <3>3, <3>4 DEF SocketAdd
    <3> QED
      BY <3>2, <3>5
  <2>6. CASE \E m \in requests : SocketRemove(m)
    <3>1. PICK m \in requests : SocketRemove(m)
      BY <2>6
    <3>2. /\ m.path \in Path /\ RemovePath(m.path, {m.cmd} \cap OptCmd) /\ pc = "idle"
          /\ UNCHANGED <<pc, pending, still>> /\ m \notin requests'
      BY <1>3, <3>1 DEF SocketRemove, ctlVars, TypeInv, TypeOK, Request
    <3>3. p = m.path /\ c \in {m.cmd} \cap OptCmd
      BY <1>3, <3>2, RemoveMoves
    <3>4. c = Normalise(m.cmd)
      BY <3>3, CmdNames
    <3> QED
      BY <3>2, <3>3, <3>4
  <2>7. CASE \E q \in Path, d \in EntryCmd : ReloadAdd(q, d)
    <3>1. PICK q \in Path, d \in EntryCmd : ReloadAdd(q, d)
      BY <2>7
    <3>2. FALSE
      BY <1>3, <3>1, MovesReloadAdd DEF OnlyMoves
    <3> QED
      BY <3>2
  <2>8. CASE \E q \in Path : ReloadRemove(q)
    <3>1. PICK q \in Path : ReloadRemove(q)
      BY <2>8
    <3>2. /\ RemovePath(q, OptCmd) /\ pc = "reloadRemove" /\ q \in work
          /\ UNCHANGED <<pc, pending, still>>
      BY <3>1 DEF ReloadRemove
    <3>3. p = q
      BY <1>3, <3>2, RemoveMoves
    <3> QED
      BY <3>2, <3>3
  <2> QED
    BY <1>3, <2>1, <2>2, <2>3, <2>4, <2>5, <2>6, <2>7, <2>8, NextForms
<1>4. ASSUME TypeInv, TypeInv', KeptInv, [Next]_vars PROVE [Kept]_vars
  BY <1>3, <1>4
<1> QED
  BY <1>1, <1>2, <1>4, PTL DEF Spec, RegistrationKept

-----------------------------------------------------------------------------
(* The refinement: each step of the registry is a step of Registrations.   *)

LEMMA AbsVars ==
    ASSUME Inner
    PROVE  /\ Reg' = Reg /\ Plan' = Plan /\ work' = work
           /\ (pc # "down")' = (pc # "down")
BY RegUnmoved DEF Inner

LEMMA AbsHidden ==
    ASSUME TypeInv, TypeInv', KeptInv, HiddenStep
    PROVE  UNCHANGED Abs!vars
<1>1. Inner /\ UNCHANGED cliVars
  BY HiddenInner
<1>2. /\ Reg' = Reg /\ Plan' = Plan /\ work' = work /\ (pc # "down")' = (pc # "down")
      /\ store' = store /\ requests' = requests
  BY <1>1, AbsVars DEF cliVars
<1> QED
  BY <1>2 DEF Abs!vars, Plan

LEMMA AbsClient ==
    ASSUME TypeInv, KeptInv, ClientStep
    PROVE  Abs!Next
<1>1. /\ Reg' = Reg /\ Plan' = Plan /\ work' = work /\ (pc # "down")' = (pc # "down")
  BY ClientInner, AbsVars
<1>2. CASE \E p \in Path, c \in StoreCmd : CliAdd(p, c) \/ CliRemove(p, c)
  <2>1. PICK p \in Path, c \in StoreCmd : CliAdd(p, c) \/ CliRemove(p, c)
    BY <1>2
  <2>2. \E m \in Abs!Command : Abs!Ask(m)
    <3>1. CASE CliAdd(p, c)
      <4> DEFINE m == [op |-> "add", path |-> p, cmd |-> c]
      <4>1. m \in Abs!Command
        BY DEF Abs!Command
      <4>2. Abs!Ask(m)
        BY <1>1, <3>1 DEF Abs!Ask, Abs!Of, CliAdd, Plan
      <4> QED
        BY <4>1, <4>2
    <3>2. CASE CliRemove(p, c)
      <4> DEFINE m == [op |-> "remove", path |-> p, cmd |-> c]
      <4>1. m \in Abs!Command
        BY DEF Abs!Command
      <4>2. Abs!Ask(m)
        BY <1>1, <3>2 DEF Abs!Ask, Abs!Of, CliRemove, Plan
      <4> QED
        BY <4>1, <4>2
    <3> QED
      BY <2>1, <3>1, <3>2
  <2> QED
    BY <2>2 DEF Abs!Next
<1>3. CASE \E c \in StoreCmd : CliRemoveGroup(c)
  <2>1. PICK c \in StoreCmd : CliRemoveGroup(c)
    BY <1>3
  <2>2. Abs!DropGroup(c)
    BY <1>1, <2>1 DEF Abs!DropGroup, CliRemoveGroup, Plan
  <2> QED
    BY <2>2 DEF Abs!Next
<1>4. CASE \E m \in requests : CliRollback(m) \/ CliUnanswered(m)
  <2>1. PICK m \in requests : CliRollback(m) \/ CliUnanswered(m)
    BY <1>4
  <2>2. Abs!Unanswered(m)
    BY <1>1, <2>1 DEF Abs!Unanswered, Abs!Of, CliRollback, CliUnanswered, Plan
  <2> QED
    BY <2>1, <2>2 DEF Abs!Next
<1> QED
  BY <1>2, <1>3, <1>4 DEF ClientStep

LEMMA AbsStart ==
    ASSUME TypeInv, KeptInv, Start
    PROVE  Abs!Next
<1>1. /\ pc = "down" /\ pc' = "boot" /\ todo' = StartBag
      /\ UNCHANGED <<store, requests, entries, pending, still, work>>
  BY DEF Start, cliVars, regVars
<1>2. \A p \in Path : Bare(p) /\ Empty(pending, p) /\ Empty(still, p)
  BY <1>1 DEF KeptInv, BagInv, BootInv
<1>3. \A p \in Path, e \in EntryCmd :
        WaitsAs(p, e)' <=> \E t \in StoreCmd : <<p, t>> \in store /\ Normalise(t) = e
  BY <1>1, <1>2, StartBagAt DEF WaitsAs, Empty
<1>4. ASSUME NEW p \in Path, NEW s \in StoreCmd
      PROVE  <<p, s>> \in Reg' <=> <<p, s>> \in store
  <2>1. Normalise(s) \in OptCmd /\ Normalise(s) \in EntryCmd /\ Normalise(Normalise(s)) = Normalise(s)
    BY CmdNames DEF Normalise, StoreCmd, OptCmd, EntryCmd
  <2>2. ~(entries'[p][Normalise(s)] > 0)
    BY <1>1, <1>2, <2>1 DEF Bare
  <2>3. <<p, s>> \in Reg' <=> \E e \in EntryCmd : Normalise(e) = Normalise(s) /\ WaitsAs(p, e)'
    BY <2>2, RegAt, RegisteredAs
  <2>4. ASSUME NEW e \in EntryCmd, Normalise(e) = Normalise(s), WaitsAs(p, e)'
        PROVE  <<p, s>> \in store
    <3>1. PICK t \in StoreCmd : <<p, t>> \in store /\ Normalise(t) = e
      BY <1>3, <2>4
    <3>2. Normalise(e) = e
      BY <3>1, CmdNames DEF Normalise, StoreCmd
    <3>3. t = s
      BY <2>4, <3>1, <3>2, CmdNames
    <3> QED
      BY <3>1, <3>3
  <2>5. <<p, s>> \in store => WaitsAs(p, Normalise(s))'
    BY <1>3, <2>1
  <2> QED
    BY <2>1, <2>3, <2>4, <2>5
<1>5. Reg' = store
  <2>1. Reg' \subseteq Path \X StoreCmd /\ store \subseteq Path \X StoreCmd
    BY DEF Reg, TypeInv, TypeOK
  <2> QED
    BY <1>4, <2>1
<1>6. Plan' = Plan
  BY <1>1, PlanKept
<1>7. Abs!Start
  BY <1>1, <1>5, <1>6 DEF Abs!Start, Plan
<1> QED
  BY <1>7 DEF Abs!Next

LEMMA AbsCrash ==
    ASSUME TypeInv, TypeInv', KeptInv, Crash
    PROVE  Abs!Next
<1>1. KeptInv' /\ pc # "down" /\ pc' = "down" /\ UNCHANGED <<store, requests>> /\ work' = {}
  BY KeptCrash DEF Crash, cliVars
<1>2. \A p \in Path, c \in OptCmd : ~Registered(p, c)'
  <2>1. \A p \in Path : Bare(p)' /\ Empty(pending, p)' /\ Empty(still, p)'
    BY <1>1 DEF KeptInv, BagInv, BootInv
  <2>2. \A p \in Path, e \in EntryCmd : ~WaitsAs(p, e)'
    BY <1>1, <2>1 DEF WaitsAs, Empty
  <2> QED
    BY <2>1, <2>2, RegisteredAs DEF Bare
<1>3. Reg' = {}
  <2>1. Reg' \subseteq Path \X StoreCmd
    BY DEF Reg
  <2>2. \A p \in Path, s \in StoreCmd : <<p, s>> \notin Reg'
    BY <1>2, RegAt
  <2> QED
    BY <2>1, <2>2
<1>4. Plan' = {}
  BY <1>1 DEF Plan
<1>5. Abs!Crash
  BY <1>1, <1>3, <1>4 DEF Abs!Crash, Plan
<1> QED
  BY <1>5 DEF Abs!Next

LEMMA AbsSocketAdd ==
    ASSUME TypeInv, TypeInv', KeptInv, NEW m \in requests, SocketAdd(m)
    PROVE  Abs!Next
<1> DEFINE p == m.path
           s == m.cmd
<1>1. p \in Path /\ s \in StoreCmd
  BY DEF TypeInv, TypeOK, Request
<1>2. /\ OnlyMoves(p, Normalise(s))
      /\ p \notin paths' /\ p \in LogPath => ~Registered(p, Normalise(s))'
  BY MovesSocketAdd
<1>3. /\ pc = "idle" /\ pc' = pc /\ todo' = todo /\ work' = work /\ store' = store
      /\ m.op = "add"
  BY DEF SocketAdd, ctlVars
<1>4. \/ requests' = requests \ {m}
      \/ /\ requests' = (requests \ {m}) \cup {[m EXCEPT !.op = "rollback"]}
         /\ ~Registered(p, Normalise(s))'
  <2>1. AddPermanent([entries EXCEPT ![p][Normalise(s)] = 0], p)
          => p \notin paths' /\ p \in LogPath
    BY DEF AddPermanent
  <2> QED
    BY <1>2, <2>1 DEF SocketAdd
<1> HIDE DEF p, s
<1>5. /\ Registered(p, Normalise(s))' => Reg' = Reg \cup {<<p, s>>}
      /\ ~Registered(p, Normalise(s))' => Reg' = Reg \ {<<p, s>>}
  BY <1>1, <1>2, RegOnlyMoves
<1>6. Plan' = Plan
  BY <1>3, PlanKept
<1>7. Abs!Of(m) = <<p, s>>
  BY DEF Abs!Of, p, s
<1>8. \/ requests' = requests \ {m}
      \/ /\ requests' = (requests \ {m}) \cup {[m EXCEPT !.op = "rollback"]}
         /\ <<p, s>> \notin Reg'
  BY <1>4, <1>5
<1>9. Reg' \in {Reg \cup {<<p, s>>}, Reg \ {<<p, s>>}}
  BY <1>5
<1>10. Abs!Answer(m)
  BY <1>3, <1>6, <1>7, <1>8, <1>9 DEF Abs!Answer, Plan
<1> QED
  BY <1>10 DEF Abs!Next

LEMMA AbsSocketRemove ==
    ASSUME TypeInv, KeptInv, NEW m \in requests, SocketRemove(m)
    PROVE  Abs!Next
<1> DEFINE p == m.path
           s == m.cmd
<1>1. p \in Path /\ s \in StoreCmd
  BY DEF TypeInv, TypeOK, Request
<1>2. /\ pc = "idle" /\ pc' = pc /\ todo' = todo /\ work' = work /\ store' = store
      /\ m.op = "remove" /\ requests' = requests \ {m}
      /\ RemovePath(p, {s} \cap OptCmd) /\ UNCHANGED <<pc, pending, still>>
  BY DEF SocketRemove, ctlVars
<1>3. Abs!Of(m) = <<p, s>>
  BY DEF Abs!Of
<1> HIDE DEF p, s
<1>4. \A q \in Path, d \in OptCmd :
        /\ Registered(q, d)' => Registered(q, d)
        /\ q # p \/ d \notin {s} \cap OptCmd => (Registered(q, d)' <=> Registered(q, d))
  BY <1>1, <1>2, RemoveMoves
<1>5. {s} \cap OptCmd \subseteq {Normalise(s)}
  BY CmdNames
<1>6. OnlyMoves(p, Normalise(s))
  BY <1>4, <1>5 DEF OnlyMoves
<1>7. Registered(p, Normalise(s))' => <<p, s>> \in Reg
  BY <1>1, <1>4, RegAt
<1>8. Reg' \in {Reg, Reg \ {<<p, s>>}}
  <2>1. CASE Registered(p, Normalise(s))'
    <3>1. Reg' = Reg \cup {<<p, s>>} /\ <<p, s>> \in Reg
      BY <1>1, <1>6, <1>7, <2>1, RegOnlyMoves
    <3> QED
      BY <3>1
  <2>2. CASE ~Registered(p, Normalise(s))'
    BY <1>1, <1>6, <2>2, RegOnlyMoves
  <2> QED
    BY <2>1, <2>2
<1>9. Plan' = Plan
  BY <1>2, PlanKept
<1>10. Abs!Answer(m)
  BY <1>2, <1>3, <1>8, <1>9 DEF Abs!Answer, Plan
<1> QED
  BY <1>10 DEF Abs!Next

LEMMA AbsReload ==
    ASSUME TypeInv, KeptInv, StartReload
    PROVE  Abs!Next
<1>1. /\ pc = "idle" /\ pc' = "reloadAdd" /\ todo' = ReloadBag /\ work' = paths \ StorePaths
      /\ UNCHANGED <<store, requests, entries, pending, still>>
  BY DEF StartReload, cliVars, regVars
<1>2. \A p \in Path, e \in EntryCmd : WaitsAs(p, e)' <=> WaitsAs(p, e)
  BY <1>1 DEF WaitsAs
<1>3. AllUnmoved
  BY <1>1, <1>2, SameVectors DEF AllUnmoved
<1>4. Reg' = Reg
  BY <1>3, RegUnmoved
<1>5. Plan' = store
  <2>1. store \subseteq Path \X StoreCmd
    BY DEF TypeInv, TypeOK
  <2>2. \A p \in Path, s \in StoreCmd : todo'[p][s] = IF <<p, s>> \in store THEN 1 ELSE 0
    BY <1>1, ReloadBagAt DEF StoreCmd, EntryCmd
  <2>3. \A p \in Path, s \in StoreCmd : todo'[p][s] > 0 <=> <<p, s>> \in store
    <3> SUFFICES ASSUME NEW p \in Path, NEW s \in StoreCmd
                 PROVE  todo'[p][s] > 0 <=> <<p, s>> \in store
      OBVIOUS
    <3>1. CASE <<p, s>> \in store
      BY <2>2, <3>1
    <3>2. CASE <<p, s>> \notin store
      BY <2>2, <3>2
    <3> QED
      BY <3>1, <3>2
  <2>4. Plan' = {r \in Path \X StoreCmd : todo'[r[1]][r[2]] > 0}
    BY <1>1 DEF Plan
  <2> QED
    BY <2>1, <2>3, <2>4
<1>6. work' \in SUBSET {p \in Path : \A c \in StoreCmd : <<p, c>> \notin store}
  BY <1>1 DEF StorePaths, TypeInv, TypeOK
<1>7. Abs!Reload
  BY <1>1, <1>4, <1>5, <1>6 DEF Abs!Reload, Plan
<1> QED
  BY <1>7 DEF Abs!Next

LEMMA AbsReloadAdd ==
    ASSUME TypeInv, TypeInv', KeptInv, NEW p \in Path, NEW c \in EntryCmd, ReloadAdd(p, c)
    PROVE  Abs!Next
<1>1. /\ pc = "reloadAdd" /\ pc' = pc /\ work' = work /\ UNCHANGED <<store, requests>>
      /\ todo[p][c] > 0 /\ Visited(p, c)
  BY DEF ReloadAdd, cliVars
<1>2. /\ \A q \in Path, e \in EntryCmd : todo[q][e] \in Nat /\ todo[q][e] <= 1
      /\ todo[p][None] = 0
  BY <1>1 DEF KeptInv, BagInv, TypeInv, TypeOK
<1>3. c \in StoreCmd
  BY <1>1, <1>2 DEF EntryCmd, StoreCmd
<1>4. \A q \in Path, e \in EntryCmd :
        todo'[q][e] = IF q = p /\ e = c THEN todo[q][e] - 1 ELSE todo[q][e]
  BY <1>1, VisitedAt DEF TypeInv
<1>5. ASSUME NEW q \in Path, NEW e \in StoreCmd
      PROVE  todo'[q][e] > 0 <=> todo[q][e] > 0 /\ <<q, e>> # <<p, c>>
  <2>1. e \in EntryCmd
    BY DEF StoreCmd, EntryCmd
  <2>2. CASE q = p /\ e = c
    BY <1>2, <1>4, <2>1, <2>2
  <2>3. CASE ~(q = p /\ e = c)
    BY <1>4, <2>1, <2>3
  <2> QED
    BY <2>2, <2>3
<1>6. Plan' = Plan \ {<<p, c>>} /\ <<p, c>> \in Plan
  <2>1. /\ Plan = {r \in Path \X StoreCmd : todo[r[1]][r[2]] > 0}
        /\ Plan' = {r \in Path \X StoreCmd : todo'[r[1]][r[2]] > 0}
    BY <1>1 DEF Plan
  <2> QED
    BY <1>1, <1>3, <1>5, <2>1
<1>7. /\ OnlyMoves(p, Normalise(c))
      /\ Registered(p, Normalise(c)) => Registered(p, Normalise(c))'
  BY MovesReloadAdd
<1>8. Reg' \in {Reg, Reg \cup {<<p, c>>}}
  <2>1. CASE Registered(p, Normalise(c))'
    BY <1>3, <1>7, <2>1, RegOnlyMoves
  <2>2. CASE ~Registered(p, Normalise(c))'
    <3>1. <<p, c>> \notin Reg
      BY <1>3, <1>7, <2>2, RegAt
    <3>2. Reg' = Reg \ {<<p, c>>}
      BY <1>3, <1>7, <2>2, RegOnlyMoves
    <3> QED
      BY <3>1, <3>2
  <2> QED
    BY <2>1, <2>2
<1>9. Abs!ReloadAdd(<<p, c>>)
  BY <1>1, <1>6, <1>8 DEF Abs!ReloadAdd, Plan
<1> QED
  BY <1>6, <1>9 DEF Abs!Next, Plan

LEMMA AbsReloadRemove ==
    ASSUME TypeInv, KeptInv, NEW p \in Path, ReloadRemove(p)
    PROVE  Abs!Next
<1>1. /\ pc = "reloadRemove" /\ pc' = pc /\ p \in work /\ work' = work \ {p}
      /\ UNCHANGED <<store, requests, pc, pending, still>> /\ RemovePath(p, OptCmd)
  BY DEF ReloadRemove, cliVars
<1>2. \A q \in Path, d \in OptCmd :
        /\ Registered(q, d)' => Registered(q, d)
        /\ q # p => (Registered(q, d)' <=> Registered(q, d))
  BY <1>1, RemoveMoves
<1>3. Reg \subseteq Path \X StoreCmd /\ Reg' \subseteq Path \X StoreCmd
  BY DEF Reg
<1>4. \A q \in Path, s \in StoreCmd :
        /\ <<q, s>> \in Reg' => <<q, s>> \in Reg
        /\ q # p => (<<q, s>> \in Reg' <=> <<q, s>> \in Reg)
  BY <1>2, RegAt
<1>5. Reg' \in SUBSET Reg
  BY <1>3, <1>4
<1>6. \A r \in Reg \ Reg' : r[1] = p
  BY <1>3, <1>4
<1>7. Plan = {} /\ Plan' = {}
  BY <1>1 DEF Plan
<1>8. Abs!ReloadRemove(p)
  BY <1>1, <1>5, <1>6, <1>7 DEF Abs!ReloadRemove, Plan
<1> QED
  BY <1>1, <1>8 DEF Abs!Next

LEMMA AbsInit == Init => Abs!Init
<1> SUFFICES ASSUME Init PROVE Abs!Init
  OBVIOUS
<1>1. KeptInv /\ TypeInv /\ pc = "down"
  BY KeptInit, TypeInit DEF Init
<1>2. Reg = {}
  <2>1. \A p \in Path, c \in OptCmd : ~Registered(p, c)
    BY <1>1, NothingWhenDown
  <2>2. \A p \in Path, s \in StoreCmd : <<p, s>> \notin Reg
    BY <2>1, RegAt
  <2>3. Reg \subseteq Path \X StoreCmd
    BY DEF Reg
  <2> QED
    BY <2>2, <2>3
<1>3. Plan = {}
  BY <1>1 DEF Plan
<1> QED
  BY <1>2, <1>3 DEF Init, Abs!Init, Plan

(* The registry implements Registrations, for every number of paths, cmds, *)
(* devices and groups: groups, marks, deleted directories and retries are  *)
(* stuttering to the clients (as long as no path vanishes between two      *)
(* tests of one handler).                                                  *)
THEOREM RegistryImplements == ~RaceWindow => (Spec => ImplementsRegistrations)
<1> SUFFICES ASSUME ~RaceWindow PROVE Spec => ImplementsRegistrations
  OBVIOUS
<1>1. Init => TypeInv /\ KeptInv
  BY TypeInit, KeptInit
<1>2. TypeInv /\ KeptInv /\ [Next]_vars => (TypeInv /\ KeptInv)'
  BY TypeNext, KeptNext
<1>3. Init => Abs!Init
  BY AbsInit
<1>4. ASSUME TypeInv, TypeInv', KeptInv, [Next]_vars PROVE [Abs!Next]_(Abs!vars)
  <2>1. CASE UNCHANGED vars
    <3>1. UNCHANGED <<store, requests, entries, pending, still, todo, work, pc>>
      BY <2>1 DEF vars
    <3>2. Inner
      BY <1>4, <3>1, UnmovedControl, PlanKept DEF Inner
    <3>3. UNCHANGED Abs!vars
      BY <3>1, <3>2, AbsVars DEF Abs!vars, Plan
    <3> QED
      BY <3>3
  <2>2. CASE Next
    BY <1>4, <2>2, NextForms, AbsHidden, AbsClient, AbsStart, AbsCrash, AbsReload,
       AbsSocketAdd, AbsSocketRemove, AbsReloadAdd, AbsReloadRemove
  <2> QED
    BY <1>4, <2>1, <2>2
<1> QED
  BY <1>1, <1>2, <1>3, <1>4, PTL DEF Spec, ImplementsRegistrations, Abs!Spec

=============================================================================
