----------------------- MODULE ReaderSupervisorProofs -----------------------
(***************************************************************************)
(* The reader supervision, for every set of keys, every MAX_RESTARTS and   *)
(* every BACKOFF_WINDOW.                                                   *)
(***************************************************************************)
EXTENDS ReaderSupervisor, TLAPS

(* The starts of one reader: they are in order of time, and from the one   *)
(* after MaxRestarts on each comes a Window after the one before.          *)
Paced(s) ==
    /\ \A i, j \in 1..Len(s) : i <= j => s[i] <= s[j]
    /\ \A i \in 1..Len(s) : i > MaxRestarts => s[i] - s[i - 1] >= Window

(* restart_count and last_restart agree with the recorded starts, which is *)
(* what makes the bound on the starts inductive.                           *)
KeyPaced(s, n, l, t) ==
    /\ n = Len(s)
    /\ Len(s) > 0 => l = s[Len(s)] /\ l <= t
    /\ Paced(s)

PaceInv ==
    \A k \in Key :
      /\ k \notin created => spawned[k] = <<>> /\ tasks[k] = 0 /\ notices[k] = 0
      /\ KeyPaced(spawned[k], count[k], last[k], now)

IInv == TypeOK /\ PaceInv /\ OneReader

LEMMA SpawnPaced ==
    ASSUME NEW s \in Seq(Nat), NEW t \in Nat, Paced(s),
           Len(s) > 0 => s[Len(s)] <= t,
           Len(s) >= MaxRestarts => t - s[Len(s)] >= Window
    PROVE  /\ Append(s, t) \in Seq(Nat)
           /\ Len(Append(s, t)) = Len(s) + 1
           /\ Append(s, t)[Len(s) + 1] = t
           /\ Paced(Append(s, t))
<1> DEFINE u == Append(s, t)
           n == Len(s)
<1>1. MaxRestarts \in Nat /\ MaxRestarts > 0
  BY SupervisorAssumption DEF SupervisorAssumption
<1>2. n \in Nat /\ u \in Seq(Nat) /\ Len(u) = n + 1 /\ u[n + 1] = t
  OBVIOUS
<1>3. \A i \in 1..n : u[i] = s[i] /\ s[i] \in Nat
  OBVIOUS
<1> HIDE DEF u, n
<1>4. \A i, j \in 1..n : i <= j => s[i] <= s[j]
  BY DEF Paced, n
<1>5. \A i \in 1..n : s[i] <= t
  <2> TAKE i \in 1..n
  <2>1. n > 0 /\ n \in 1..n /\ s[n] <= t
    BY <1>2 DEF n
  <2> QED
    BY <1>2, <1>3, <1>4, <2>1
<1>6. \A i, j \in 1..Len(u) : i <= j => u[i] <= u[j]
  <2> TAKE i \in 1..Len(u), j \in 1..Len(u)
  <2> HAVE i <= j
  <2>1. CASE j \in 1..n
    <3>1. i \in 1..n
      BY <1>2, <2>1
    <3> QED
      BY <1>3, <1>4, <2>1, <3>1
  <2>2. CASE j = n + 1 /\ i \in 1..n
    BY <1>2, <1>3, <1>5, <2>2
  <2>3. CASE j = n + 1 /\ i = n + 1
    BY <1>2, <2>3
  <2> QED
    BY <1>2, <2>1, <2>2, <2>3
<1>7. \A i \in 1..Len(u) : i > MaxRestarts => u[i] - u[i - 1] >= Window
  <2> TAKE i \in 1..Len(u)
  <2> HAVE i > MaxRestarts
  <2>1. CASE i \in 1..n
    <3>1. i - 1 \in 1..n
      BY <1>1, <1>2, <2>1
    <3>2. s[i] - s[i - 1] >= Window
      BY <2>1 DEF Paced, n
    <3> QED
      BY <1>3, <2>1, <3>1, <3>2
  <2>2. CASE i = n + 1
    <3>1. n \in 1..n /\ i - 1 = n /\ n >= MaxRestarts
      BY <1>1, <1>2, <2>2
    <3>2. t - s[n] >= Window
      BY <3>1 DEF n
    <3> QED
      BY <1>2, <1>3, <2>2, <3>1, <3>2
  <2> QED
    BY <1>2, <2>1, <2>2
<1> QED
  BY <1>2, <1>6, <1>7 DEF u, n, Paced

LEMMA InitInv == Init => IInv
BY DEF Init, IInv, TypeOK, PaceInv, OneReader, KeyPaced, Paced

(* spawn_fd_reader keeps the pace when the caller has checked the window.  *)
LEMMA SpawnInv ==
    ASSUME IInv, NEW k \in Key, SpawnFdReader(k),
           count[k] >= MaxRestarts => now - last[k] >= Window
    PROVE  /\ tasks' \in [Key -> Nat] /\ count' \in [Key -> Nat]
           /\ last' \in [Key -> Nat] /\ gaveUp' \in [Key -> BOOLEAN]
           /\ spawned' \in [Key -> Seq(Nat)]
           /\ \A j \in Key : j # k => tasks'[j] = tasks[j] /\ spawned'[j] = spawned[j]
           /\ \A j \in Key : KeyPaced(spawned'[j], count'[j], last'[j], now)
           /\ tasks'[k] <= tasks[k] + 1 /\ undup' \subseteq Key
<1>1. CASE DupFails(k)
  BY <1>1 DEF DupFails, stateVars, IInv, TypeOK, PaceInv
<1>2. CASE Spawned(k)
  <2> DEFINE s == spawned[k]
             u == Append(s, now)
  <2>1. s \in Seq(Nat) /\ now \in Nat /\ last[k] \in Nat /\ Len(s) \in Nat
    BY DEF IInv, TypeOK
  <2>2. KeyPaced(s, count[k], last[k], now)
    BY DEF IInv, PaceInv
  <2>3. MaxRestarts \in Nat /\ MaxRestarts > 0
    BY SupervisorAssumption DEF SupervisorAssumption
  <2>4. /\ tasks' \in [Key -> Nat] /\ count' \in [Key -> Nat]
        /\ last' \in [Key -> Nat]
        /\ tasks'[k] = tasks[k] + 1 /\ count'[k] = count[k] + 1 /\ last'[k] = now
    BY <1>2, <2>1 DEF Spawned, IInv, TypeOK
  <2>5. gaveUp' \in [Key -> BOOLEAN] /\ undup' \subseteq Key
    BY <1>2 DEF Spawned, IInv, TypeOK
  <2>6. spawned' \in [Key -> Seq(Nat)] /\ spawned'[k] = u
    BY <1>2, <2>1 DEF Spawned, IInv, TypeOK
  <2>7. \A j \in Key : j # k =>
          /\ tasks'[j] = tasks[j] /\ spawned'[j] = spawned[j]
          /\ count'[j] = count[j] /\ last'[j] = last[j]
    BY <1>2 DEF Spawned, IInv, TypeOK
  <2> HIDE DEF s
  <2>8. count[k] = Len(s) /\ Paced(s)
    BY <2>2 DEF KeyPaced
  <2>9. Len(s) > 0 => s[Len(s)] <= now
    BY <2>2 DEF KeyPaced
  <2>10. Len(s) >= MaxRestarts => now - s[Len(s)] >= Window
    <3> HAVE Len(s) >= MaxRestarts
    <3>1. Len(s) > 0
      BY <2>1, <2>3
    <3>2. last[k] = s[Len(s)]
      BY <2>2, <3>1 DEF KeyPaced
    <3> QED
      BY <2>8, <3>2
  <2>11. Len(u) = Len(s) + 1 /\ u[Len(s) + 1] = now /\ Paced(u)
    BY <2>1, <2>8, <2>9, <2>10, SpawnPaced
  <2> HIDE DEF u
  <2>12. KeyPaced(spawned'[k], count'[k], last'[k], now)
    <3>1. KeyPaced(u, Len(s) + 1, now, now)
      BY <2>1, <2>11 DEF KeyPaced
    <3> QED
      BY <2>4, <2>6, <2>8, <3>1
  <2>13. ASSUME NEW j \in Key, j # k
         PROVE  KeyPaced(spawned'[j], count'[j], last'[j], now)
    BY <2>7, <2>13 DEF IInv, PaceInv
  <2>14. \A j \in Key : KeyPaced(spawned'[j], count'[j], last'[j], now)
    BY <2>12, <2>13
  <2>15. tasks'[k] <= tasks[k] + 1
    BY <2>4 DEF IInv, TypeOK
  <2> QED
    BY <2>4, <2>5, <2>6, <2>7, <2>14, <2>15
<1> QED
  BY <1>1, <1>2 DEF SpawnFdReader

LEMMA NextInv == IInv /\ [Next]_vars => IInv'
<1> SUFFICES ASSUME IInv, [Next]_vars PROVE IInv'
  OBVIOUS
<1>1. CASE UNCHANGED vars
  BY <1>1 DEF vars, IInv, TypeOK, PaceInv, OneReader
<1>2. CASE Tick
  <2>1. now \in Nat /\ now' = now + 1 /\ last \in [Key -> Nat]
    BY <1>2 DEF Tick, IInv, TypeOK
  <2>2. TypeOK'
    BY <1>2 DEF Tick, stateVars, IInv, TypeOK
  <2>3. \A k \in Key : KeyPaced(spawned[k], count[k], last[k], now')
    BY <2>1 DEF IInv, PaceInv, KeyPaced
  <2>4. PaceInv'
    BY <1>2, <2>3 DEF Tick, stateVars, IInv, PaceInv
  <2>5. OneReader'
    BY <1>2 DEF Tick, IInv, OneReader
  <2> QED
    BY <2>2, <2>4, <2>5 DEF IInv
<1>3. ASSUME NEW k \in Key, CreateGroup(k) PROVE IInv'
  <2>1. spawned[k] = <<>> /\ tasks[k] = 0 /\ notices[k] = 0
    BY <1>3 DEF CreateGroup, IInv, PaceInv
  <2>2. count[k] = 0
    BY <2>1 DEF IInv, PaceInv, KeyPaced
  <2>3. count[k] >= MaxRestarts => now - last[k] >= Window
    BY <2>2, SupervisorAssumption DEF SupervisorAssumption
  <2>4. SpawnFdReader(k)
    BY <1>3 DEF CreateGroup
  <2>5. /\ created' = created \cup {k} /\ groups' = groups \cup {k}
        /\ now' = now /\ notices' = notices
    BY <1>3 DEF CreateGroup
  <2>6. /\ tasks' \in [Key -> Nat] /\ count' \in [Key -> Nat]
        /\ last' \in [Key -> Nat] /\ gaveUp' \in [Key -> BOOLEAN]
        /\ spawned' \in [Key -> Seq(Nat)]
        /\ \A j \in Key : j # k => tasks'[j] = tasks[j] /\ spawned'[j] = spawned[j]
        /\ \A j \in Key : KeyPaced(spawned'[j], count'[j], last'[j], now)
        /\ tasks'[k] <= tasks[k] + 1 /\ undup' \subseteq Key
    BY <2>3, <2>4, SpawnInv
  <2>7. TypeOK'
    BY <2>5, <2>6 DEF IInv, TypeOK
  <2>8. PaceInv'
    BY <2>5, <2>6 DEF IInv, PaceInv
  <2>9. OneReader'
    <3> SUFFICES ASSUME NEW j \in Key PROVE tasks'[j] + notices'[j] <= 1
      BY DEF OneReader
    <3>1. CASE j = k
      BY <2>1, <2>5, <2>6, <3>1
    <3>2. CASE j # k
      BY <2>5, <2>6, <3>2 DEF IInv, OneReader
    <3> QED
      BY <3>1, <3>2
  <2> QED
    BY <2>7, <2>8, <2>9 DEF IInv
<1>4. ASSUME NEW k \in Key, RemoveGroup(k) PROVE IInv'
  <2>1. /\ groups' = groups \ {k}
        /\ now' = now /\ created' = created /\ tasks' = tasks /\ notices' = notices
        /\ count' = count /\ last' = last /\ gaveUp' = gaveUp
        /\ spawned' = spawned /\ undup' = undup
    BY <1>4 DEF RemoveGroup, stateVars
  <2> QED
    BY <2>1 DEF IInv, TypeOK, PaceInv, OneReader
<1>5. ASSUME NEW k \in Key, ReaderExits(k) PROVE IInv'
  <2>0. /\ tasks \in [Key -> Nat] /\ notices \in [Key -> Nat] /\ tasks[k] > 0
        /\ tasks' = [tasks EXCEPT ![k] = @ - 1]
        /\ notices' = [notices EXCEPT ![k] = @ + 1]
    BY <1>5 DEF ReaderExits, IInv, TypeOK
  <2>1. tasks' \in [Key -> Nat] /\ notices' \in [Key -> Nat]
    BY <2>0
  <2>2. /\ tasks'[k] + notices'[k] = tasks[k] + notices[k]
        /\ \A j \in Key : j # k => tasks'[j] = tasks[j] /\ notices'[j] = notices[j]
    BY <2>0
  <2>3. undup' = undup
    BY <1>5 DEF ReaderExits
  <2>4. /\ now' = now /\ created' = created /\ groups' = groups
        /\ count' = count /\ last' = last /\ gaveUp' = gaveUp /\ spawned' = spawned
    BY <1>5 DEF ReaderExits, stateVars
  <2>5. k \in created
    BY <2>0 DEF IInv, PaceInv
  <2>6. TypeOK'
    BY <2>1, <2>3, <2>4 DEF IInv, TypeOK
  <2>7. PaceInv'
    BY <2>2, <2>4, <2>5 DEF IInv, PaceInv
  <2>8. OneReader'
    BY <2>2 DEF IInv, OneReader
  <2> QED
    BY <2>6, <2>7, <2>8 DEF IInv
<1>6. ASSUME NEW k \in Key, RestartReader(k) PROVE IInv'
  <2>1. notices \in [Key -> Nat] /\ tasks \in [Key -> Nat]
    BY DEF IInv, TypeOK
  <2>2. notices[k] > 0 /\ notices' = [notices EXCEPT ![k] = @ - 1]
    BY <1>6 DEF RestartReader, TakeNotice
  <2>3. /\ notices' \in [Key -> Nat] /\ notices'[k] = notices[k] - 1
        /\ \A j \in Key : j # k => notices'[j] = notices[j]
    BY <2>1, <2>2
  <2>4. now' = now /\ created' = created /\ groups' = groups
    BY <1>6 DEF RestartReader
  <2>5. k \in created
    BY <2>2 DEF IInv, PaceInv
  <2>6. tasks[k] = 0 /\ notices[k] = 1
    <3>1. tasks[k] + notices[k] <= 1
      BY DEF IInv, OneReader
    <3> QED
      BY <2>1, <2>2, <3>1
  <2>7. CASE GiveUp(k) \/ UNCHANGED <<tasks, stateVars, spawned, undup>>
    <3>1. gaveUp' \in [Key -> BOOLEAN]
      BY <2>7 DEF GiveUp, stateVars, IInv, TypeOK
    <3>2. /\ tasks' = tasks /\ count' = count /\ last' = last /\ spawned' = spawned
          /\ undup' = undup
      BY <2>7 DEF GiveUp, stateVars
    <3>3. TypeOK'
      BY <2>3, <2>4, <3>1, <3>2 DEF IInv, TypeOK
    <3>4. PaceInv'
      BY <2>3, <2>4, <2>5, <3>2 DEF IInv, PaceInv
    <3>5. OneReader'
      <4> SUFFICES ASSUME NEW j \in Key PROVE tasks'[j] + notices'[j] <= 1
        BY DEF OneReader
      <4>1. CASE j = k
        BY <2>3, <2>6, <3>2, <4>1
      <4>2. CASE j # k
        BY <2>3, <3>2, <4>2 DEF IInv, OneReader
      <4> QED
        BY <4>1, <4>2
    <3> QED
      BY <3>3, <3>4, <3>5 DEF IInv
  <2>8. CASE SpawnFdReader(k) /\ ~(InWindow(k) /\ count[k] >= MaxRestarts)
    <3>1. count[k] >= MaxRestarts => now - last[k] >= Window
      BY <2>8, SupervisorAssumption DEF InWindow, IInv, TypeOK, SupervisorAssumption
    <3>2. /\ tasks' \in [Key -> Nat] /\ count' \in [Key -> Nat]
          /\ last' \in [Key -> Nat] /\ gaveUp' \in [Key -> BOOLEAN]
          /\ spawned' \in [Key -> Seq(Nat)]
          /\ \A j \in Key : j # k => tasks'[j] = tasks[j] /\ spawned'[j] = spawned[j]
          /\ \A j \in Key : KeyPaced(spawned'[j], count'[j], last'[j], now)
          /\ tasks'[k] <= tasks[k] + 1 /\ undup' \subseteq Key
      BY <2>8, <3>1, SpawnInv
    <3>3. TypeOK'
      BY <2>3, <2>4, <3>2 DEF IInv, TypeOK
    <3>4. PaceInv'
      BY <2>3, <2>4, <2>5, <3>2 DEF IInv, PaceInv
    <3>5. OneReader'
      <4> SUFFICES ASSUME NEW j \in Key PROVE tasks'[j] + notices'[j] <= 1
        BY DEF OneReader
      <4>1. CASE j = k
        <5>1. tasks'[k] \in Nat /\ tasks'[k] <= 1 /\ notices'[k] = 0
          BY <2>3, <2>6, <3>2
        <5> QED
          BY <4>1, <5>1
      <4>2. CASE j # k
        BY <2>3, <3>2, <4>2 DEF IInv, OneReader
      <4> QED
        BY <4>1, <4>2
    <3> QED
      BY <3>3, <3>4, <3>5 DEF IInv
  <2> QED
    BY <1>6, <2>7, <2>8 DEF RestartReader
<1> QED
  BY <1>1, <1>2, <1>3, <1>4, <1>5, <1>6 DEF Next

LEMMA PacedIsCapped == IInv => RestartsCapped
<1> SUFFICES ASSUME IInv, NEW k \in Key, NEW i \in 1..Len(spawned[k]), i > MaxRestarts
             PROVE  spawned[k][i] - spawned[k][i - MaxRestarts] >= Window
  BY DEF RestartsCapped
<1> DEFINE s == spawned[k]
<1>1. s \in Seq(Nat) /\ Paced(s) /\ i \in 1..Len(s)
  BY DEF IInv, TypeOK, PaceInv, KeyPaced
<1>2. MaxRestarts \in Nat /\ MaxRestarts > 0 /\ Window \in Nat
  BY SupervisorAssumption DEF SupervisorAssumption
<1> HIDE DEF s
<1>3. i - MaxRestarts \in 1..Len(s) /\ i - 1 \in 1..Len(s) /\ i - MaxRestarts <= i - 1
  BY <1>1, <1>2
<1>4. s[i - MaxRestarts] <= s[i - 1] /\ s[i] - s[i - 1] >= Window
  BY <1>1, <1>3 DEF Paced
<1>5. s[i] \in Nat /\ s[i - 1] \in Nat /\ s[i - MaxRestarts] \in Nat
  BY <1>1, <1>3
<1> QED
  BY <1>2, <1>4, <1>5 DEF s

(* The report for one key, and what a start of its reader does to it. *)
Accurate(k) == notices[k] = 0 => (ReportedAlive(k) <=> tasks[k] > 0)

LEMMA SpawnAccurate ==
    ASSUME IInv, NEW k \in Key, SpawnFdReader(k)
    PROVE  /\ k \notin undup' => Accurate(k)'
           /\ \A j \in Key : j # k => /\ j \in undup' <=> j \in undup
                                      /\ ReportedAlive(j)' <=> ReportedAlive(j)
                                      /\ tasks'[j] = tasks[j]
<1>1. CASE DupFails(k)
  BY <1>1 DEF DupFails, stateVars, ReportedAlive
<1>2. CASE Spawned(k)
  <2>1. /\ tasks' = [tasks EXCEPT ![k] = @ + 1] /\ tasks \in [Key -> Nat]
        /\ count' = [count EXCEPT ![k] = @ + 1] /\ count \in [Key -> Nat]
        /\ gaveUp' = [gaveUp EXCEPT ![k] = FALSE] /\ gaveUp \in [Key -> BOOLEAN]
        /\ undup' = undup \ {k}
    BY <1>2 DEF Spawned, IInv, TypeOK
  <2>2. tasks'[k] > 0 /\ count'[k] > 0
    BY <2>1
  <2>3. ~gaveUp'[k]
    BY <2>1
  <2>4. ASSUME NEW j \in Key, j # k
        PROVE  /\ tasks'[j] = tasks[j] /\ count'[j] = count[j] /\ gaveUp'[j] = gaveUp[j]
               /\ j \in undup' <=> j \in undup
    BY <2>1, <2>4
  <2>5. Accurate(k)'
    BY <2>2, <2>3 DEF Accurate, ReportedAlive
  <2> QED
    BY <2>4, <2>5 DEF ReportedAlive
<1> QED
  BY <1>1, <1>2 DEF SpawnFdReader

LEMMA HealthNext == IInv /\ HealthAccurate /\ [Next]_vars => HealthAccurate'
<1> SUFFICES ASSUME IInv, HealthAccurate, [Next]_vars,
                    NEW j \in groups' \ undup'
             PROVE  Accurate(j)'
  BY DEF HealthAccurate, Accurate
<1>0. groups \subseteq Key /\ created \subseteq Key /\ notices \in [Key -> Nat]
  BY DEF IInv, TypeOK
<1>1. CASE UNCHANGED vars
  BY <1>1 DEF vars, HealthAccurate, Accurate, ReportedAlive
<1>2. CASE Tick
  BY <1>2 DEF Tick, stateVars, HealthAccurate, Accurate, ReportedAlive
<1>3. ASSUME NEW k \in Key, CreateGroup(k) PROVE Accurate(j)'
  <2>1. SpawnFdReader(k) /\ groups' = groups \cup {k} /\ notices' = notices
    BY <1>3 DEF CreateGroup
  <2>2. CASE j = k
    BY <2>1, <2>2, SpawnAccurate
  <2>3. CASE j # k
    <3>1. j \in groups \ undup /\ j \in Key
      BY <1>0, <2>1, <2>3, SpawnAccurate
    <3> QED
      BY <2>1, <2>3, <3>1, SpawnAccurate DEF HealthAccurate, Accurate
  <2> QED
    BY <2>2, <2>3
<1>4. ASSUME NEW k \in Key, RemoveGroup(k) PROVE Accurate(j)'
  BY <1>4 DEF RemoveGroup, stateVars, HealthAccurate, Accurate, ReportedAlive
<1>5. ASSUME NEW k \in Key, ReaderExits(k) PROVE Accurate(j)'
  <2>1. /\ notices' = [notices EXCEPT ![k] = @ + 1] /\ tasks' = [tasks EXCEPT ![k] = @ - 1]
        /\ tasks \in [Key -> Nat]
    BY <1>5 DEF ReaderExits, IInv, TypeOK
  <2>2. groups' = groups /\ count' = count /\ gaveUp' = gaveUp /\ undup' = undup
    BY <1>5 DEF ReaderExits, stateVars
  <2>3. CASE j = k
    <3>1. notices'[j] # 0
      BY <1>0, <2>1, <2>3
    <3> QED
      BY <3>1 DEF Accurate
  <2>4. CASE j # k
    <3>1. j \in Key /\ j \in groups \ undup
      BY <1>0, <2>2
    <3>2. tasks'[j] = tasks[j] /\ notices'[j] = notices[j]
      BY <1>0, <2>1, <2>4, <3>1
    <3> QED
      BY <2>2, <3>1, <3>2 DEF HealthAccurate, Accurate, ReportedAlive
  <2> QED
    BY <2>3, <2>4
<1>6. ASSUME NEW k \in Key, RestartReader(k) PROVE Accurate(j)'
  <2>1. /\ notices[k] > 0 /\ notices' = [notices EXCEPT ![k] = @ - 1]
        /\ groups' = groups
    BY <1>6 DEF RestartReader, TakeNotice
  <2>2. j \in Key /\ j \in groups /\ (j # k => notices'[j] = notices[j])
    BY <1>0, <2>1
  <2>3. tasks[k] = 0
    <3>1. tasks[k] + notices[k] <= 1 /\ tasks[k] \in Nat /\ notices[k] \in Nat
      BY DEF IInv, OneReader, TypeOK
    <3> QED
      BY <2>1, <3>1
  <2>4. CASE GiveUp(k)
    <3>1. /\ gaveUp' = [gaveUp EXCEPT ![k] = TRUE] /\ gaveUp \in [Key -> BOOLEAN]
          /\ tasks' = tasks /\ count' = count /\ undup' = undup
      BY <2>4 DEF GiveUp, IInv, TypeOK
    <3>2. CASE j = k
      <4>1. gaveUp'[j] /\ tasks'[j] = 0
        BY <2>3, <3>1, <3>2
      <4> QED
        BY <4>1 DEF Accurate, ReportedAlive
    <3>3. CASE j # k
      <4>1. gaveUp'[j] = gaveUp[j]
        BY <2>2, <3>1, <3>3
      <4> QED
        BY <2>2, <3>1, <3>3, <4>1 DEF HealthAccurate, Accurate, ReportedAlive
    <3> QED
      BY <3>2, <3>3
  <2>5. CASE SpawnFdReader(k)
    <3>1. CASE j = k
      BY <2>5, <3>1, SpawnAccurate
    <3>2. CASE j # k
      <4>1. j \notin undup
        BY <2>2, <2>5, <3>2, SpawnAccurate
      <4> QED
        BY <2>2, <2>5, <3>2, <4>1, SpawnAccurate DEF HealthAccurate, Accurate
    <3> QED
      BY <3>1, <3>2
  <2>6. CASE k \notin groups /\ UNCHANGED <<tasks, stateVars, spawned, undup>>
    <3>1. j # k /\ tasks' = tasks /\ count' = count /\ gaveUp' = gaveUp /\ undup' = undup
      BY <2>2, <2>6 DEF stateVars
    <3> QED
      BY <2>2, <3>1 DEF HealthAccurate, Accurate, ReportedAlive
  <2> QED
    BY <1>6, <2>4, <2>5, <2>6 DEF RestartReader
<1> QED
  BY <1>1, <1>2, <1>3, <1>4, <1>5, <1>6 DEF Next

-----------------------------------------------------------------------------
(* Every state of the supervision is well typed: a task is only ended when *)
(* one runs and a notice is only taken when one waits, so neither number   *)
(* falls below zero.                                                       *)
THEOREM SupervisorTypeCorrect == Spec => []TypeOK
<1>1. IInv => TypeOK
  BY DEF IInv
<1> QED
  BY InitInv, NextInv, <1>1, PTL DEF Spec

(* MAX_RESTARTS within BACKOFF_WINDOW (ReaderState): any MaxRestarts + 1   *)
(* consecutive starts of a group's reader span at least a Window, although *)
(* restart_count is never reset and the window is measured from the last   *)
(* start only.                                                             *)
THEOREM RestartRateBounded == Spec => []RestartsCapped
BY InitInv, NextInv, PacedIsCapped, PTL DEF Spec

(* A group never has two readers: a death notice is sent only by a task    *)
(* that has ended, and restart_reader starts one task for one notice.      *)
THEOREM SingleReader == Spec => []OneReader
<1>1. IInv => OneReader
  BY DEF IInv
<1> QED
  BY InitInv, NextInv, <1>1, PTL DEF Spec

(* ReaderHealth.alive: the health command says of a live group that its    *)
(* reader is alive exactly when one runs, once no death notice waits,      *)
(* unless the latest dup of the group's descriptor failed.  gave_up is     *)
(* what makes it so where restart_reader stops trying.                     *)
THEOREM HealthReportAccurate == Spec => []HealthAccurate
<1>1. Init => HealthAccurate
  BY DEF Init, HealthAccurate
<1> QED
  BY InitInv, NextInv, <1>1, HealthNext, PTL DEF Spec
=============================================================================
