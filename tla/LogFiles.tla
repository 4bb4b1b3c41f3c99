------------------------------ MODULE LogFiles ------------------------------
(***************************************************************************)
(* Reading and trimming a log (src/common/query/core.rs, src/common/clean/ *)
(* core.rs).  fsmon query looks for the first event of a time range by a   *)
(* binary search over byte offsets and reads on from there; fsmon clean    *)
(* rewrites the log from the lines its filters keep and renames the result *)
(* over it.  The daemon appends meanwhile; nothing locks the file, and the *)
(* query opens it by name three times.                                     *)
(*                                                                         *)
(* A line is its time, the path it is about, its size in bytes with the    *)
(* newline, and whether it has characters of several bytes.  A line that   *)
(* does not parse has the time Bad, a blank one Blank.                     *)
(***************************************************************************)
EXTENDS Naturals, Sequences, FiniteSets, Functions

CONSTANTS
    Kind,         \* the lines there may be, records as described above
    ScanBack,     \* SCAN_BACK_BYTES (4096); also find_tail_offset's 4096
    Queries,      \* the sets of time filters a query may have
    Cleans,       \* the <<time filter, size filter>> a clean may have
    MaxLines,     \* bound: lines of the log when the query starts
    MaxAppends,   \* bound: lines appended since
    MaxCleans     \* bound: runs of fsmon clean

Bad   == 0        \* an event's time is at least 1
Blank == 100

Op     == {"Gt", "Ge", "Lt", "Le", "Eq"}
Filter == [op : Op, at : Nat]

ASSUME LogFilesAssumption ==
    /\ \A k \in Kind : /\ k.time \in Nat /\ k.size \in Nat \ {0}
                       /\ k.wide \in BOOLEAN /\ "path" \in DOMAIN k
    /\ ScanBack \in Nat \ {0}
    /\ \A s \in Queries : s \subseteq Filter /\ IsFiniteSet(s)
    /\ Cleans \subseteq Filter \X Filter
    /\ {MaxLines, MaxAppends, MaxCleans} \subseteq Nat

VARIABLES
    files,    \* every file that was ever the log; the last one has its name
    appends,  \* lines appended so far
    qpc,      \* where the query stands
    filters,  \* time_filters
    opened,   \* the file each open of the query got
    low,      \* find_first_event_after: low; then start_pos
    high,     \* find_first_event_after: high
    pos,      \* read_events_from: the reader's position
    result,   \* read_events_from: events
    cpc,      \* where fsmon clean stands
    temp,     \* the temporary file
    backup,   \* the backup file
    cleans    \* runs so far

queryVars == <<qpc, filters, opened, low, high, pos, result>>
cleanVars == <<cpc, temp, backup, cleans>>
vars == <<files, appends, qpc, filters, opened, low, high, pos, result,
          cpc, temp, backup, cleans>>

Lines == Seq(Kind)
Log   == files[Len(files)]

TypeOK ==
    /\ files \in Seq(Lines) /\ files # <<>> /\ appends \in 0..MaxAppends
    /\ qpc \in {"start", "open", "search", "seek", "read", "done", "failed"}
    /\ filters \in Queries /\ opened \in Seq(DOMAIN files)
    /\ low \in Nat /\ high \in Nat /\ pos \in Nat /\ result \in Lines
    /\ cpc \in {"idle", "copy", "rename"}
    /\ temp \in Lines /\ backup \in Lines
    /\ cleans \in 0..MaxCleans

-----------------------------------------------------------------------------
(* Bytes of a file.                                                        *)

(* The offset after each line; End(f)[0] is the start of the file. *)
End(f) ==
    LET e[i \in 0..Len(f)] == IF i = 0 THEN 0 ELSE e[i - 1] + f[i].size
    IN  e
Size(f) == End(f)[Len(f)]

LineAt(f, p)   == LET e == End(f) IN CHOOSE i \in DOMAIN f : e[i - 1] <= p /\ p < e[i]
IsStart(f, p)  == LET e == End(f) IN \E i \in DOMAIN f : e[i - 1] = p
MaxOf(S)       == CHOOSE x \in S : \A y \in S : y <= x
MinOf(S)       == CHOOSE x \in S : \A y \in S : x <= y
BackFrom(p)    == IF p > ScanBack THEN p - ScanBack ELSE 0

(* The offsets in from+1..to that follow a newline. *)
AfterNewline(f, from, to) ==
    LET e == End(f) IN {e[i] : i \in {j \in DOMAIN f : from < e[j] /\ e[j] <= to}}

(* parse_log_line_jsonl: of what a read_line from p returns, nothing       *)
(* parses but a whole line that is an event.                               *)
IsEvent(k)   == k.time \notin {Bad, Blank}
Parses(f, p) == IsStart(f, p) /\ IsEvent(f[LineAt(f, p)])

-----------------------------------------------------------------------------
(* Filters (TimeFilterExt, should_trim).                                   *)

Matches(f, x) ==
    CASE f.op = "Gt" -> x > f.at
      [] f.op = "Ge" -> x >= f.at
      [] f.op = "Lt" -> x < f.at
      [] f.op = "Le" -> x <= f.at
      [] f.op = "Eq" -> x = f.at

Lower == {f \in filters : f.op \in {"Gt", "Ge"}}
Upper == {f \in filters : f.op \in {"Lt", "Le"}}

(* extract_since: the largest lower bound; extract_until: the smallest     *)
(* upper one.                                                              *)
Since == MaxOf({f.at : f \in Lower})
Until == MinOf({f.at : f \in Upper})

Passes(k) == IsEvent(k) /\ \A f \in filters : Matches(f, k.time)

(* No event that passes is beyond the upper bound, so read_events_from     *)
(* never stops before the end of the file.                                 *)
Stops(k) == Passes(k) /\ Upper # {} /\ k.time > Until

-----------------------------------------------------------------------------
(* fsmon query.                                                            *)

(* read_events_from: the length of the file; an empty one has no events.   *)
Measure ==
    /\ qpc = "start"
    /\ opened' = <<Len(files)>>
    /\ high' = Size(Log)
    /\ qpc' = IF Size(Log) = 0 THEN "done" ELSE IF Lower = {} THEN "seek" ELSE "open"
    /\ UNCHANGED <<files, appends, filters, low, pos, result, cleanVars>>

OpenToSearch ==
    /\ qpc = "open"
    /\ opened' = Append(opened, Len(files))
    /\ qpc' = "search"
    /\ UNCHANGED <<files, appends, filters, low, high, pos, result, cleanVars>>

Searched == files[opened[2]]
Mid      == low + (high - low) \div 2

(* Where the line around Mid is taken to start.  The scanned bytes become  *)
(* text first: a character the scan begins inside of is replaced by longer *)
(* ones, and what follows it moves.                                        *)
Shifts(f, from) ==
    IF from > 0 /\ ~IsStart(f, from) /\ f[LineAt(f, from)].wide THEN 0..2 ELSE {0}

LineStart(f, mid) ==
    LET from == BackFrom(mid)
        ends == AfterNewline(f, from, mid)
    IN  IF ends = {} THEN {from} ELSE {MaxOf(ends) + d : d \in Shifts(f, from)}

Narrow_Past(mid, at) ==         \* mutation: <= instead of <
    IF at >= Size(Searched) \/ (Parses(Searched, at)
                                /\ Searched[LineAt(Searched, at)].time > Since)
    THEN high' = mid /\ low' = low
    ELSE low' = mid + 1 /\ high' = high

Narrow_Below(mid, at) ==        \* mutation: high = mid - 1
    IF at >= Size(Searched) \/ (Parses(Searched, at)
                                /\ Searched[LineAt(Searched, at)].time >= Since)
    THEN high' = mid - 1 /\ low' = low
    ELSE low' = mid + 1 /\ high' = high

Narrow_Stay(mid, at) ==         \* mutation: low = mid
    IF at >= Size(Searched) \/ (Parses(Searched, at)
                                /\ Searched[LineAt(Searched, at)].time >= Since)
    THEN high' = mid /\ low' = low
    ELSE low' = mid /\ high' = high

(* One probe: the line at `at' is older than the range, inside it, or not  *)
(* an event, which moves on as well.                                       *)
Narrow(mid, at) ==
    IF at >= Size(Searched) \/ (Parses(Searched, at)
                                /\ Searched[LineAt(Searched, at)].time >= Since)
    THEN high' = mid /\ low' = low
    ELSE low' = mid + 1 /\ high' = high

Probe ==
    /\ qpc = "search" /\ low < high /\ Mid <= Size(Searched)
    /\ \E at \in LineStart(Searched, Mid) : Narrow(Mid, at)
    /\ UNCHANGED <<files, appends, qpc, filters, opened, pos, result, cleanVars>>

(* read_exact: the file that is searched is shorter than the measured one. *)
ProbeFails ==
    /\ qpc = "search" /\ low < high /\ Mid > Size(Searched)
    /\ qpc' = "failed"
    /\ UNCHANGED <<files, appends, filters, opened, low, high, pos, result, cleanVars>>

Found ==
    /\ qpc = "search" /\ low >= high
    /\ qpc' = "seek"
    /\ UNCHANGED <<files, appends, filters, opened, low, high, pos, result, cleanVars>>

OpenToRead ==
    /\ qpc = "seek"
    /\ opened' = Append(opened, Len(files))
    /\ pos' = low
    /\ qpc' = "read"
    /\ UNCHANGED <<files, appends, filters, low, high, result, cleanVars>>

Source == files[opened[Len(opened)]]     \* the file being read

(* Lines that do not parse, and those outside the range, are passed over.  *)
ReadLine ==
    /\ qpc = "read" /\ pos < Size(Source)
    /\ LET i == LineAt(Source, pos)
       IN  /\ pos' = End(Source)[i]
           /\ result' = IF IsStart(Source, pos) /\ Passes(Source[i]) /\ ~Stops(Source[i])
                        THEN Append(result, Source[i]) ELSE result
    /\ UNCHANGED <<files, appends, qpc, filters, opened, low, high, cleanVars>>

ReadEnd ==
    /\ qpc = "read" /\ pos >= Size(Source)
    /\ qpc' = "done"
    /\ UNCHANGED <<files, appends, filters, opened, low, high, pos, result, cleanVars>>

(* fsmon changes: the map from path to event, built in the order of the    *)
(* log; a later event replaces the one of its path only if it is newer.    *)
Newest(events) ==
    LET put[i \in 0..Len(events)] ==
          IF i = 0 THEN <<>>
          ELSE LET m == put[i - 1]
                   e == events[i]
               IN  IF e.path \in DOMAIN m /\ e.time <= m[e.path].time
                   THEN m
                   ELSE [p \in DOMAIN m \cup {e.path} |-> IF p = e.path THEN e ELSE m[p]]
    IN  put[Len(events)]

-----------------------------------------------------------------------------
(* fsmon clean.                                                            *)

(* The lines of f that are in S, one after the other. *)
Select(f, S) ==
    LET sel[i \in 0..Len(f)] ==
          IF i = 0 THEN <<>>
          ELSE IF f[i] \in S THEN Append(sel[i - 1], f[i]) ELSE sel[i - 1]
    IN  sel[Len(f)]

(* Lines the time filter keeps; what does not parse stays, blanks go. *)
Keeps(t)   == {k \in Kind : k.time # Blank /\ (k.time = Bad \/ Matches(t, k.time))}
Kept(f, t) == Select(f, Keeps(t))

FindTailOffset_Past(f, max) ==  \* mutation: the newline after the target
    LET target == Size(f) - max
        after  == AfterNewline(f, target, Size(f))
    IN  IF Size(f) <= max THEN 0 ELSE IF after = {} THEN Size(f) ELSE MinOf(after)

(* find_tail_offset: the end of the last line before the target, else of   *)
(* the first one after it.                                                 *)
FindTailOffset(f, max) ==
    LET target == Size(f) - max
        before == AfterNewline(f, BackFrom(target), target)
        after  == AfterNewline(f, target, Size(f))
    IN  IF Size(f) <= max THEN 0
        ELSE IF before # {} THEN MaxOf(before)
        ELSE IF after # {} THEN MinOf(after)
        ELSE Size(f)

(* truncate_from_start, at an offset that follows a newline. *)
Truncated(f, offset) ==
    LET e == End(f)
        n == CHOOSE i \in 0..Len(f) : e[i] = offset
    IN  SubSeq(f, n + 1, Len(f))

Trimmed(f, s) == IF Matches(s, Size(f)) THEN Truncated(f, FindTailOffset(f, s.at)) ELSE f

(* What is kept goes to a temporary file that nobody else looks at. *)
CleanRead ==
    /\ cpc = "idle" /\ cleans < MaxCleans
    /\ \E c \in Cleans : temp' = Trimmed(Kept(Log, c[1]), c[2])
    /\ cleans' = cleans + 1
    /\ cpc' = "copy"
    /\ UNCHANGED <<files, appends, backup, queryVars>>

(* A dry run deletes the temporary file and leaves it at that. *)
DryRun ==
    /\ cpc = "copy"
    /\ cpc' = "idle" /\ temp' = <<>>
    /\ UNCHANGED <<files, appends, backup, cleans, queryVars>>

(* fs::copy: its errors are ignored, a full disk leaves part of the copy. *)
CleanCopy ==
    /\ cpc = "copy"
    /\ backup' \in {Log, SubSeq(Log, 1, Len(Log) \div 2)}
    /\ cpc' = "rename"
    /\ UNCHANGED <<files, appends, temp, cleans, queryVars>>

(* The rename, or when it fails the rename of the copy, if there is one. *)
CleanRename ==
    /\ cpc = "rename"
    /\ files' \in {Append(files, temp), Append(files, backup), files}
    /\ cpc' = "idle" /\ temp' = <<>> /\ backup' = <<>>
    /\ UNCHANGED <<appends, cleans, queryVars>>

-----------------------------------------------------------------------------
(* The daemon appends a line. *)
AppendEvent ==
    /\ appends < MaxAppends
    /\ \E k \in Kind :
         /\ IsEvent(k)
         /\ files' = [files EXCEPT ![Len(files)] = Append(@, k)]
    /\ appends' = appends + 1
    /\ UNCHANGED <<queryVars, cleanVars>>

Init ==
    /\ \E n \in 0..MaxLines : \E f \in [1..n -> Kind] : files = <<f>>
    /\ appends = 0
    /\ qpc = "start" /\ filters \in Queries /\ opened = <<>>
    /\ low = 0 /\ high = 0 /\ pos = 0 /\ result = <<>>
    /\ cpc = "idle" /\ temp = <<>> /\ backup = <<>> /\ cleans = 0

QueryStep ==
    \/ Measure \/ OpenToSearch \/ Probe \/ ProbeFails \/ Found
    \/ OpenToRead \/ ReadLine \/ ReadEnd

CleanStep == CleanRead \/ DryRun \/ CleanCopy \/ CleanRename

(* Bound: what happens to the log once the query has ended is not followed. *)
Next ==
    \/ QueryStep
    \/ qpc \notin {"done", "failed"} /\ (CleanStep \/ AppendEvent)

(* The query runs on its own and waits for nobody. *)
Spec == Init /\ [][Next]_vars /\ WF_vars(QueryStep)

-----------------------------------------------------------------------------
(* Properties.                                                             *)

(* What the binary search needs of a file: every line is an event, in the  *)
(* order of time, no longer than the scan back, of one-byte characters.    *)
Regular(f) ==
    /\ \A i \in DOMAIN f : IsEvent(f[i]) /\ f[i].size <= ScanBack /\ ~f[i].wide
    /\ \A i, j \in DOMAIN f : i < j => f[i].time <= f[j].time

(* The lines of f that end at or before the offset p. *)
Before(f, p) == LET e == End(f) IN SubSeq(f, 1, Cardinality({i \in DOMAIN f : e[i] <= p}))

(* read_events_from skips nothing that the user asked for: when the log is *)
(* regular and was not replaced between the query's opens, the search by   *)
(* byte offsets lands at or before the first event in the range, and the   *)
(* query returns every event of the range that is in the file when the     *)
(* reading ends, in the order of the log, those appended meanwhile         *)
(* included.  Of any result, also of a log that retries of the writer left *)
(* out of order, execute_changes shows for each path an event that none of *)
(* the path is newer than.                                                 *)
QueryComplete ==
    qpc = "done" =>
      LET shown == Newest(result)
      IN  /\ (\A i \in DOMAIN opened : opened[i] = opened[1]) /\ Regular(Source)
               => result = Select(Before(Source, pos), {k \in Kind : Passes(k)})
          /\ DOMAIN shown = {e.path : e \in Range(result)}
          /\ \A e \in Range(result) : e.time <= shown[e.path].time

(* find_first_event_after narrows its interval with every probe, and the   *)
(* query ends, on every file: unsorted, with lines that do not parse, that *)
(* are longer than the scan back, or that the scan cuts inside a           *)
(* character, and when the log is replaced under it.                       *)
QueryEnds == qpc = "start" ~> qpc \in {"done", "failed"}

(* find_tail_offset keeps "approximately max_bytes from the tail": a trim  *)
(* always drops a line, and never more than it must.  What stays is the    *)
(* shortest tail of whole lines that has max_bytes, or, when only the      *)
(* whole log has that many, all but its first line; as long as no line     *)
(* exceeds the 4096 bytes it scans back.                                   *)
TrimKeepsTail ==
    \A c \in Cleans :
      LET k   == Kept(Log, c[1])
          max == c[2].at
          t   == Trimmed(k, c[2])
      IN  Matches(c[2], Size(k)) /\ Size(k) > max /\ (\A i \in DOMAIN k : k[i].size <= ScanBack)
            => /\ Len(t) < Len(k)
               /\ Size(t) >= max \/ Len(t) = Len(k) - 1
               /\ t # <<>> => Size(Tail(t)) < max
=============================================================================
