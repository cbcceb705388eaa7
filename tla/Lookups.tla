------------------------------ MODULE Lookups ------------------------------
(***************************************************************************)
(* What the agent and the console read: the tools that look things up      *)
(* (tools/searchLogs.ts, searchCode.ts, getMetrics.ts,                     *)
(* getKubernetesEvents.ts, getDeploymentHistory.ts, security/get*.ts), the *)
(* console's log tail (index.ts) and the two charts (timeline.ts,          *)
(* security/index.ts). All are functions of files: an agent may call them  *)
(* in every phase that has tools, and they change nothing.                 *)
(*                                                                         *)
(* A time is a sequence, the minute and the second, and a time of less     *)
(* precision is a prefix of it: the code compares them as strings.         *)
(***************************************************************************)
EXTENDS AgentTools, SequencesExt

CONSTANTS
  Minutes,   \* bound: the minutes of the files
  MaxLines,  \* bound: the lines of a file
  Null

\* a < b, of strings.
Earlier(a, b) ==
  \E i \in DOMAIN b : /\ \A j \in 1..(i - 1) : j \in DOMAIN a /\ a[j] = b[j]
                      /\ i \in DOMAIN a => a[i] < b[i]

\* A bound that is left out excludes nothing.
InRange(t, from, to) == ~(from # <<>> /\ Earlier(t, from)) /\ ~(to # <<>> /\ Earlier(to, t))

\* slice(-limit)
LastOf(s, limit) == IF Len(s) <= limit THEN s ELSE SubSeq(s, Len(s) - limit + 1, Len(s))

\* Faulty: the first lines are kept.
SearchLogsHead(log, from, to, limit) ==
  LET matched == SelectSeq(log, LAMBDA l : InRange(l.t, from, to) /\ l.hit)
  IN [total |-> Len(matched), returned |-> IF Len(matched) <= limit THEN matched
                                           ELSE SubSeq(matched, 1, limit)]

SearchLogs(log, from, to, limit) ==
  LET matched == SelectSeq(log, LAMBDA l : InRange(l.t, from, to) /\ l.hit)
  IN [total |-> Len(matched), returned |-> LastOf(matched, limit)]

\* The files of the walk one after the other; the count is of what is returned.
SearchCode(files, limit) ==
  LET Visit(found, l) == IF Len(found) < limit /\ l.hit THEN Append(found, l) ELSE found
      found == FoldLeft(Visit, <<>>, FlattenSeq(files))
  IN [total |-> Len(found), returned |-> found]

\* The rows of a range, of hours and minutes; the summary is of the whole file.
AuthAttempts(points, from, to) == SelectSeq(points, LAMBDA p : InRange(p.t, from, to))

\* Pod and service are both sought in the object.
KubernetesEvents(events, pod, reason) ==
  SelectSeq(events, LAMBDA e : (pod # Null => e.object = pod) /\ (reason # Null => e.reason = reason))

\* Of one control plane, or of all.
SecurityEvents(events, control) ==
  SelectSeq(events, LAMBDA e : control # Null => e.control = control)

\* The last deployments, and the status of the current version's first among
\* them, as far as the limit reaches.
DeploymentHistory(history, current, limit) ==
  LET recent == LastOf(history, limit)
      ofIt   == SelectSeq(recent, LAMBDA d : d.version = current)
  IN [recent |-> recent, status |-> IF ofIt = <<>> THEN "unknown" ELSE ofIt[1].status]

MaxTail == 500

\* GET /api/logs
LogTail(log, requested) ==
  LastOf(log, IF requested < 1 THEN 1 ELSE IF requested > MaxTail THEN MaxTail ELSE requested)

-----------------------------------------------------------------------------
(* The charts. A series is a function of its minutes.                      *)

At(series, t) == IF t \in DOMAIN series THEN series[t] ELSE Null

\* A metric file may have no series of peaks.
Peak(file) == IF file.peak = Null THEN file.points ELSE file.peak

Sorted(times) == SetToSortSeq(times, LAMBDA a, b : a < b)

\* get_metrics: a row per sample, its peak beside it.
Metrics(file) ==
  LET times == Sorted(DOMAIN file.points)
  IN [k \in DOMAIN times |->
       [t |-> times[k], value |-> file.points[times[k]],
        peak |-> IF file.peak = Null THEN Null ELSE At(file.peak, times[k])]]

\* Faulty: the averages are charted.
TimelineOfAverage(memory, errors) ==
  LET times == Sorted(DOMAIN memory.points)
  IN [k \in DOMAIN times |->
       [t |-> times[k], memoryPeak |-> memory.points[times[k]],
        errorRate |-> IF times[k] \in DOMAIN errors THEN errors[times[k]] ELSE 0]]

\* buildTimeline: an error rate that is missing is none.
Timeline(memory, errors) ==
  LET times == Sorted(DOMAIN Peak(memory))
  IN [k \in DOMAIN times |->
       [t |-> times[k], memoryPeak |-> Peak(memory)[times[k]],
        errorRate |-> IF times[k] \in DOMAIN errors THEN errors[times[k]] ELSE 0]]

\* buildHealth: a value that is missing is null.
Health(cpu, memory, errors) ==
  LET times == Sorted(DOMAIN cpu \cup DOMAIN Peak(memory) \cup DOMAIN errors)
  IN [k \in DOMAIN times |->
       [t |-> times[k], cpu |-> At(cpu, times[k]), memoryPeak |-> At(Peak(memory), times[k]),
        errorRate |-> At(errors, times[k])]]

\* One marker for each minute, named for the first container killed in it.
HealthMarkers(events) ==
  LET Mark(markers, e) ==
        IF \/ e.reason \notin {"OOMKilling", "OOMKilled"}
           \/ \E k \in DOMAIN markers : markers[k].t = e.minute
        THEN markers ELSE Append(markers, [t |-> e.minute, object |-> e.object])
  IN FoldLeft(Mark, <<>>, events)

\* buildAttackAnalysis: one payload for everything the attack tab draws. A
\* point is named by its minute.
AttackAnalysis(attempts, controls, cpu, memory, errors, events) ==
  [points        |-> [k \in DOMAIN attempts |-> [attempts[k] EXCEPT !.t = <<@[1]>>]],
   events        |-> controls,
   health        |-> Health(cpu, memory, errors),
   healthMarkers |-> HealthMarkers(events)]

-----------------------------------------------------------------------------
(* What the answers promise, over every file of the bound.                 *)

Times == Minutes \X (0..1)
Bounds == Times \cup {<<m>> : m \in Minutes} \cup {<<>>}

\* The second a time names, which is the first of those it leaves open.
Second(t) == 60 * t[1] + IF Len(t) = 2 THEN t[2] ELSE 0

Chronological(s) == \A i, j \in DOMAIN s : i < j => Second(s[i].t) <= Second(s[j].t)
Logs == {log \in BoundedSeq([t : Times, hit : BOOLEAN], MaxLines) : Chronological(log)}

\* What a range admits. An end of less precision than the lines admits those
\* before the minute it names, none of that minute.
Falls(l, from, to) ==
  /\ from # <<>> => Second(from) <= Second(l.t)
  /\ Len(to) = 2 => Second(l.t) <= Second(to)
  /\ Len(to) = 1 => Second(l.t) < Second(to)

Histories ==
  {h \in BoundedSeq([version : 1..MaxLines, status : {"healthy", "degraded"}], MaxLines) :
     \A i, j \in DOMAIN h : i # j => h[i].version # h[j].version}

AnswersComplete ==
  \A log \in Logs, from, to \in Bounds, limit \in 1..MaxLines :
    LET hits == {i \in DOMAIN log : log[i].hit /\ Falls(log[i], from, to)}
        kept == {i \in hits : Cardinality({j \in hits : j > i}) < limit}
        logs == SearchLogs(log, from, to, limit)
        code == SearchCode(<<log, <<>>, log>>, limit)
        all  == [i \in DOMAIN log |-> [log[i] EXCEPT !.hit = TRUE]]
    IN /\ logs.total = Cardinality(hits)
       /\ Len(logs.returned) = Cardinality(kept)
       /\ \A i \in kept : logs.returned[Cardinality({j \in kept : j <= i})] = log[i]
       /\ code.total < limit => code.total = 2 * Cardinality({i \in DOMAIN log : log[i].hit})
       /\ AuthAttempts(log, from, to) = SelectSeq(log, LAMBDA l : Falls(l, from, to))
       /\ LogTail(all, limit) = SearchLogs(all, <<>>, <<>>, limit).returned

DeploymentsComplete ==
  \A history \in Histories, i \in 1..MaxLines, limit \in 1..MaxLines :
    i \in DOMAIN history =>
      LET told == DeploymentHistory(history, history[i].version, limit)
      IN told.status = IF i > Len(history) - limit THEN history[i].status ELSE "unknown"

Series == UNION {[times -> 0..1] : times \in SUBSET Minutes}
Files == [points : Series, peak : {Null} \cup Series]
Events == BoundedSeq([minute : Minutes, reason : {"OOMKilling", "Started"}, object : {"a", "b"}], MaxLines)

NoFile == [points |-> <<>>, peak |-> Null]
Controls == BoundedSeq([control : {"auth", "waf"}, title : {"a", "b"}], 2)

ChartsOfFilesAgree ==
  /\ \A memory \in Files, cpu, errors \in Series :
       LET timeline == Timeline(memory, errors)
           health == AttackAnalysis(<<>>, <<>>, cpu, memory, errors, <<>>).health
           rows == Metrics(memory)
       IN /\ \A i, j \in DOMAIN health : i < j => health[i].t < health[j].t
          /\ {health[k].t : k \in DOMAIN health} = DOMAIN cpu \cup DOMAIN Peak(memory) \cup DOMAIN errors
          /\ \A i \in DOMAIN timeline : \E j \in DOMAIN health :
               /\ health[j].t = timeline[i].t
               /\ health[j].memoryPeak = timeline[i].memoryPeak
               /\ IF timeline[i].t \in DOMAIN errors
                  THEN health[j].errorRate = timeline[i].errorRate
                  ELSE health[j].errorRate = Null /\ timeline[i].errorRate = 0
          /\ \A k \in DOMAIN rows, i \in DOMAIN timeline :
               rows[k].t = timeline[i].t /\ memory.peak # Null => rows[k].peak = timeline[i].memoryPeak
  /\ \A events \in Events :
       LET kills == KubernetesEvents(events, Null, "OOMKilling")
           markers == AttackAnalysis(<<>>, <<>>, <<>>, NoFile, <<>>, events).healthMarkers
       IN /\ {markers[k].t : k \in DOMAIN markers} = {kills[i].minute : i \in DOMAIN kills}
          /\ \A i, j \in DOMAIN markers : i # j => markers[i].t # markers[j].t
          /\ \A k \in DOMAIN markers : \E i \in DOMAIN kills :
               /\ kills[i].minute = markers[k].t /\ kills[i].object = markers[k].object
               /\ \A j \in 1..(i - 1) : kills[j].minute # markers[k].t
  /\ \A attempts \in Logs, controls \in Controls :
       LET tab == AttackAnalysis(attempts, controls, <<>>, NoFile, <<>>, <<>>)
           told == AuthAttempts(attempts, <<>>, <<>>)
           of(c) == SecurityEvents(controls, c)
       IN /\ [k \in DOMAIN told |-> told[k].t[1]] = [k \in DOMAIN tab.points |-> tab.points[k].t[1]]
          /\ of(Null) = tab.events
          /\ \A k \in DOMAIN tab.events :
               LET e == tab.events[k]
               IN of(e.control)[Cardinality({j \in 1..k : tab.events[j].control = e.control})] = e
          /\ FoldLeft(LAMBDA n, c : n + Len(of(c)), 0, <<"auth", "waf">>) = Len(tab.events)

\* An agent may reason from what is absent: what a range leaves out lies before
\* its start or after its end, or in the minute of an end of less precision;
\* the lines left out of a longer answer are older than every one returned and
\* are counted, and an answer below its limit is all there is
\* (searchLogs.ts:61-75). A search of the code tells less: its count stops at
\* the limit (searchCode.ts:48-62). The console's tail is that of an unfiltered
\* search (index.ts:115-120), and the current version, when it was deployed
\* once, is of unknown status only if it lies further back than the limit
\* (getDeploymentHistory.ts:36,58-60).
AnswersAreComplete == pc \in Working => AnswersComplete /\ DeploymentsComplete

\* "only lines at or before this are returned" (searchLogs.ts:36), and all of
\* those: the line at the very second that an end of less precision names is at
\* that end.
\* The code does not keep this (README, section 3).
EndIsIncluded ==
  pc \in Working =>
    \A log \in Logs, to \in Bounds \ {<<>>}, i \in 1..MaxLines :
      i \in DOMAIN log /\ log[i].hit /\ Second(log[i].t) <= Second(to)
        => \E k \in DOMAIN SearchLogs(log, <<>>, to, MaxLines).returned :
             SearchLogs(log, <<>>, to, MaxLines).returned[k] = log[i]

\* The two tabs are "read against each other" (security/index.ts:86-90): for
\* files with any sample missing, a minute of the timeline has its minute on the
\* health strip, with the same peak and the same error rate, or where that is
\* missing 0 on the one and nothing on the other; the strip has every sample once, in order; and the agent is
\* told the peak that the chart shows. Each minute with a killed container has
\* one marker, named for the first event of that minute the agent is told of,
\* and the tab's attempts and control events are those the agent is told of.
ChartsAgree == pc \in Live => ChartsOfFilesAgree

=============================================================================
