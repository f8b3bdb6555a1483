---------------------------- MODULE RunModesProofs ----------------------------
(***************************************************************************)
(* What holds of the components of MCRunModes for every value of their     *)
(* constants. ClientJar: any number of versions, failures and crashes, and *)
(* every zone that is not ahead of UTC. ConsoleOutput, ServerMode and      *)
(* FullGC: any number of clients, connections and requests. JnlpDocument:  *)
(* documents of any length, and any names that the launcher overrides.     *)
(***************************************************************************)
EXTENDS ClientJar, JnlpDocument, ConsoleOutput, ServerMode, FullGC,
        FiniteSetTheorems, SequenceTheorems, TLAPS

-----------------------------------------------------------------------------
(* ClientJar.                                                              *)

(* The clock, and the versions in the order of their publication.          *)
ClockInv ==
    /\ now \in Nat /\ checked \in Nat /\ completed \in Nat /\ tempTime \in Nat
    /\ checked <= now /\ completed <= now /\ tempTime <= now
    /\ published \in Seq(Nat)
    /\ Len(published) > 0
    /\ \A v \in 1..Len(published) : published[v] <= now
    /\ \A v, w \in 1..Len(published) : v < w => published[v] < published[w]

(* The files: slave.jar is whole or missing.                               *)
FilesInv ==
    /\ jar \in Nat /\ jarTime \in Nat /\ sourceTime \in Nat
    /\ downloader \in {"idle", "requesting", "creating", "copying", "removing", "renaming",
                       "dating", "opening", "done", "down"}
    /\ jar \in 0..Len(published)
    /\ downloader \in {"dating", "done"} => jar > 0
    /\ downloader \in {"creating", "copying", "removing", "renaming", "dating"} =>
           source \in 1..Len(published)
    /\ downloader \in {"removing", "renaming"} => temp = source
    /\ downloader = "dating" => jar = source
    /\ downloader = "requesting" =>
           since \in {NoTime, jarTime + Zone} /\ (since # NoTime => jar > 0)

LEMMA NothingEarlier == NoTime \in Int /\ \A t \in Nat : t + Zone # NoTime
BY JarAssumption DEF NoTime

LEMMA Publication ==
    ASSUME ClockInv, Publishes
    PROVE  /\ published' \in Seq(Nat) /\ Len(published') = Len(published) + 1
           /\ published'[Len(published) + 1] = now
           /\ \A v \in 1..Len(published) : published'[v] = published[v]
           /\ \A v \in 1..Len(published) : published[v] < now
BY DEF ClockInv, Publishes, Latest

LEMMA ClockInductive == ASSUME ClockInv, [JarNext]_jarVars PROVE ClockInv'
<1> USE DEF DownloaderAt, DownloadFails, files, jenkins, request
<1>1. CASE UNCHANGED <<jenkins, checked, completed, tempTime>>
  BY <1>1 DEF ClockInv
<1>2. CASE Asks \/ Creates \/ Removes \/ Dates \/ Opens
  BY <1>1, <1>2 DEF Asks, Creates, Removes, Dates, Opens
<1>3. CASE IsRefused \/ Crashes \/ IsStartedAgain \/ UNCHANGED jarVars
  BY <1>1, <1>3 DEF IsRefused, Crashes, IsStartedAgain, jarVars
<1>4. CASE IsUpToDate
  BY <1>4 DEF ClockInv, IsUpToDate
<1>5. CASE IsSent
  BY <1>5 DEF ClockInv, IsSent
<1>6. CASE Copies
  BY <1>6 DEF ClockInv, Copies
<1>7. CASE Renames
  <2>1. completed' \in {completed, tempTime} /\ UNCHANGED <<jenkins, checked, tempTime>>
    BY <1>7 DEF Renames
  <2> QED
    BY <2>1 DEF ClockInv
<1>8. CASE Publishes
  <2>1. UNCHANGED <<now, checked, completed, tempTime>>
    BY <1>8 DEF Publishes
  <2>2. \A v \in 1..Len(published') : published'[v] <= now
    BY <1>8, Publication, SMTT(30) DEF ClockInv
  <2>3. ASSUME NEW v \in 1..Len(published'), NEW w \in 1..Len(published'), v < w
        PROVE  published'[v] < published'[w]
    <3>1. v \in 1..Len(published)
      BY <1>8, <2>3, Publication DEF ClockInv
    <3>2. CASE w \in 1..Len(published)
      BY <1>8, <2>3, <3>1, <3>2, Publication DEF ClockInv
    <3>3. CASE w = Len(published) + 1
      BY <1>8, <3>1, <3>3, Publication DEF ClockInv
    <3> QED
      BY <1>8, <3>2, <3>3, Publication DEF ClockInv
  <2> QED
    BY <1>8, <2>1, <2>2, <2>3, Publication DEF ClockInv
<1>9. CASE TimePasses
  <2>1. now' = now + 1 /\ UNCHANGED <<published, checked, completed, tempTime>>
    BY <1>9 DEF TimePasses
  <2> QED
    BY <2>1 DEF ClockInv
<1> QED
  BY <1>2, <1>3, <1>4, <1>5, <1>6, <1>7, <1>8, <1>9 DEF JarNext, DownloaderStep

LEMMA FilesInductive == ASSUME ClockInv, FilesInv, [JarNext]_jarVars PROVE FilesInv'
<1> USE DEF DownloaderAt, DownloadFails, files, jenkins, request, Forgets
<1>1. CASE Asks
  BY <1>1 DEF FilesInv, ClockInv, Asks
<1>2. CASE IsUpToDate
  BY <1>2 DEF FilesInv, IsUpToDate
<1>3. CASE IsSent
  BY <1>3 DEF FilesInv, ClockInv, IsSent, Latest
<1>4. CASE IsRefused
  BY <1>4 DEF FilesInv, IsRefused
<1>5. CASE Creates
  BY <1>5 DEF FilesInv, Creates
<1>6. CASE Copies
  BY <1>6 DEF FilesInv, Copies
<1>7. CASE Removes
  BY <1>7 DEF FilesInv, ClockInv, Removes
<1>8. CASE Renames
  BY <1>8 DEF FilesInv, ClockInv, Renames
<1>9. CASE Dates
  BY <1>9 DEF FilesInv, Dates
<1>10. CASE Opens
  BY <1>10 DEF FilesInv, Opens
<1>11. CASE Crashes
  BY <1>11 DEF FilesInv, Crashes
<1>12. CASE IsStartedAgain
  BY <1>12 DEF FilesInv, IsStartedAgain
<1>13. CASE Publishes
  <2>1. UNCHANGED <<downloader, jar, jarTime, temp, since, source, sourceTime>>
    BY <1>13 DEF Publishes
  <2>2. \A v \in 0..Len(published) : v \in 0..Len(published')
    BY <1>13, Publication DEF ClockInv
  <2> QED
    BY <2>1, <2>2 DEF FilesInv
<1>14. CASE TimePasses
  BY <1>14 DEF FilesInv, TimePasses
<1>15. CASE UNCHANGED jarVars
  BY <1>15 DEF FilesInv, jarVars
<1> QED
  BY <1>1, <1>2, <1>3, <1>4, <1>5, <1>6, <1>7, <1>8, <1>9, <1>10, <1>11, <1>12, <1>13,
     <1>14, <1>15 DEF JarNext, DownloaderStep

LEMMA FilesAlways == JarSpec => [](ClockInv /\ FilesInv)
<1>1. JarInit => ClockInv /\ FilesInv
  BY DEF JarInit, ClockInv, FilesInv
<1> QED
  BY <1>1, ClockInductive, FilesInductive, PTL DEF JarSpec

(* The client is started with a whole jar whatever failed and wherever the *)
(* launcher crashed (clientjar.go:39-41, 78-100), in every zone.           *)
THEOREM StartsWithJar == JarSpec => []ClientHasJar
<1>1. FilesInv => ClientHasJar
  BY DEF FilesInv, ClientHasJar
<1> QED
  BY <1>1, FilesAlways, PTL

-----------------------------------------------------------------------------
(* The time of a jar is either not after it was written, or the one of its *)
(* version: what it misses is younger than both.                           *)
DateInv ==
    /\ jar > 0 => jarTime <= completed \/ jarTime = published[jar]
    /\ downloader = "requesting" => sourceTime <= now
    /\ downloader \in {"creating", "copying", "removing", "renaming", "dating"} =>
           /\ sourceTime <= checked \/ sourceTime = published[source]
           /\ \A v \in 1..Len(published) : published[v] < checked => v <= source
    /\ downloader \in {"removing", "renaming", "dating"} => checked <= tempTime
    /\ downloader = "dating" => completed = tempTime
    /\ downloader = "opening" => failed
    /\ PublishedIsStarted

LEMMA DatesInductive ==
    ASSUME Zone <= 0, ClockInv, FilesInv, ClockInv', FilesInv', DateInv, [JarNext]_jarVars
    PROVE  DateInv'
<1> USE DEF DownloaderAt, DownloadFails, files, jenkins, request, Forgets
<1>1. CASE Asks
  BY <1>1 DEF DateInv, ClockInv, Asks, PublishedIsStarted
<1>2. CASE IsUpToDate
  <2>1. /\ downloader = "requesting" /\ downloader' = "done" /\ checked' = now
        /\ UNCHANGED <<jar, jarTime, tempTime, completed, published, failed>>
        /\ since # NoTime /\ published[Latest] <= since
    BY <1>2 DEF IsUpToDate
  <2>2. jar \in 1..Len(published) /\ since = jarTime + Zone /\ jarTime \in Nat
    BY <2>1 DEF FilesInv
  <2>3. Latest \in 1..Len(published) /\ Latest = Len(published)
    BY DEF ClockInv, Latest
  <2>4. \A v \in 1..Len(published) : published[v] \in Nat
    BY DEF ClockInv
  <2>5. \A v \in 1..Len(published) : published[v] <= jarTime
    <3>1. published[Latest] <= jarTime
      BY <2>1, <2>2, <2>3, <2>4, JarAssumption
    <3>2. \A v \in 1..Len(published) : published[v] <= published[Latest]
      BY <2>3, <2>4 DEF ClockInv
    <3> QED
      BY <2>2, <2>3, <2>4, <3>1, <3>2
  <2>6. ASSUME NEW v \in 1..Len(published), published[v] < now,
               published[v] <= completed => now < completed
        PROVE  v <= jar
    <3>1. ~(published[v] <= completed)
      BY <2>4, <2>6 DEF ClockInv
    <3>2. jarTime = published[jar]
      <4>1. completed \in Nat /\ published[v] \in Nat /\ published[v] <= jarTime
        BY <2>4, <2>5, <2>6 DEF ClockInv
      <4>2. ~(jarTime <= completed)
        BY <2>2, <3>1, <4>1
      <4> QED
        BY <2>2, <4>2 DEF DateInv
    <3>3. ~(jar < v)
      <4>1. jar < v => published[jar] < published[v]
        BY <2>2, <2>6 DEF ClockInv
      <4>2. published[v] \in Nat /\ published[jar] \in Nat /\ published[v] <= jarTime
        BY <2>2, <2>4, <2>5, <2>6
      <4> QED
        BY <3>2, <4>1, <4>2
    <3> QED
      BY <2>2, <2>6, <3>3
  <2>7. DOMAIN published = 1..Len(published)
    BY DEF ClockInv
  <2> QED
    BY <2>1, <2>6, <2>7 DEF DateInv, PublishedIsStarted
<1>3. CASE IsSent
  <2>1. \A v \in 1..Len(published) : v <= Latest
    BY DEF Latest, ClockInv
  <2> QED
    BY <1>3, <2>1 DEF DateInv, ClockInv, IsSent, PublishedIsStarted, Latest
<1>4. CASE IsRefused
  BY <1>4 DEF DateInv, IsRefused, PublishedIsStarted
<1>5. CASE Creates
  BY <1>5 DEF DateInv, Creates, PublishedIsStarted
<1>6. CASE Copies
  BY <1>6 DEF DateInv, ClockInv, Copies, PublishedIsStarted
<1>7. CASE Removes
  BY <1>7 DEF DateInv, FilesInv, Removes, PublishedIsStarted
<1>8. CASE Renames
  BY <1>8 DEF DateInv, FilesInv, ClockInv, Renames, PublishedIsStarted
<1>9. CASE Dates
  <2>1. /\ downloader = "dating" /\ downloader' = "done" /\ jar = source
        /\ jarTime' \in {sourceTime, jarTime}
        /\ UNCHANGED <<jar, completed, tempTime, published, now, checked, failed>>
    BY <1>9 DEF Dates, FilesInv
  <2>2. DOMAIN published = 1..Len(published)
    BY DEF ClockInv
  <2> QED
    BY <2>1, <2>2 DEF DateInv, ClockInv, FilesInv, PublishedIsStarted
<1>10. CASE Opens
  BY <1>10 DEF DateInv, Opens, PublishedIsStarted
<1>11. CASE Crashes
  BY <1>11 DEF DateInv, Crashes, PublishedIsStarted
<1>12. CASE IsStartedAgain
  BY <1>12 DEF DateInv, IsStartedAgain, PublishedIsStarted
<1>13. CASE Publishes
  <2>1. UNCHANGED <<downloader, jar, jarTime, tempTime, completed, source, sourceTime, now,
                    failed, checked>>
    BY <1>13 DEF Publishes
  <2>2. \A v \in 1..Len(published') : v \in 1..Len(published) \/ published'[v] >= checked
    BY <1>13, Publication, SMTT(30) DEF ClockInv
  <2>3. /\ DOMAIN published = 1..Len(published) /\ DOMAIN published' = 1..Len(published')
        /\ jar > 0 => jar \in 1..Len(published)
    <3>1. DOMAIN published = 1..Len(published)
      BY DEF ClockInv
    <3>2. DOMAIN published' = 1..Len(published')
      BY <1>13, Publication
    <3>3. jar > 0 => jar \in 1..Len(published)
      BY DEF FilesInv
    <3> QED
      BY <3>1, <3>2, <3>3
  <2>4. PublishedIsStarted'
    <3> SUFFICES ASSUME downloader = "done", ~failed, NEW v \in 1..Len(published'),
                        published'[v] < checked,
                        published'[v] <= completed => checked < completed
                 PROVE  v <= jar
      BY <2>1, <2>3 DEF PublishedIsStarted
    <3>1. published'[v] \in Nat /\ checked \in Nat
      <4>1. published' \in Seq(Nat)
        BY <1>13, Publication
      <4>2. published'[v] \in Nat
        BY <4>1
      <4> QED
        BY <4>2 DEF ClockInv
    <3>2. v \in 1..Len(published)
      BY <2>2, <3>1
    <3>3. published'[v] = published[v]
      BY <1>13, <3>2, Publication
    <3> QED
      BY <2>3, <3>2, <3>3 DEF DateInv, PublishedIsStarted
  <2> QED
    <3>1. jar > 0 => jarTime <= completed \/ jarTime = published'[jar]
      BY <1>13, <2>3, Publication DEF DateInv
    <3>2. ASSUME downloader \in {"creating", "copying", "removing", "renaming", "dating"}
          PROVE  /\ sourceTime <= checked \/ sourceTime = published'[source]
                 /\ \A v \in 1..Len(published') : published'[v] < checked => v <= source
      <4>1. source \in 1..Len(published)
        BY <3>2 DEF FilesInv
      <4>2. published'[source] = published[source]
        BY <1>13, <4>1, Publication
      <4>3. ASSUME NEW v \in 1..Len(published'), published'[v] < checked
            PROVE  v <= source
        <5>1. published'[v] \in Nat /\ checked \in Nat
          BY <1>13, Publication, SMTT(30) DEF ClockInv
        <5>2. v \in 1..Len(published)
          BY <2>2, <4>3, <5>1
        <5>3. published'[v] = published[v]
          BY <1>13, <5>2, Publication
        <5> QED
          BY <3>2, <4>3, <5>2, <5>3 DEF DateInv
      <4> QED
        BY <3>2, <4>2, <4>3 DEF DateInv
    <3> QED
      BY <2>1, <2>4, <3>1, <3>2 DEF DateInv
<1>14. CASE TimePasses
  <2>1. /\ now' = now + 1
        /\ UNCHANGED <<downloader, jar, jarTime, tempTime, completed, source, sourceTime,
                       published, failed, checked>>
    BY <1>14 DEF TimePasses
  <2>2. PublishedIsStarted'
    BY <2>1 DEF DateInv, PublishedIsStarted
  <2>3. sourceTime <= now => sourceTime <= now'
    BY <2>1 DEF ClockInv, FilesInv
  <2> QED
    BY <2>1, <2>2, <2>3 DEF DateInv
<1>15. CASE UNCHANGED jarVars
  BY <1>15 DEF DateInv, jarVars, PublishedIsStarted
<1> QED
  BY <1>1, <1>2, <1>3, <1>4, <1>5, <1>6, <1>7, <1>8, <1>9, <1>10, <1>11, <1>12, <1>13,
     <1>14, <1>15 DEF JarNext, DownloaderStep

(* Where local time is not ahead of UTC, no version that Jenkins had       *)
(* published is missed (clientjar.go:23-24, 56-61, 103-105); stale_jar     *)
(* shows that the assumption on the zone is needed.                        *)
THEOREM StartsWithLatest == Zone <= 0 => (JarSpec => []PublishedIsStarted)
<1> SUFFICES ASSUME Zone <= 0 PROVE JarSpec => []PublishedIsStarted
  OBVIOUS
<1>1. JarInit => DateInv
  BY DEF JarInit, DateInv, PublishedIsStarted
<1>2. ClockInv /\ FilesInv /\ DateInv /\ [JarNext]_jarVars => DateInv'
  BY ClockInductive, FilesInductive, DatesInductive
<1>3. DateInv => PublishedIsStarted
  BY DEF DateInv
<1> QED
  BY <1>1, <1>2, <1>3, FilesAlways, PTL DEF JarSpec

-----------------------------------------------------------------------------
(* ConsoleOutput.                                                          *)

(* Who writes holds the mutex, and so does who has begun a line, to which  *)
(* only stack traces are added.                                            *)
MutexInv ==
    /\ reader \in [Streams -> {"reading", "locking", "writing", "ended"}]
    /\ mutex \in Streams \cup {"free"}
    /\ \A s \in Streams : reader[s] = "writing" => mutex = s
    /\ openLine \in Streams \cup {"none"}
    /\ openLine # "none" => mutex = openLine /\ text \subseteq {openLine, "stacks"}
    /\ LinesStayWhole

(* Nothing but stack traces is printed into a line of another writer, for  *)
(* any number of clients, tokens and messages (client.go:242-251,          *)
(* output.go:22, 30, globals.go:29-31).                                    *)
THEOREM LinesAreNotMixed == ConsoleSpec => []LinesStayWhole
<1> USE DEF Streams, readers
<1>1. ConsoleInit => MutexInv
  BY DEF ConsoleInit, MutexInv, LinesStayWhole
<1>2. MutexInv /\ [ConsoleNext]_consoleVars => MutexInv'
  <2> SUFFICES ASSUME MutexInv, [ConsoleNext]_consoleVars PROVE MutexInv'
    OBVIOUS
  <2> USE DEF MutexInv, LinesStayWhole
  <2>1. CASE ClientStarts
    BY <2>1 DEF ClientStarts
  <2>2. ASSUME NEW s \in Streams, Reads(s) PROVE MutexInv'
    BY <2>2 DEF Reads
  <2>3. ASSUME NEW s \in Streams, Locks(s) PROVE MutexInv'
    BY <2>3 DEF Locks
  <2>4. ASSUME NEW s \in Streams, Writes(s) PROVE MutexInv'
    <3>1. mutex = s /\ (openLine = "none" \/ openLine = s)
      BY <2>4 DEF Writes
    <3>2. text' \subseteq {s, "stacks"}
      BY <2>4, <3>1 DEF Writes, Adds
    <3>3. /\ reader' = [reader EXCEPT ![s] = "reading"]
          /\ \/ openLine' = s /\ mutex' = s
             \/ openLine' = "none" /\ mutex' = "free"
      BY <2>4, <3>1 DEF Writes
    <3>4. \A r \in Streams : reader'[r] = "writing" => r = s /\ reader'[s] = "reading"
      BY <3>1, <3>3
    <3>5. \A x, y \in text' \ {"stacks"} : x = y
      BY <3>2
    <3> QED
      BY <3>2, <3>3, <3>4, <3>5
  <2>5. ASSUME NEW s \in Streams, Ends(s) PROVE MutexInv'
    <3>1. CASE mutex = s
      <4>1. openLine = "none" \/ openLine = s
        BY <3>1
      <4>2. text' \subseteq {s, "stacks"}
        BY <2>5, <3>1, <4>1 DEF Ends, Adds
      <4>3. /\ reader' = [reader EXCEPT ![s] = "ended"]
            /\ openLine' = "none" /\ mutex' = "free"
        BY <2>5, <3>1 DEF Ends
      <4>4. \A r \in Streams : reader'[r] # "writing"
        BY <3>1, <4>3
      <4>5. \A x, y \in text' \ {"stacks"} : x = y
        BY <4>2
      <4> QED
        BY <4>3, <4>4, <4>5
    <3>2. CASE mutex # s
      BY <2>5, <3>2 DEF Ends
    <3> QED
      BY <3>1, <3>2
  <2>6. CASE UNCHANGED <<reader, mutex, openLine, text>>
    BY <2>6
  <2>7. CASE ClientEnds \/ ClientIsKilled \/ MonitorForces \/ UNCHANGED consoleVars
    BY <2>6, <2>7 DEF ClientEnds, ClientIsKilled, MonitorForces, consoleVars
  <2>8. ASSUME NEW t \in Timers, TimerFires(t) PROVE MutexInv'
    BY <2>6, <2>8 DEF TimerFires
  <2>9. CASE SaysStarted \/ MonitorPrints
    <3>1. openLine = "none" /\ text' = {"launcher"}
      BY <2>9 DEF SaysStarted, MonitorPrints, Adds
    <3>2. UNCHANGED <<reader, mutex, openLine>>
      BY <2>9 DEF SaysStarted, MonitorPrints
    <3> QED
      BY <3>1, <3>2
  <2>10. CASE PrintsStacks
    <3>1. text' = {"stacks"} \cup text /\ UNCHANGED <<reader, mutex, openLine>>
      BY <2>10 DEF PrintsStacks, Adds
    <3> QED
      BY <3>1
  <2> QED
    BY <2>1, <2>2, <2>3, <2>4, <2>5, <2>7, <2>8, <2>9, <2>10 DEF ConsoleNext, ReaderStep
<1>3. MutexInv => LinesStayWhole
  BY DEF MutexInv
<1> QED
  BY <1>1, <1>2, <1>3, PTL DEF ConsoleSpec

-----------------------------------------------------------------------------
(* Type correctness of the four.                                           *)

(* ClientJar: a time or a version is never out of its range.               *)
THEOREM JarTypeCorrect == JarSpec => []JarTypeOK
<1> USE JarAssumption DEF DownloaderAt, DownloadFails, files, jenkins, request, Forgets
<1>1. JarInit => JarTypeOK
  <2> SUFFICES ASSUME JarInit PROVE JarTypeOK
    OBVIOUS
  <2>1. published \in Seq(Nat)
    BY DEF JarInit
  <2>2. since \in Int
    BY DEF JarInit, NoTime
  <2>3. jar \in Int /\ temp \in Int /\ jarTime \in Nat /\ tempTime \in Nat /\ completed \in Nat
        /\ checked \in Nat /\ source \in Nat /\ sourceTime \in Nat /\ now \in Nat
    BY DEF JarInit
  <2>4. downloader = "idle" /\ failed = FALSE
    BY DEF JarInit
  <2> QED
    BY <2>1, <2>2, <2>3, <2>4, Zenon DEF JarTypeOK
<1>2. ClockInv /\ FilesInv /\ JarTypeOK /\ [JarNext]_jarVars => JarTypeOK'
  <2> SUFFICES ASSUME ClockInv, FilesInv, JarTypeOK, [JarNext]_jarVars PROVE JarTypeOK'
    OBVIOUS
  <2>0. NoTime \in Int /\ jarTime + Zone \in Int /\ Latest \in Nat /\ published[Latest] \in Nat
    BY NothingEarlier DEF JarTypeOK, ClockInv, Latest
  <2>1. CASE Asks
    BY <2>0, <2>1 DEF JarTypeOK, Asks
  <2>2. CASE IsUpToDate
    BY <2>0, <2>2 DEF JarTypeOK, IsUpToDate
  <2>3. CASE IsSent
    BY <2>0, <2>3 DEF JarTypeOK, IsSent
  <2>4. CASE IsRefused
    BY <2>0, <2>4 DEF JarTypeOK, IsRefused
  <2>5. CASE Creates
    <3>1. CASE UNCHANGED <<request, failed>>
      <4>1. jar' \in Int /\ temp' \in Int /\ jarTime' \in Nat /\ tempTime' \in Nat /\ completed' \in Nat
        BY <2>0, <2>5, <3>1 DEF JarTypeOK, Creates
      <4> QED
        BY <2>0, <2>5, <3>1, <4>1 DEF JarTypeOK, Creates
    <3>2. CASE DownloadFails("creating")
      <4>1. jar' \in Int /\ temp' \in Int /\ jarTime' \in Nat /\ tempTime' \in Nat /\ completed' \in Nat
        BY <2>0, <2>5, <3>2 DEF JarTypeOK, Creates
      <4>2. since' \in Int /\ source' \in Nat /\ sourceTime' \in Nat
        BY <2>0, <3>2 DEF DownloadFails, Forgets
      <4>3. downloader' = "opening" /\ failed' = TRUE
        BY <3>2
      <4>4. checked' \in Nat /\ now' \in Nat /\ published' \in Seq(Nat)
        BY <2>5 DEF JarTypeOK, Creates
      <4> QED
        BY <4>1, <4>2, <4>3, <4>4, Zenon DEF JarTypeOK
    <3> QED
      BY <2>5, <3>1, <3>2 DEF Creates
  <2>6. CASE Copies
    <3>1. CASE UNCHANGED <<request, failed>>
      <4>1. jar' \in Int /\ temp' \in Int /\ jarTime' \in Nat /\ tempTime' \in Nat /\ completed' \in Nat
        BY <2>0, <2>6, <3>1 DEF JarTypeOK, Copies
      <4> QED
        BY <2>0, <2>6, <3>1, <4>1 DEF JarTypeOK, Copies
    <3>2. CASE DownloadFails("copying")
      <4>1. jar' \in Int /\ temp' \in Int /\ jarTime' \in Nat /\ tempTime' \in Nat /\ completed' \in Nat
        BY <2>0, <2>6, <3>2 DEF JarTypeOK, Copies
      <4>2. since' \in Int /\ source' \in Nat /\ sourceTime' \in Nat
        BY <2>0, <3>2 DEF DownloadFails, Forgets
      <4>3. downloader' = "opening" /\ failed' = TRUE
        BY <3>2
      <4>4. checked' \in Nat /\ now' \in Nat /\ published' \in Seq(Nat)
        BY <2>6 DEF JarTypeOK, Copies
      <4> QED
        BY <4>1, <4>2, <4>3, <4>4, Zenon DEF JarTypeOK
    <3> QED
      BY <2>6, <3>1, <3>2 DEF Copies
  <2>7. CASE Removes
    <3>1. CASE UNCHANGED <<request, failed>>
      <4>1. jar' \in Int /\ temp' \in Int /\ jarTime' \in Nat /\ tempTime' \in Nat /\ completed' \in Nat
        BY <2>0, <2>7, <3>1 DEF JarTypeOK, Removes
      <4> QED
        BY <2>0, <2>7, <3>1, <4>1 DEF JarTypeOK, Removes
    <3>2. CASE DownloadFails("removing")
      <4>1. jar' \in Int /\ temp' \in Int /\ jarTime' \in Nat /\ tempTime' \in Nat /\ completed' \in Nat
        BY <2>0, <2>7, <3>2 DEF JarTypeOK, Removes
      <4>2. since' \in Int /\ source' \in Nat /\ sourceTime' \in Nat
        BY <2>0, <3>2 DEF DownloadFails, Forgets
      <4>3. downloader' = "opening" /\ failed' = TRUE
        BY <3>2
      <4>4. checked' \in Nat /\ now' \in Nat /\ published' \in Seq(Nat)
        BY <2>7 DEF JarTypeOK, Removes
      <4> QED
        BY <4>1, <4>2, <4>3, <4>4, Zenon DEF JarTypeOK
    <3> QED
      BY <2>7, <3>1, <3>2 DEF Removes
  <2>8. CASE Renames
    <3>1. CASE UNCHANGED <<request, failed>>
      <4>1. jar' \in Int /\ temp' \in Int /\ jarTime' \in Nat /\ tempTime' \in Nat /\ completed' \in Nat
        BY <2>0, <2>8, <3>1 DEF JarTypeOK, Renames
      <4> QED
        BY <2>0, <2>8, <3>1, <4>1 DEF JarTypeOK, Renames
    <3>2. CASE DownloadFails("renaming")
      <4>1. jar' \in Int /\ temp' \in Int /\ jarTime' \in Nat /\ tempTime' \in Nat /\ completed' \in Nat
        BY <2>0, <2>8, <3>2 DEF JarTypeOK, Renames
      <4>2. since' \in Int /\ source' \in Nat /\ sourceTime' \in Nat
        BY <2>0, <3>2 DEF DownloadFails, Forgets
      <4>3. downloader' = "opening" /\ failed' = TRUE
        BY <3>2
      <4>4. checked' \in Nat /\ now' \in Nat /\ published' \in Seq(Nat)
        BY <2>8 DEF JarTypeOK, Renames
      <4> QED
        BY <4>1, <4>2, <4>3, <4>4, Zenon DEF JarTypeOK
    <3> QED
      BY <2>8, <3>1, <3>2 DEF Renames
  <2>9. CASE Dates
    BY <2>0, <2>9 DEF JarTypeOK, Dates
  <2>10. CASE Opens
    BY <2>0, <2>10 DEF JarTypeOK, Opens
  <2>11. CASE Crashes
    BY <2>0, <2>11 DEF JarTypeOK, Crashes
  <2>12. CASE IsStartedAgain
    BY <2>0, <2>12 DEF JarTypeOK, IsStartedAgain
  <2>13. CASE Publishes
    BY <2>0, <2>13 DEF JarTypeOK, Publishes
  <2>14. CASE TimePasses
    BY <2>0, <2>14 DEF JarTypeOK, TimePasses
  <2>15. CASE UNCHANGED jarVars
    BY <2>15 DEF JarTypeOK, jarVars
  <2> QED
    BY <2>1, <2>2, <2>3, <2>4, <2>5, <2>6, <2>7, <2>8, <2>9, <2>10, <2>11, <2>12,
       <2>13, <2>14, <2>15
    DEF JarNext, DownloaderStep
<1> QED
  BY <1>1, <1>2, FilesAlways, PTL DEF JarSpec

(* ConsoleOutput: every goroutine is where it can be.                      *)
THEOREM ConsoleTypeCorrect == ConsoleSpec => []ConsoleTypeOK
<1> USE DEF Streams, Timers, Writers, readers, Scans, CallsStop, Adds
<1>1. ConsoleInit => ConsoleTypeOK
  BY DEF ConsoleInit, ConsoleTypeOK, Chunks
<1>2. ConsoleTypeOK /\ [ConsoleNext]_consoleVars => ConsoleTypeOK'
  <2> SUFFICES ASSUME ConsoleTypeOK, [ConsoleNext]_consoleVars PROVE ConsoleTypeOK'
    OBVIOUS
  <2> USE DEF ConsoleTypeOK
  <2>1. CASE ClientStarts
    BY <2>1 DEF ClientStarts
  <2>2. CASE ClientEnds \/ ClientIsKilled
    BY <2>2 DEF ClientEnds, ClientIsKilled
  <2>3. ASSUME NEW s \in Streams, Reads(s) PROVE ConsoleTypeOK'
    BY <2>3 DEF Reads
  <2>4. ASSUME NEW s \in Streams, Locks(s) PROVE ConsoleTypeOK'
    BY <2>4 DEF Locks
  <2>5. ASSUME NEW s \in Streams, Writes(s) PROVE ConsoleTypeOK'
    <3>1. /\ reader' = [reader EXCEPT ![s] = "reading"] /\ chunk' = [chunk EXCEPT ![s] = "blank"]
          /\ openLine' \in {s, "none"} /\ mutex' \in {mutex, "free"}
          /\ UNCHANGED <<process, announced, asked, monitor>>
      BY <2>5 DEF Writes
    <3>2. triggered' \in [Streams -> BOOLEAN] /\ timers' \subseteq Timers
      BY <2>5 DEF Writes
    <3>3. text' \subseteq Writers
      BY <2>5 DEF Writes
    <3> QED
      BY <3>1, <3>2, <3>3 DEF Chunks
  <2>6. ASSUME NEW s \in Streams, Ends(s) PROVE ConsoleTypeOK'
    <3>1. /\ reader' = [reader EXCEPT ![s] = "ended"]
          /\ openLine' \in {openLine, "none"} /\ mutex' \in {mutex, "free"}
          /\ UNCHANGED <<process, announced, asked, chunk, triggered, timers, monitor>>
      BY <2>6 DEF Ends
    <3>2. text' \subseteq Writers
      BY <2>6 DEF Ends
    <3> QED
      BY <3>1, <3>2
  <2>7. ASSUME NEW t \in Timers, TimerFires(t) PROVE ConsoleTypeOK'
    BY <2>7 DEF TimerFires
  <2>8. CASE MonitorForces
    BY <2>8 DEF MonitorForces
  <2>9. CASE SaysStarted \/ MonitorPrints \/ PrintsStacks
    BY <2>9 DEF SaysStarted, MonitorPrints, PrintsStacks
  <2>10. CASE UNCHANGED consoleVars
    BY <2>10 DEF consoleVars
  <2> QED
    BY <2>1, <2>2, <2>3, <2>4, <2>5, <2>6, <2>7, <2>8, <2>9, <2>10 DEF ConsoleNext, ReaderStep
<1> QED
  BY <1>1, <1>2, PTL DEF ConsoleSpec

(* ServerMode. *)
THEOREM ServerTypeCorrect == ServerSpec => []ServerTypeOK
<1> USE DEF ExecutorGoes, AcceptorGoes, WatcherGoes, Panics
<1>1. ServerInit => ServerTypeOK
  BY DEF ServerInit, ServerTypeOK
<1>2. ServerTypeOK /\ [ServerNext]_serverVars => ServerTypeOK'
  <2> SUFFICES ASSUME ServerTypeOK, [ServerNext]_serverVars PROVE ServerTypeOK'
    OBVIOUS
  <2>1. CASE StartPanics
    BY <2>1 DEF ServerTypeOK, StartPanics
  <2>2. CASE StartsServer
    BY <2>2 DEF ServerTypeOK, StartsServer
  <2>3. CASE StartFails
    BY <2>3 DEF ServerTypeOK, StartFails
  <2>4. CASE SeesServerStopped
    BY <2>4 DEF ServerTypeOK, SeesServerStopped
  <2>5. CASE Listens
    BY <2>5 DEF ServerTypeOK, Listens
  <2>6. CASE Announces
    BY <2>6 DEF ServerTypeOK, Announces
  <2>7. CASE SeesStop
    BY <2>7 DEF ServerTypeOK, SeesStop
  <2>8. CASE ClosesListener
    BY <2>8 DEF ServerTypeOK, ClosesListener
  <2>9. CASE SetsStopped
    BY <2>9 DEF ServerTypeOK, SetsStopped
  <2>10. CASE WatcherChecks
    BY <2>10 DEF ServerTypeOK, WatcherChecks
  <2>11. CASE WatcherStops
    BY <2>11 DEF ServerTypeOK, WatcherStops
  <2>12. CASE Accepts
    BY <2>12 DEF ServerTypeOK, Accepts
  <2>13. CASE ShakesHands
    BY <2>13 DEF ServerTypeOK, ShakesHands
  <2>14. CASE ConnectionEnds
    BY <2>14 DEF ServerTypeOK, ConnectionEnds
  <2>15. CASE WatcherReceives
    BY <2>15 DEF ServerTypeOK, WatcherReceives
  <2>16. CASE AnyoneStops
    BY <2>16 DEF ServerTypeOK, AnyoneStops
  <2>17. CASE UNCHANGED serverVars
    BY <2>17 DEF ServerTypeOK, serverVars
  <2> QED
    BY <2>1, <2>2, <2>3, <2>4, <2>5, <2>6, <2>7, <2>8, <2>9, <2>10, <2>11, <2>12,
       <2>13, <2>14, <2>15, <2>16, <2>17
    DEF ServerNext, ServerGoes
<1> QED
  BY <1>1, <1>2, PTL DEF ServerSpec

(* Where the listener and the status are while the executor goes its way.  *)
ListenerInv ==
    /\ ServerTypeOK
    /\ listener = "open" <=> executor \in {"announcing", "polling", "closing"}
    /\ serverStatus = "stopped" => executor = "ended"
    /\ serverStatus = "none" => executor = "none"
    /\ runner = "starting" => executor \in {"none", "ended"}

(* Once the status says "stopped", and when RunConfiguredMode has returned *)
(* to the loop, the port is free: the deferred function closes the listener*)
(* before it sets the status (server.go:134-137), no later step opens it   *)
(* again, and Stop() may be called at any moment in between.               *)
PortIsFree == runner = "starting" \/ serverStatus = "stopped" => listener = "closed"

(* Nothing that waits for the end of the server finds its port still taken.*)
THEOREM PortIsFreeAfterMode == ServerSpec => []PortIsFree
<1> USE DEF ExecutorGoes, AcceptorGoes, WatcherGoes, Panics
<1>1. ServerInit => ListenerInv
  BY DEF ServerInit, ListenerInv, ServerTypeOK
<1>2. ListenerInv /\ ServerTypeOK' /\ [ServerNext]_serverVars => ListenerInv'
  <2> SUFFICES ASSUME ListenerInv, ServerTypeOK', [ServerNext]_serverVars
               PROVE  ListenerInv'
    OBVIOUS
  <2> USE DEF ListenerInv
  <2>1. CASE StartPanics \/ StartsServer \/ StartFails
    BY <2>1 DEF StartPanics, StartsServer, StartFails
  <2>2. CASE SeesServerStopped
    BY <2>2 DEF SeesServerStopped
  <2>3. CASE Listens
    BY <2>3 DEF Listens, IsUp
  <2>4. CASE Announces \/ SeesStop
    BY <2>4 DEF Announces, SeesStop, IsUp
  <2>5. CASE ClosesListener \/ SetsStopped
    BY <2>5 DEF ClosesListener, SetsStopped, IsUp
  <2>6. CASE WatcherReceives \/ WatcherChecks \/ WatcherStops
    BY <2>6 DEF WatcherReceives, WatcherChecks, WatcherStops
  <2>7. CASE Accepts \/ ShakesHands \/ ConnectionEnds
    BY <2>7 DEF Accepts, ShakesHands, ConnectionEnds
  <2>8. CASE AnyoneStops
    BY <2>8 DEF AnyoneStops
  <2>9. CASE UNCHANGED serverVars
    BY <2>9 DEF serverVars
  <2> QED
    BY <2>1, <2>2, <2>3, <2>4, <2>5, <2>6, <2>7, <2>8, <2>9 DEF ServerNext, ServerGoes
<1>3. ListenerInv => PortIsFree
  BY DEF ListenerInv, ServerTypeOK, PortIsFree
<1> QED
  BY <1>1, <1>2, <1>3, ServerTypeCorrect, PTL DEF ServerSpec

(* FullGC. *)
THEOREM GcTypeCorrect == GcSpec => []GcTypeOK
<1> USE DEF Invokes
<1>1. GcInit => GcTypeOK
  BY DEF GcInit, GcTypeOK
<1>2. GcTypeOK /\ [GcNext]_gcVars => GcTypeOK'
  <2> SUFFICES ASSUME GcTypeOK, [GcNext]_gcVars PROVE GcTypeOK'
    OBVIOUS
  <2>1. CASE NodeChanges
    BY <2>1 DEF GcTypeOK, NodeChanges
  <2>2. ASSUME NEW expected \in BOOLEAN, Ticks(expected) PROVE GcTypeOK'
    BY <2>2 DEF GcTypeOK, Ticks
  <2>3. ASSUME NEW expected \in BOOLEAN, LooksForCrumb(expected) PROVE GcTypeOK'
    BY <2>3 DEF GcTypeOK, LooksForCrumb
  <2>4. ASSUME NEW expected \in BOOLEAN, Disables(expected) PROVE GcTypeOK'
    BY <2>4 DEF GcTypeOK, Disables
  <2>5. ASSUME NEW expected \in BOOLEAN, IsDenied(expected) PROVE GcTypeOK'
    BY <2>5 DEF GcTypeOK, IsDenied
  <2>6. ASSUME NEW expected \in BOOLEAN, GetsCrumb(expected) PROVE GcTypeOK'
    BY <2>6 DEF GcTypeOK, GetsCrumb
  <2>7. ASSUME NEW expected \in BOOLEAN, StoresHeader(expected) PROVE GcTypeOK'
    BY <2>7 DEF GcTypeOK, StoresHeader
  <2>8. ASSUME NEW expected \in BOOLEAN, StoresTogether(expected) PROVE GcTypeOK'
    BY <2>8 DEF GcTypeOK, StoresTogether
  <2>9. ASSUME NEW expected \in BOOLEAN, StoresValue(expected) PROVE GcTypeOK'
    BY <2>9 DEF GcTypeOK, StoresValue
  <2>10. ASSUME NEW expected \in BOOLEAN, ChecksHeader(expected) PROVE GcTypeOK'
    BY <2>10 DEF GcTypeOK, ChecksHeader
  <2>11. ASSUME NEW expected \in BOOLEAN, AddsHeader(expected) PROVE GcTypeOK'
    BY <2>11 DEF GcTypeOK, AddsHeader
  <2>12. ASSUME NEW expected \in BOOLEAN, Sends(expected) PROVE GcTypeOK'
    BY <2>12 DEF GcTypeOK, Sends
  <2>13. CASE UNCHANGED gcVars
    BY <2>13 DEF GcTypeOK, gcVars
  <2> QED
    BY <2>1, <2>2, <2>3, <2>4, <2>5, <2>6, <2>7, <2>8, <2>9, <2>10, <2>11, <2>12, <2>13
    DEF GcNext, Requests
<1> QED
  BY <1>1, <1>2, PTL DEF GcSpec

(* "-" is a promise of the goroutine that fetches the crumb. It is kept but *)
(* when Jenkins denies the crumb, which nobody asks for again              *)
(* (config.go:125-136).                                                    *)
NotGivenUp ==
    header = "-" => denied \/ \E e \in BOOLEAN : invoker[e] \in {"fetching", "storing"}

(* The crumb is not disabled for good as long as Jenkins gives it.          *)
THEOREM CrumbIsNotGivenUp == GcSpec => []NotGivenUp
<1> USE DEF Invokes, GcTypeOK, NotGivenUp
<1>1. GcInit => NotGivenUp
  BY DEF GcInit
<1>2. GcTypeOK /\ NotGivenUp /\ [GcNext]_gcVars => NotGivenUp'
  <2> SUFFICES ASSUME GcTypeOK, NotGivenUp, [GcNext]_gcVars PROVE NotGivenUp'
    OBVIOUS
  <2>1. CASE NodeChanges \/ UNCHANGED gcVars
    BY <2>1 DEF NodeChanges, gcVars
  <2>2. ASSUME NEW e \in BOOLEAN, Ticks(e) \/ LooksForCrumb(e) PROVE NotGivenUp'
    BY <2>2 DEF Ticks, LooksForCrumb
  <2>3. ASSUME NEW e \in BOOLEAN, Disables(e) PROVE NotGivenUp'
    BY <2>3 DEF Disables
  <2>4. ASSUME NEW e \in BOOLEAN, IsDenied(e) \/ GetsCrumb(e) PROVE NotGivenUp'
    BY <2>4 DEF IsDenied, GetsCrumb
  <2>5. ASSUME NEW e \in BOOLEAN, StoresHeader(e) \/ StoresTogether(e) PROVE NotGivenUp'
    BY <2>5 DEF StoresHeader, StoresTogether
  <2>6. ASSUME NEW e \in BOOLEAN,
               StoresValue(e) \/ ChecksHeader(e) \/ AddsHeader(e) \/ Sends(e)
        PROVE  NotGivenUp'
    BY <2>6 DEF StoresValue, ChecksHeader, AddsHeader, Sends
  <2> QED
    BY <2>1, <2>2, <2>3, <2>4, <2>5, <2>6 DEF GcNext, Requests
<1> QED
  BY <1>1, <1>2, GcTypeCorrect, PTL DEF GcSpec

(* The crumb is there and nobody is about to write it.                     *)
Settled ==
    /\ header = "crumb" /\ value = "crumb"
    /\ \A e \in BOOLEAN :
           invoker[e] \notin {"disabling", "fetching", "storing", "completing"}

CarriesNow(e) == invoker[e] # "sending" /\ invoker'[e] = "sending" => carries'[e]

(* Once both strings are whole and the last writer is through, they stay   *)
(* so, and every request that is made from then on carries the crumb: the  *)
(* safety behind CrumbIsUsed, without an assumption on what Jenkins answers*)
(* or on what the goroutines did to each other before.                     *)
THEOREM SettledCrumbStays ==
    GcSpec => [][Settled => Settled' /\ \A e \in BOOLEAN : CarriesNow(e)]_gcVars
<1> DEFINE Kept == Settled' /\ \A e \in BOOLEAN : CarriesNow(e)
<1> USE DEF Invokes, GcTypeOK, Settled, CarriesNow
<1>1. GcTypeOK /\ GcNext /\ Settled => Kept
  <2> SUFFICES ASSUME GcTypeOK, GcNext, Settled PROVE Kept
    OBVIOUS
  <2>1. CASE NodeChanges
    BY <2>1 DEF NodeChanges
  <2>2. ASSUME NEW e \in BOOLEAN, Ticks(e) \/ LooksForCrumb(e) PROVE Kept
    BY <2>2 DEF Ticks, LooksForCrumb
  <2>3. ASSUME NEW e \in BOOLEAN,
               \/ Disables(e) \/ IsDenied(e) \/ GetsCrumb(e)
               \/ StoresHeader(e) \/ StoresTogether(e) \/ StoresValue(e)
        PROVE  Kept
    BY <2>3 DEF Disables, IsDenied, GetsCrumb, StoresHeader, StoresTogether, StoresValue
  <2>4. ASSUME NEW e \in BOOLEAN, ChecksHeader(e) PROVE Kept
    BY <2>4 DEF ChecksHeader
  <2>5. ASSUME NEW e \in BOOLEAN, AddsHeader(e) PROVE Kept
    BY <2>5 DEF AddsHeader
  <2>6. ASSUME NEW e \in BOOLEAN, Sends(e) PROVE Kept
    BY <2>6 DEF Sends
  <2> QED
    BY <2>1, <2>2, <2>3, <2>4, <2>5, <2>6 DEF GcNext, Requests
<1>2. GcTypeOK /\ [GcNext]_gcVars => [Settled => Kept]_gcVars
  BY <1>1
<1> QED
  BY <1>2, GcTypeCorrect, PTL DEF GcSpec

-----------------------------------------------------------------------------
(* JnlpDocument. First, sequences.                                         *)

(* The map is walked in an order of its names.                             *)
LEMMA Orders ==
    ASSUME NEW order \in SetToSeqs(Names) PROVE order \in Seq(Names)
<1>1. Cardinality(Names) \in Nat
      BY DocumentAssumption, FS_CardinalityType, Zenon
<1> QED BY <1>1 DEF SetToSeqs

(* What joining sequences does.                                            *)
IsJoined(w, s, t) ==
    /\ Len(w) = Len(s) + Len(t)
    /\ \A k \in 1..Len(s) : w[k] = s[k]
    /\ \A k \in 1..Len(t) : w[Len(s) + k] = t[k]

LEMMA Joined ==
    ASSUME NEW S, NEW s \in Seq(S), NEW t \in Seq(S)
    PROVE  s \o t \in Seq(S) /\ IsJoined(s \o t, s, t)
BY DEF IsJoined

(* Joining is associative.                                                 *)
LEMMA JoinedInTurn ==
    ASSUME NEW S, NEW s \in Seq(S), NEW t \in Seq(S), NEW u \in Seq(S)
    PROVE  (s \o t) \o u = s \o (t \o u)
BY ConcatAssociative

(* One more, and one less.                                                 *)
LEMMA Added ==
    ASSUME NEW S, NEW s \in Seq(S), NEW x \in S
    PROVE  /\ Append(s, x) = s \o <<x>> /\ Append(s, x) # <<>>
           /\ Front(Append(s, x)) = s /\ Last(Append(s, x)) = x
<1>1. /\ Append(s, x) \in Seq(S) /\ Len(Append(s, x)) = Len(s) + 1
      /\ Append(s, x)[Len(s) + 1] = x
      OBVIOUS
<1>2. \A i \in 1..Len(s) : Append(s, x)[i] = s[i]
      OBVIOUS
<1>3. Append(s, x) = s \o <<x>>
      OBVIOUS
<1>4. Front(Append(s, x)) = s
      BY <1>1, <1>2 DEF Front
<1> QED BY <1>1, <1>3, <1>4 DEF Last

(* Two tokens, then a third one.                                           *)
LEMMA AddedInTurn ==
    ASSUME NEW S, NEW s \in Seq(S), NEW a \in S, NEW b \in S, NEW c \in S
    PROVE  s \o <<a, b>> \in Seq(S) /\ Append(s \o <<a, b>>, c) = s \o <<a, b, c>>
<1>1. s \o <<a, b>> = Append(Append(s, a), b)
      OBVIOUS
<1>2. s \o <<a, b, c>> = Append(Append(Append(s, a), b), c)
      OBVIOUS
<1>3. Append(Append(s, a), b) \in Seq(S)
      OBVIOUS
<1> QED BY <1>1, <1>2, <1>3, Zenon

(* An argument: its start, its text, its end.                              *)
LEMMA ElementTokens ==
    ASSUME NEW x
    PROVE  /\ Element(x)[1] = Start("argument")
           /\ Element(x)[2] = Text(x)
           /\ Element(x)[3] = End("argument")
BY DEF Element

(* The tokens that the loop writes, with texts of S.                        *)
Marks(S) ==
    {Start(n) : n \in {"application-desc", "argument"}}
        \cup {End(n) : n \in {"application-desc", "argument"}} \cup {Text(x) : x \in S}

(* An argument is three tokens.                                            *)
LEMMA ElementType ==
    ASSUME NEW S, NEW x \in S
    PROVE  Element(x) \in Seq(Marks(S)) /\ Len(Element(x)) = 3
<1>1. Start("argument") \in Marks(S) /\ Text(x) \in Marks(S) /\ End("argument") \in Marks(S)
      BY DEF Marks
<1> QED BY <1>1 DEF Element

(* Arguments one after the other are three tokens each.                    *)
LEMMA ElementsType ==
    ASSUME NEW S, NEW words \in Seq(S)
    PROVE  Elements(words) \in Seq(Marks(S)) /\ Len(Elements(words)) = 3 * Len(words)
<1>1. ASSUME NEW k \in 1..3 * Len(words)
      PROVE  Element(words[(k + 2) \div 3])[1 + ((k - 1) % 3)] \in Marks(S)
  <2>1. (k + 2) \div 3 \in 1..Len(words) /\ (k - 1) % 3 \in {0, 1, 2}
        OBVIOUS
  <2>2. words[(k + 2) \div 3] \in S
        BY <2>1
  <2> QED BY <2>1, <2>2, ElementTokens DEF Marks
<1>2. 3 * Len(words) \in Nat
      OBVIOUS
<1> QED BY <1>1, <1>2 DEF Elements

(* One argument more is one element more.                                  *)
LEMMA ElementsGrow ==
    ASSUME NEW S, NEW words \in Seq(S), NEW x \in S
    PROVE  Elements(Append(words, x)) = Elements(words) \o Element(x)
<1> DEFINE more == Append(words, x)
           n == 3 * Len(words)
           all == Elements(more)
           first == Elements(words)
           item == Element(x)
           whole == first \o item
<1>1. /\ more \in Seq(S) /\ Len(more) = Len(words) + 1 /\ more[Len(words) + 1] = x
      /\ \A i \in 1..Len(words) : more[i] = words[i]
      OBVIOUS
<1>2. n \in Nat /\ Len(first) = n /\ first \in Seq(Marks(S))
      BY ElementsType
<1>3. \A k \in 1..n : first[k] = Element(words[(k + 2) \div 3])[1 + ((k - 1) % 3)]
      BY DEF Elements
<1>4. Len(words) \in Nat
      OBVIOUS
<1> HIDE DEF more, first
<1>5. all \in Seq(Marks(S)) /\ Len(all) = n + 3
  <2>1. Elements(more) \in Seq(Marks(S)) /\ Len(Elements(more)) = 3 * Len(more)
        BY <1>1, ElementsType
  <2> QED BY <1>1, <1>4, <2>1
<1>6. \A k \in 1..n + 3 : all[k] = Element(more[(k + 2) \div 3])[1 + ((k - 1) % 3)]
      BY <1>1, <1>4 DEF Elements
<1> HIDE DEF all
<1>7. /\ whole \in Seq(Marks(S)) /\ Len(whole) = n + 3
      /\ \A k \in 1..n : whole[k] = first[k]
      /\ \A k \in 1..3 : whole[n + k] = item[k]
  <2>1. item \in Seq(Marks(S)) /\ Len(item) = 3
        BY ElementType
  <2>2. first \in Seq(Marks(S)) /\ item \in Seq(Marks(S))
        BY <1>2, <2>1
  <2> HIDE DEF item, n
  <2>3. whole \in Seq(Marks(S)) /\ IsJoined(whole, first, item)
        BY <2>2, Joined, Zenon
  <2> HIDE DEF whole
  <2> QED BY <1>2, <2>1, <2>3 DEF IsJoined
<1> HIDE DEF whole
<1>8. ASSUME NEW k \in 1..n PROVE all[k] = whole[k]
  <2> DEFINE i == (k + 2) \div 3
             r == 1 + ((k - 1) % 3)
  <2>1. i \in 1..Len(words) /\ k \in 1..n + 3
        BY <1>4
  <2>2. first[k] = Element(words[i])[r] /\ all[k] = Element(more[i])[r]
        BY <1>3, <1>6, <2>1
  <2> HIDE DEF i, r, n
  <2> QED BY <1>1, <1>7, <2>1, <2>2
<1>9. ASSUME NEW k \in 1..3 PROVE all[n + k] = whole[n + k]
  <2>1. /\ ((n + k) + 2) \div 3 = Len(words) + 1 /\ 1 + (((n + k) - 1) % 3) = k
        /\ n + k \in 1..n + 3
        BY <1>4
  <2> HIDE DEF n
  <2> QED BY <1>1, <1>6, <1>7, <2>1, ZenonT(40)
<1>10. \A k \in 1..n + 3 : k \in 1..n \/ (k - n \in 1..3 /\ k = n + (k - n))
       BY <1>4
<1> HIDE DEF n
<1>11. ASSUME NEW k \in 1..n + 3 PROVE all[k] = whole[k]
       BY <1>8, <1>9, <1>10
<1>12. all = whole
       BY <1>2, <1>5, <1>7, <1>11
<1> QED BY <1>12 DEF all, more, whole, first

(* No arguments, no tokens.                                                *)
LEMMA NoElements == Elements(<<>>) = <<>>
BY DEF Elements

(* The tokens of a document.                                               *)
IsDocument(tokens, words) ==
    /\ Len(tokens) = 4 * Len(words) + 3
    /\ tokens[1] = Start("application-desc")
    /\ \A j \in 0..Len(words) : tokens[4 * j + 2] = Blank
    /\ \A j \in 0..Len(words) - 1 : tokens[4 * j + 3] = Start("argument")
    /\ \A j \in 1..Len(words) : tokens[4 * j] = Text(words[j])
    /\ \A j \in 1..Len(words) : tokens[4 * j + 1] = End("argument")
    /\ tokens[4 * Len(words) + 3] = End("application-desc")

(* Where each token of the document of Jenkins is.                         *)
LEMMA SentTokens ==
    ASSUME NEW S, NEW words \in Seq(S) PROVE IsDocument(Sent(words), words)
<1> DEFINE n == Len(words)
           last == 4 * n + 3
<1>1. n \in Nat
      OBVIOUS
<1> HIDE DEF n
<1>2. /\ Sent(words) = [k \in 1..last |->
            CASE k = 1 -> Start("application-desc")
              [] k = last -> End("application-desc")
              [] k \in 2..last - 1 /\ k % 4 = 2 -> Blank
              [] k \in 2..last - 1 /\ k % 4 = 3 -> Start("argument")
              [] k \in 2..last - 1 /\ k % 4 = 0 -> Text(words[k \div 4])
              [] k \in 2..last - 1 /\ k % 4 = 1 -> End("argument")]
      BY DEF Sent, n
<1>3. Len(Sent(words)) = last
      BY <1>1, <1>2
<1>4. Sent(words)[1] = Start("application-desc") /\ Sent(words)[last] = End("application-desc")
      BY <1>1, <1>2
<1>5. ASSUME NEW j \in 0..n PROVE Sent(words)[4 * j + 2] = Blank
  <2>1. 4 * j + 2 \in 2..last - 1 /\ (4 * j + 2) % 4 = 2
        BY <1>1
  <2> QED BY <1>1, <1>2, <2>1
<1>6. ASSUME NEW j \in 0..n - 1 PROVE Sent(words)[4 * j + 3] = Start("argument")
  <2>1. 4 * j + 3 \in 2..last - 1 /\ (4 * j + 3) % 4 = 3
        BY <1>1
  <2> QED BY <1>1, <1>2, <2>1
<1>7. ASSUME NEW j \in 1..n PROVE Sent(words)[4 * j] = Text(words[j])
  <2>1. 4 * j \in 2..last - 1 /\ (4 * j) % 4 = 0 /\ (4 * j) \div 4 = j
        BY <1>1
  <2> QED BY <1>1, <1>2, <2>1
<1>8. ASSUME NEW j \in 1..n PROVE Sent(words)[4 * j + 1] = End("argument")
  <2>1. 4 * j + 1 \in 2..last - 1 /\ (4 * j + 1) % 4 = 1
        BY <1>1
  <2> QED BY <1>1, <1>2, <2>1
<1> QED BY <1>3, <1>4, <1>5, <1>6, <1>7, <1>8 DEF n, IsDocument

-----------------------------------------------------------------------------
(* Where the loop is, after j arguments, and what it has then written.     *)

Texts == Names \cup Words \cup {ValueOf(n) : n \in Names}
Written == Seq(Marks(Texts))

Desc == <<"application-desc">>
InArgument == Append(Desc, "argument")

Begun == <<Start("application-desc")>> \o Elements(kept)

(* The value of a name that was left out has still to be left out.         *)
Owed(j) == IF j # 0 /\ arguments[j] \in Names THEN 1 ELSE 0

Between(j) ==
    /\ skipArguments = Owed(j) /\ nextIsArgumentContent = FALSE
    /\ out = Begun /\ open = Desc

BeforeText(j) ==
    /\ skipArguments = Owed(j) /\ nextIsArgumentContent = TRUE
    /\ out = Begun /\ open = Desc

AfterText(j) ==
    /\ nextIsArgumentContent = FALSE
    /\ IF Stays(j)
       THEN /\ skipArguments = 0 /\ open = InArgument
            /\ out \in Written /\ Append(out, End("argument")) = Begun
       ELSE /\ skipArguments = Owed(j) + 1 /\ open = Desc /\ out = Begun

Rewritten(document) ==
    \E order \in SetToSeqs(Names) : document = Within(Elements(kept) \o Overrides(order))

Idle ==
    /\ at = 0 /\ skipArguments = 0 /\ nextIsArgumentContent = FALSE
    /\ out = <<>> /\ open = <<>>
    /\ custom \notin {NoFile, <<>>} /\ Paired => Rewritten(custom)

InLoop ==
    /\ custom = NoFile
    /\ \/ /\ at = 1 /\ kept = <<>>
          /\ skipArguments = 0 /\ nextIsArgumentContent = FALSE
          /\ out = <<>> /\ open = <<>>
       \/ \E j \in 0..Len(arguments) : at \in {4 * j + 2, 4 * j + 3} /\ Between(j)
       \/ \E j \in 0..Len(arguments) - 1 : at = 4 * j + 4 /\ BeforeText(j)
       \/ \E j \in 1..Len(arguments) : at = 4 * j + 1 /\ AfterText(j)
       \/ at = 4 * Len(arguments) + 4 /\ (Paired => Rewritten(out))

DocumentInv ==
    /\ arguments \in Seq(Names \cup Words)
    /\ kept \in Seq(Texts)
    /\ Idle \/ InLoop

(* The parts of a token, and which one is read where.                      *)
LEMMA TokenParts ==
    /\ \A n : Start(n)[1] = "start" /\ Start(n)[2] = n
    /\ \A n : End(n)[1] = "end" /\ End(n)[2] = n
    /\ \A x : Text(x)[1] = "text" /\ Text(x)[2] = x
    /\ Blank[1] = "text"
BY DEF Start, End, Text, Blank

(* What is read and what is kept are texts.                                *)
Known == arguments \in Seq(Names \cup Words) /\ kept \in Seq(Texts)

(* The token that is read next, by its place.                              *)
LEMMA TokenRead ==
    ASSUME Known
    PROVE  /\ Len(arguments) \in Nat
           /\ Len(Sent(arguments)) = 4 * Len(arguments) + 3
           /\ at = 1 => Token = Start("application-desc")
           /\ \A j \in 0..Len(arguments) : at = 4 * j + 2 => Token = Blank
           /\ \A j \in 0..Len(arguments) - 1 : at = 4 * j + 3 => Token = Start("argument")
           /\ \A j \in 1..Len(arguments) : at = 4 * j => Token = Text(arguments[j])
           /\ \A j \in 1..Len(arguments) : at = 4 * j + 1 => Token = End("argument")
           /\ at = 4 * Len(arguments) + 3 => Token = End("application-desc")
<1>1. IsDocument(Sent(arguments), arguments) /\ Len(arguments) \in Nat
      BY SentTokens DEF Known
<1> DEFINE tokens == Sent(arguments)
<1> HIDE DEF tokens
<1>2. IsDocument(tokens, arguments) /\ Token = tokens[at]
      BY <1>1 DEF tokens, Token
<1>3. /\ at = 1 => Token = Start("application-desc")
      /\ at = 4 * Len(arguments) + 3 => Token = End("application-desc")
      /\ Len(tokens) = 4 * Len(arguments) + 3
      BY <1>2 DEF IsDocument
<1>4. /\ \A j \in 0..Len(arguments) : at = 4 * j + 2 => Token = Blank
      /\ \A j \in 0..Len(arguments) - 1 : at = 4 * j + 3 => Token = Start("argument")
      BY <1>2 DEF IsDocument
<1>5. /\ \A j \in 1..Len(arguments) : at = 4 * j => Token = Text(arguments[j])
      /\ \A j \in 1..Len(arguments) : at = 4 * j + 1 => Token = End("argument")
      BY <1>2 DEF IsDocument
<1> QED BY <1>1, <1>3, <1>4, <1>5 DEF tokens

(* What is written, and the tokens it consists of.                         *)
LEMMA BegunType ==
    ASSUME Known
    PROVE  /\ Elements(kept) \in Written /\ Begun \in Written
           /\ <<Start("application-desc")>> \in Written
           /\ Start("application-desc") \in Marks(Texts) /\ Start("argument") \in Marks(Texts)
           /\ End("application-desc") \in Marks(Texts) /\ End("argument") \in Marks(Texts)
           /\ \A x \in Texts : Text(x) \in Marks(Texts)
<1>1. Elements(kept) \in Written
      BY ElementsType DEF Known, Written
<1>2. /\ Start("application-desc") \in Marks(Texts) /\ Start("argument") \in Marks(Texts)
      /\ End("application-desc") \in Marks(Texts) /\ End("argument") \in Marks(Texts)
      /\ \A x \in Texts : Text(x) \in Marks(Texts)
      BY DEF Marks
<1>3. <<Start("application-desc")>> \in Written
      BY <1>2 DEF Written
<1>4. Begun \in Written
      BY <1>1, <1>3, Joined, Zenon DEF Begun, Written
<1> QED BY <1>1, <1>2, <1>3, <1>4

(* The kind of the token and what is waited for decide what is done.       *)
LEMMA WhatIsDone ==
    ASSUME applyCustomJnlpArgs, at # Len(Sent(arguments)) + 1
    PROVE  /\ Token[1] = "start" => StartElement
           /\ Token[1] = "text" /\ nextIsArgumentContent = FALSE => WhiteSpace
           /\ Token[1] = "text" /\ nextIsArgumentContent = TRUE =>
                  IF Token[2] \in Names THEN TakesName ELSE OtherArgument
           /\ Token[1] = "end" /\ Token[2] = "argument" => EndArgument
           /\ Token[1] = "end" /\ Token[2] = "application-desc" => EndElement
BY DEF applyCustomJnlpArgs, StartElement, Decodes, WhiteSpace, TakesName, OtherArgument,
       EndArgument, EndElement, IsWritten

(* The first token opens the document.                                     *)
LEMMA DocumentBegins ==
    ASSUME Known, custom = NoFile, at = 1, kept = <<>>, out = <<>>, open = <<>>,
           skipArguments = 0, applyCustomJnlpArgs
    PROVE  Known' /\ InLoop'
<1>1. Token = Start("application-desc") /\ Len(arguments) \in Nat /\ at # Len(Sent(arguments)) + 1
      BY TokenRead
<1>2. StartElement
      BY <1>1, TokenParts, WhatIsDone
<1>3. /\ at' = 2 /\ arguments' = arguments /\ custom' = custom /\ kept' = <<>>
      /\ skipArguments' = 0 /\ nextIsArgumentContent' = FALSE /\ EncodesStart(<<Token>>)
  <2>1. Token[2] # "argument"
        BY <1>1, TokenParts
  <2>2. nextIsArgumentContent' = FALSE
        BY <1>2, <2>1, Zenon DEF StartElement
  <2> QED BY <1>2, <2>1, <2>2 DEF StartElement, Decodes
<1>4. out' = <<>> \o <<Token>> /\ open' = Append(<<>>, "application-desc")
      BY <1>1, <1>3, TokenParts DEF EncodesStart
<1>5. out' = <<Start("application-desc")>> \o <<>> /\ open' = Desc
      BY <1>1, <1>4 DEF Desc
<1>6. Begun' = out'
      BY <1>3, <1>5, NoElements DEF Begun
<1>7. Owed(0)' = 0
      BY DEF Owed
<1>8. Between(0)'
      BY <1>3, <1>5, <1>6, <1>7 DEF Between
<1>9. 0 \in 0..Len(arguments)' /\ at' \in {4 * 0 + 2, 4 * 0 + 3}
      BY <1>1, <1>3
<1>10. InLoop'
      BY <1>3, <1>8, <1>9 DEF InLoop
<1> QED BY <1>3, <1>10 DEF Known

(* What is not changed is as it was.                                       *)
LEMMA SameDocument ==
    ASSUME arguments' = arguments, kept' = kept
    PROVE  /\ Begun' = Begun /\ (Known => Known')
           /\ \A j : Owed(j)' = Owed(j) /\ Stays(j)' = Stays(j)
BY DEF Begun, Owed, Stays, Known

(* White space leaves everything as it is.                                 *)
LEMMA WhiteSpaceIsRead ==
    ASSUME Known, custom = NoFile, NEW j \in 0..Len(arguments), at = 4 * j + 2, Between(j),
           applyCustomJnlpArgs
    PROVE  Known' /\ InLoop'
<1>1. Token = Blank /\ Len(arguments) \in Nat /\ at # Len(Sent(arguments)) + 1
      BY TokenRead
<1>2. WhiteSpace
      BY <1>1, TokenParts, WhatIsDone DEF Between
<1>3. /\ at' = 4 * j + 3 /\ arguments' = arguments /\ custom' = custom /\ kept' = kept
      /\ skipArguments' = skipArguments /\ nextIsArgumentContent' = nextIsArgumentContent
      /\ out' = out /\ open' = open
      BY <1>2 DEF WhiteSpace, Decodes, encoder
<1>4. Between(j)'
      BY <1>3, SameDocument DEF Between
<1>5. InLoop'
      BY <1>3, <1>4 DEF InLoop
<1> QED BY <1>3, <1>5, SameDocument

(* The start of an argument waits for its text.                            *)
LEMMA ArgumentBegins ==
    ASSUME Known, custom = NoFile, NEW j \in 0..Len(arguments) - 1, at = 4 * j + 3, Between(j),
           applyCustomJnlpArgs
    PROVE  Known' /\ InLoop'
<1>1. Token = Start("argument") /\ Len(arguments) \in Nat /\ at # Len(Sent(arguments)) + 1
      BY TokenRead
<1>2. StartElement /\ Token[2] = "argument"
      BY <1>1, TokenParts, WhatIsDone
<1>3. nextIsArgumentContent' = TRUE
      BY <1>2, Zenon DEF StartElement
<1>4. /\ at' = 4 * j + 4 /\ arguments' = arguments /\ custom' = custom /\ kept' = kept
      /\ skipArguments' = skipArguments /\ out' = out /\ open' = open
      BY <1>2 DEF StartElement, Decodes, encoder
<1>5. BeforeText(j)'
      BY <1>3, <1>4, SameDocument DEF Between, BeforeText
<1>6. InLoop'
      BY <1>4, <1>5 DEF InLoop
<1> QED BY <1>4, <1>6, SameDocument

(* The text decides whether the argument is kept.                          *)
LEMMA TextIsRead ==
    ASSUME Known, custom = NoFile, NEW j \in 0..Len(arguments) - 1, at = 4 * j + 4, BeforeText(j),
           applyCustomJnlpArgs
    PROVE  Known' /\ InLoop'
<1> DEFINE x == arguments[j + 1]
<1>1. /\ Token = Text(x) /\ Len(arguments) \in Nat /\ at # Len(Sent(arguments)) + 1
      /\ j + 1 \in 1..Len(arguments) /\ j \in Nat /\ at \div 4 = j + 1
  <2>1. j + 1 \in 1..Len(arguments) /\ at = 4 * (j + 1)
        BY TokenRead
  <2> QED BY <2>1, TokenRead
<1>2. Token[1] = "text" /\ Token[2] = x /\ x \in Names \cup Words
      BY <1>1, TokenParts DEF Known
<1>3. /\ at' = 4 * (j + 1) + 1 /\ arguments' = arguments /\ custom' = custom
      /\ nextIsArgumentContent' = FALSE
      /\ x \in Names => TakesName
      /\ x \notin Names => OtherArgument
  <2>1. IF x \in Names THEN TakesName ELSE OtherArgument
        BY <1>1, <1>2, WhatIsDone DEF BeforeText
  <2>2. CASE TakesName
        BY <1>1, <1>2, <2>1, <2>2 DEF TakesName, Decodes
  <2>3. CASE OtherArgument
        BY <1>1, <1>2, <2>1, <2>3 DEF OtherArgument, Decodes
  <2> QED BY <2>1, <2>2, <2>3
<1>4. Stays(j + 1) <=> x \notin Names /\ Owed(j) = 0
      BY <1>1 DEF Stays, Owed
<1>5. Stays(j + 1)' <=> Stays(j + 1)
      BY <1>3 DEF Stays
<1>6. CASE x \in Names
  <2>1. TakesName /\ kept' = kept /\ skipArguments' = 2 /\ out' = out /\ open' = open
        BY <1>3, <1>6 DEF TakesName, encoder
  <2>2. Owed(j + 1) = 1
        BY <1>1, <1>6 DEF Owed
  <2>3. AfterText(j + 1)'
        BY <1>3, <1>4, <1>5, <1>6, <2>1, <2>2, SameDocument DEF AfterText, BeforeText
  <2> QED BY <1>1, <1>3, <2>1, <2>3, SameDocument DEF InLoop
<1>7. CASE x \notin Names /\ Owed(j) # 0
  <2>1. /\ OtherArgument /\ kept' = kept /\ skipArguments' = 1
        /\ out' = out /\ open' = open
        BY <1>1, <1>3, <1>4, <1>7 DEF OtherArgument, encoder, BeforeText, Owed
  <2>2. Owed(j + 1) = 0
        BY <1>1, <1>7 DEF Owed
  <2>3. AfterText(j + 1)'
        BY <1>3, <1>4, <1>5, <1>7, <2>1, <2>2, SameDocument DEF AfterText, BeforeText
  <2> QED BY <1>1, <1>3, <2>1, <2>3, SameDocument DEF InLoop
<1>8. CASE x \notin Names /\ Owed(j) = 0
  <2>1. /\ OtherArgument /\ kept' = Append(kept, x) /\ skipArguments' = 0
        /\ EncodesStart(<<Start("argument"), Token>>)
        BY <1>1, <1>2, <1>3, <1>4, <1>8 DEF OtherArgument, BeforeText
  <2>2. out' = Begun \o <<Start("argument"), Text(x)>> /\ open' = InArgument
    <3>1. <<Start("argument"), Token>>[1][2] = "argument"
          BY DEF Start
    <3>2. out' = out \o <<Start("argument"), Token>> /\ open' = Append(open, "argument")
          BY <2>1, <3>1 DEF EncodesStart
    <3>3. open = Desc /\ out = Begun /\ Token = Text(x)
          BY <1>1 DEF BeforeText
    <3> QED BY <3>2, <3>3, Zenon DEF InArgument
  <2>3. x \in Texts
        BY <1>2 DEF Texts
  <2>4. Known'
        BY <1>3, <2>1, <2>3 DEF Known
  <2>5. out' \in Written /\ Append(out', End("argument")) = Begun \o Element(x)
    <3> DEFINE T == Marks(Texts)
               b == Begun
               s == Start("argument")
               t == Text(x)
               e == End("argument")
    <3>1. b \in Seq(T) /\ s \in T /\ t \in T /\ e \in T
          BY <2>3, BegunType DEF Written
    <3> HIDE DEF T, b, s, t, e
    <3>2. b \o <<s, t>> \in Seq(T) /\ Append(b \o <<s, t>>, e) = b \o <<s, t, e>>
          BY <3>1, AddedInTurn
    <3> QED BY <2>2, <3>2 DEF T, b, s, t, e, Element, Written
  <2>6. Begun' = Begun \o Element(x)
    <3> DEFINE T == Marks(Texts)
               f == <<Start("application-desc")>>
               g == Elements(kept)
               e == Element(x)
    <3>1. f \in Seq(T) /\ g \in Seq(T) /\ e \in Seq(T)
          BY <2>3, BegunType, ElementType DEF Written
    <3>2. Begun' = f \o (g \o e)
          BY <2>1, <2>3, ElementsGrow DEF Begun, Known
    <3>3. Begun = f \o g
          BY DEF Begun
    <3> HIDE DEF T, f, g, e
    <3>4. (f \o g) \o e = f \o (g \o e)
          BY <3>1, JoinedInTurn
    <3> QED BY <3>2, <3>3, <3>4 DEF e
  <2>7. AfterText(j + 1)'
        BY <1>3, <1>4, <1>5, <1>8, <2>1, <2>2, <2>5, <2>6 DEF AfterText, Written
  <2> QED BY <1>1, <1>3, <2>4, <2>7 DEF InLoop
<1> QED BY <1>6, <1>7, <1>8

(* What was written is closed, and what was left out is over.              *)
LEMMA ArgumentEnds ==
    ASSUME Known, custom = NoFile, NEW j \in 1..Len(arguments), at = 4 * j + 1, AfterText(j),
           applyCustomJnlpArgs
    PROVE  Known' /\ InLoop'
<1>1. /\ Token = End("argument") /\ Len(arguments) \in Nat /\ at # Len(Sent(arguments)) + 1
      /\ j \in 0..Len(arguments)
      BY TokenRead
<1>2. EndArgument /\ Token[2] = "argument"
      BY <1>1, TokenParts, WhatIsDone
<1>3. /\ at' = 4 * j + 2 /\ arguments' = arguments /\ custom' = custom /\ kept' = kept
      /\ nextIsArgumentContent' = FALSE
      /\ skipArguments' = (IF skipArguments > 0 THEN skipArguments - 1 ELSE 0)
      /\ EncodesEnd(out)
      BY <1>2 DEF EndArgument, Decodes, AfterText
<1>4. Owed(j) \in {0, 1}
      BY DEF Owed
<1>5. CASE Stays(j)
  <2>1. Owed(j) = 0 /\ skipArguments' = 0
        BY <1>3, <1>5 DEF AfterText, Stays, Owed
  <2>2. Last(InArgument) = "argument" /\ InArgument # <<>> /\ Front(InArgument) = Desc
    <3> DEFINE S == {"application-desc", "argument"}
    <3>1. Desc \in Seq(S) /\ "argument" \in S
          BY DEF Desc
    <3> HIDE DEF S
    <3> QED BY <3>1, Added DEF InArgument
  <2>3. out' = Append(out, End("argument")) /\ open' = Desc
        BY <1>1, <1>2, <1>3, <1>5, <2>1, <2>2 DEF EncodesEnd, AfterText
  <2> QED BY <1>1, <1>3, <1>5, <2>1, <2>3, SameDocument DEF AfterText, Between, InLoop
<1>6. CASE ~ Stays(j)
  <2>1. skipArguments' = Owed(j)
        BY <1>3, <1>4, <1>6 DEF AfterText
  <2>2. Last(Desc) # "argument"
        BY DEF Last, Desc
  <2>3. out' = Begun /\ open' = Desc
        BY <1>2, <1>3, <1>6, <2>2 DEF EncodesEnd, AfterText
  <2> QED BY <1>1, <1>3, <2>1, <2>3, SameDocument DEF Between, InLoop
<1> QED BY <1>5, <1>6

(* The launcher's arguments come last.                                     *)
LEMMA OverridesType ==
    ASSUME NEW order \in SetToSeqs(Names) PROVE Overrides(order) \in Written
<1> DEFINE words == [i \in 1..2 * Len(order) |->
                        IF i % 2 = 1 THEN order[(i + 1) \div 2] ELSE ValueOf(order[i \div 2])]
<1>1. order \in Seq(Names)
      BY Orders
<1>2. ASSUME NEW i \in 1..2 * Len(order)
      PROVE  (IF i % 2 = 1 THEN order[(i + 1) \div 2] ELSE ValueOf(order[i \div 2])) \in Texts
  <2>1. CASE i % 2 = 1
    <3>1. (i + 1) \div 2 \in 1..Len(order)
          BY <1>1, <2>1
    <3> QED BY <1>1, <2>1, <3>1 DEF Texts
  <2>2. CASE i % 2 # 1
    <3>1. i \div 2 \in 1..Len(order)
          BY <1>1, <2>2
    <3>2. order[i \div 2] \in Names
          BY <1>1, <3>1
    <3> QED BY <2>2, <3>2 DEF Texts
  <2> QED BY <2>1, <2>2
<1>3. 2 * Len(order) \in Nat
      BY <1>1
<1>4. words \in Seq(Texts)
      BY <1>2, <1>3
<1> QED BY <1>4, ElementsType DEF Overrides, Written

(* With the end of the element, the document is complete.                  *)
LEMMA DocumentEnds ==
    ASSUME Known, custom = NoFile, at = 4 * Len(arguments) + 3, Between(Len(arguments)),
           applyCustomJnlpArgs
    PROVE  Known' /\ InLoop'
<1>1. /\ Token = End("application-desc") /\ Len(arguments) \in Nat
      /\ at # Len(Sent(arguments)) + 1
      BY TokenRead
<1>2. EndElement /\ Token[2] = "application-desc"
      BY <1>1, TokenParts, WhatIsDone
<1>3. /\ at' = 4 * Len(arguments) + 4 /\ arguments' = arguments /\ custom' = custom
      /\ kept' = kept /\ skipArguments' = skipArguments
      BY <1>1, <1>2 DEF EndElement, Decodes
<1>4. PICK order \in SetToSeqs(Names) : EncodesEnd(out \o Overrides(order))
      BY <1>2 DEF EndElement
<1>5. ASSUME Paired
      PROVE  out' = Within(Elements(kept) \o Overrides(order))
  <2>1. skipArguments' = 0
    <3>1. Owed(Len(arguments)) = 0
          BY <1>5 DEF Owed, Paired, Last, Known
    <3> QED BY <1>3, <3>1 DEF Between
  <2>2. Desc # <<>> /\ Last(Desc) = "application-desc"
        BY DEF Last, Desc
  <2>3. out' = Append(Begun \o Overrides(order), End("application-desc"))
        BY <1>1, <1>2, <1>4, <2>1, <2>2 DEF EncodesEnd, Between
  <2> DEFINE T == Marks(Texts)
             f == <<Start("application-desc")>>
             g == Elements(kept)
             h == Overrides(order)
             e == End("application-desc")
  <2>4. f \in Seq(T) /\ g \in Seq(T) /\ h \in Seq(T) /\ e \in T
        BY BegunType, OverridesType DEF Written
  <2>5. Begun = f \o g /\ Within(g \o h) = f \o (g \o h) \o <<e>>
        BY DEF Begun, Within
  <2>6. out' = Append((f \o g) \o h, e)
        BY <2>3, <2>5
  <2> HIDE DEF T, f, g, h, e
  <2>7. (f \o g) \o h = f \o (g \o h) /\ f \o (g \o h) \in Seq(T)
    <3>1. g \o h \in Seq(T)
          BY <2>4
    <3> QED BY <2>4, <3>1, JoinedInTurn
  <2>8. Append(f \o (g \o h), e) = (f \o (g \o h)) \o <<e>>
    <3> DEFINE s == f \o (g \o h)
    <3>1. s \in Seq(T)
          BY <2>7
    <3> HIDE DEF s
    <3>2. Append(s, e) = s \o <<e>>
          BY <2>4, <3>1, Added
    <3> QED BY <3>2 DEF s
  <2> QED BY <2>5, <2>6, <2>7, <2>8 DEF g, h
<1>6. Paired' <=> Paired
      BY <1>3 DEF Paired
<1>7. Paired' => Rewritten(out)'
      BY <1>3, <1>5, <1>6 DEF Rewritten
<1>8. InLoop'
      BY <1>3, <1>7 DEF InLoop
<1> QED BY <1>3, <1>8, SameDocument

(* One token after the other, and the end of the loop.                     *)
LEMMA LoopGoesOn ==
    ASSUME Known, InLoop, applyCustomJnlpArgs PROVE DocumentInv'
<1>1. Len(arguments) \in Nat
      BY TokenRead
<1>2. ASSUME at = 1, kept = <<>>, out = <<>>, open = <<>>, skipArguments = 0
      PROVE  Known' /\ InLoop'
      BY <1>2, DocumentBegins DEF InLoop
<1>3. ASSUME NEW j \in 0..Len(arguments), at \in {4 * j + 2, 4 * j + 3}, Between(j)
      PROVE  Known' /\ InLoop'
  <2>1. CASE at = 4 * j + 2
        BY <1>3, <2>1, WhiteSpaceIsRead DEF InLoop
  <2>2. CASE at = 4 * j + 3 /\ j # Len(arguments)
    <3>1. j \in 0..Len(arguments) - 1
          BY <1>1, <2>2
    <3> QED BY <1>3, <2>2, <3>1, ArgumentBegins DEF InLoop
  <2>3. CASE at = 4 * j + 3 /\ j = Len(arguments)
        BY <1>3, <2>3, DocumentEnds DEF InLoop
  <2> QED BY <1>3, <2>1, <2>2, <2>3
<1>4. ASSUME NEW j \in 0..Len(arguments) - 1, at = 4 * j + 4, BeforeText(j)
      PROVE  Known' /\ InLoop'
      BY <1>4, TextIsRead DEF InLoop
<1>5. ASSUME NEW j \in 1..Len(arguments), at = 4 * j + 1, AfterText(j)
      PROVE  Known' /\ InLoop'
      BY <1>5, ArgumentEnds DEF InLoop
<1>6. ASSUME at = 4 * Len(arguments) + 4, Paired => Rewritten(out)
      PROVE  Known' /\ Idle'
  <2>1. Len(Sent(arguments)) = 4 * Len(arguments) + 3
        BY TokenRead
  <2>2. IsWritten
        BY <1>1, <1>6, <2>1 DEF applyCustomJnlpArgs, StartElement, WhiteSpace, TakesName,
           OtherArgument, EndArgument, EndElement, Decodes
  <2>3. /\ at' = 0 /\ skipArguments' = 0 /\ nextIsArgumentContent' = FALSE
        /\ out' = <<>> /\ open' = <<>> /\ custom' = out
        /\ arguments' = arguments /\ kept' = kept
        BY <2>2 DEF IsWritten
  <2>4. Paired' <=> Paired
        BY <2>3 DEF Paired
  <2>5. Paired' => Rewritten(custom)'
        BY <1>6, <2>3, <2>4 DEF Rewritten
  <2> QED BY <2>3, <2>5, SameDocument DEF Idle
<1>7. \/ /\ at = 1 /\ kept = <<>> /\ out = <<>> /\ open = <<>>
         /\ skipArguments = 0
      \/ \E j \in 0..Len(arguments) : at \in {4 * j + 2, 4 * j + 3} /\ Between(j)
      \/ \E j \in 0..Len(arguments) - 1 : at = 4 * j + 4 /\ BeforeText(j)
      \/ \E j \in 1..Len(arguments) : at = 4 * j + 1 /\ AfterText(j)
      \/ at = 4 * Len(arguments) + 4 /\ (Paired => Rewritten(out))
      BY DEF InLoop
<1>8. Known' /\ (Idle' \/ InLoop')
      BY <1>2, <1>3, <1>4, <1>5, <1>6, <1>7
<1> QED BY <1>8 DEF Known, DocumentInv

(* Every step keeps where the loop is and what it has written.             *)
LEMMA DocumentInductive ==
    ASSUME DocumentInv, [DocumentNext]_documentVars PROVE DocumentInv'
<1>1. Known
      BY DEF DocumentInv, Known
<1>2. CASE applyCustomJnlpArgs
  <2>1. CASE InLoop
        BY <1>1, <1>2, <2>1, LoopGoesOn
  <2>2. CASE Idle
    <3>1. at = 0 /\ Len(Sent(arguments)) + 1 # 0
          BY <1>1, <2>2, TokenRead DEF Idle
    <3> QED BY <1>2, <3>1 DEF applyCustomJnlpArgs, StartElement, WhiteSpace, TakesName,
               OtherArgument, EndArgument, EndElement, IsWritten, Decodes
  <2> QED BY <2>1, <2>2 DEF DocumentInv
<1>3. CASE FetchFails
  <2>1. /\ arguments' = arguments /\ kept' = kept /\ custom' = <<>> /\ Idle
        /\ at' = at /\ skipArguments' = skipArguments
        /\ nextIsArgumentContent' = nextIsArgumentContent /\ out' = out /\ open' = open
        BY <1>1, <1>3 DEF FetchFails, DocumentInv, InLoop, Known, loopVars, encoder
  <2>2. custom' # NoFile
        BY <2>1 DEF NoFile
  <2>3. Idle'
        BY <2>1, <2>2 DEF Idle
  <2> QED BY <1>1, <2>1, <2>3 DEF DocumentInv, Known
<1>4. CASE Fetches
  <2>1. /\ at' = 1 /\ kept' = <<>> /\ custom' = NoFile /\ skipArguments' = 0
        /\ nextIsArgumentContent' = FALSE /\ out' = <<>> /\ open' = <<>>
        BY <1>1, <1>4 DEF Fetches, DocumentInv, InLoop, Idle, Known, encoder
  <2>2. arguments' \in Seq(Names \cup Words)
        BY <1>4, DocumentAssumption DEF Fetches, SeqOf
  <2>3. kept' \in Seq(Texts)
        BY <2>1
  <2> QED BY <2>1, <2>2, <2>3 DEF DocumentInv, InLoop
<1>5. CASE FileIsRemoved
  <2>1. /\ arguments' = <<>> /\ kept' = <<>> /\ custom' = NoFile /\ Idle
        /\ at' = at /\ skipArguments' = skipArguments
        /\ nextIsArgumentContent' = nextIsArgumentContent /\ out' = out /\ open' = open
        BY <1>5 DEF FileIsRemoved, DocumentInv, InLoop, encoder
  <2>2. kept' \in Seq(Texts)
        BY <2>1
  <2> QED BY <2>1, <2>2 DEF DocumentInv, Idle
<1>6. CASE UNCHANGED documentVars
  <2>1. /\ arguments' = arguments /\ kept' = kept /\ custom' = custom
        /\ at' = at /\ skipArguments' = skipArguments
        /\ nextIsArgumentContent' = nextIsArgumentContent /\ out' = out /\ open' = open
        BY <1>6 DEF documentVars, loopVars, encoder
  <2> QED BY <2>1, SameDocument DEF DocumentInv, Idle, InLoop, Known, Paired, Rewritten,
             Between, BeforeText, AfterText
<1> QED BY <1>2, <1>3, <1>4, <1>5, <1>6 DEF DocumentNext

(* The document that is written leads the client through the tunnel, with  *)
(* whatever arguments Jenkins sends and whatever the launcher overrides.   *)
THEOREM DocumentLeadsThroughTunnel == DocumentSpec => []LeadsThroughTunnel
<1>1. DocumentInit => DocumentInv
  <2> SUFFICES ASSUME DocumentInit PROVE DocumentInv
      OBVIOUS
  <2>1. <<>> \in Seq(Names \cup Words) /\ <<>> \in Seq(Texts)
        OBVIOUS
  <2> QED BY <2>1 DEF DocumentInit, DocumentInv, Idle
<1>2. DocumentInv => LeadsThroughTunnel
      BY DEF DocumentInv, Idle, InLoop, LeadsThroughTunnel, Rewritten
<1> QED BY <1>1, <1>2, DocumentInductive, PTL DEF DocumentSpec
=============================================================================
