---------------------------- MODULE ConsoleOutput ----------------------------
(***************************************************************************)
(* The console that client and launcher share: the two goroutines of       *)
(* ClientMode.redirectConsoleOutput (modes/client.go:219) that copy what   *)
(* the Java process writes, the mutex of util/output.go that everything    *)
(* the launcher prints has to take, the stack traces that are printed      *)
(* without it, and the restart that a token in the output triggers.        *)
(*                                                                         *)
(* A pipe has no state of its own: what it buffers is as good as not yet   *)
(* written, or lost when Wait() closes it after the process has ended.     *)
(* The readers of a client end before the next client starts: the launcher *)
(* prints, sleeps and downloads in between.                                *)
(***************************************************************************)
EXTENDS Integers

Streams == {"stdout", "stderr"}

(* What ReadLine returns: a part fills the buffer without a newline, a line*)
(* ends with one, "blank" is nothing before one. Each may have one of the  *)
(* configured restart tokens in it.                                        *)
Parts == {"part", "part with token"}
Chunks == Parts \cup {"line", "line with token", "blank"}

(* A pending restart, named for the reader that has found the token; one   *)
(* of an earlier client is "stale", and one of these stands for several.   *)
Timers == Streams \cup {"stale"}

VARIABLES
    process,    \* the Java process
    announced,  \* whether it was said that it was started: only then it can be killed
    asked,      \* whether Stop() was called while it ran
    reader,     \* where each goroutine of redirectConsoleOutput is
    chunk,      \* what it has read
    triggered,  \* its restartTriggered
    mutex,      \* who holds util.OutputMutex
    openLine,   \* whose line on the console has no end yet
    timers,     \* the goroutines of client.go:254 that sleep
    monitor,    \* the goroutine of forceReconnect (environment/monitor.go:146)
    text        \* history: who has written into the last line of the console

readers == <<reader, chunk, triggered>>
consoleVars == <<process, announced, asked, readers, mutex, openLine, timers, monitor, text>>

Writers == Streams \cup {"launcher", "stacks"}

ConsoleTypeOK ==
    /\ process \in {"running", "dead"}
    /\ announced \in BOOLEAN /\ asked \in BOOLEAN
    /\ reader \in [Streams -> {"reading", "locking", "writing", "ended"}]
    /\ chunk \in [Streams -> Chunks]
    /\ triggered \in [Streams -> BOOLEAN]
    /\ mutex \in Streams \cup {"free"}
    /\ openLine \in Streams \cup {"none"}
    /\ timers \subseteq Timers
    /\ monitor \in {"idle", "printing"}
    /\ text \subseteq Writers

ConsoleInit ==
    /\ process = "dead" /\ announced = TRUE /\ asked = FALSE
    /\ reader = [s \in Streams |-> "ended"]
    /\ chunk = [s \in Streams |-> "blank"]
    /\ triggered = [s \in Streams |-> FALSE]
    /\ mutex = "free" /\ openLine = "none"
    /\ timers = {}
    /\ monitor = "idle"
    /\ text = {}

(* Where the last line has its end, the next text begins another one.      *)
Adds(writer) == text' = {writer} \cup (IF openLine = "none" THEN {} ELSE text)

-----------------------------------------------------------------------------
(* The Java process.                                                       *)

(* A restart that is still pending was caused by an earlier client. The    *)
(* executor of that one has gone on only after all it had to say.          *)
ClientStarts ==
    /\ process = "dead" /\ process' = "running"
    /\ announced /\ announced' = FALSE
    /\ \A s \in Streams : reader[s] = "ended"
    /\ reader' = [s \in Streams |-> "reading"]
    /\ triggered' = [s \in Streams |-> FALSE]
    /\ timers' = {t \in {"stale"} : timers # {}}
    /\ asked' = FALSE
    /\ UNCHANGED <<chunk, mutex, openLine, monitor, text>>

(* "Jenkins client was started." is printed when it already writes, too.   *)
SaysStarted ==
    /\ ~announced /\ mutex = "free"
    /\ announced' = TRUE
    /\ Adds("launcher")
    /\ UNCHANGED <<process, asked, readers, mutex, openLine, timers, monitor>>

(* By itself. *)
ClientEnds ==
    /\ process = "running" /\ process' = "dead"
    /\ UNCHANGED <<announced, asked, readers, mutex, openLine, timers, monitor, text>>

(* The goroutine that kills it is started after the print.                 *)
ClientIsKilled ==
    /\ asked /\ announced
    /\ ClientEnds

-----------------------------------------------------------------------------
(* redirectConsoleOutput.                                                  *)

(* Stop(): a client that does not run is not asked.                        *)
CallsStop == asked' = (asked \/ process = "running")

(* A blank line is printed only as the end of a line that filled buffers.  *)
Reads(s) ==
    /\ reader[s] = "reading" /\ process = "running"
    /\ \E c \in Chunks :
          /\ c = "blank" => mutex = s
          /\ chunk' = [chunk EXCEPT ![s] = c]
    /\ reader' = [reader EXCEPT ![s] = IF mutex = s THEN "writing" ELSE "locking"]
    /\ UNCHANGED <<process, announced, asked, triggered, mutex, openLine, timers, monitor, text>>

Locks(s) ==
    /\ reader[s] = "locking" /\ mutex = "free"
    /\ reader' = [reader EXCEPT ![s] = "writing"]
    /\ mutex' = s
    /\ UNCHANGED <<process, announced, asked, chunk, triggered, openLine, timers, monitor, text>>

(* The first token a reader finds in the output of a client starts a timer.*)
Scans(s) ==
    LET found == chunk[s] \in {"part with token", "line with token"} /\ ~triggered[s]
    IN  /\ triggered' = [triggered EXCEPT ![s] = @ \/ found]
        /\ timers' = timers \cup {t \in {s} : found}

(* Mutant: the mutex is released after every piece of a line. *)
WritesPiece(s) ==
    /\ reader[s] = "writing"
    /\ reader' = [reader EXCEPT ![s] = "reading"]
    /\ openLine' = IF chunk[s] \in Parts THEN s ELSE "none"
    /\ mutex' = "free"
    /\ Adds(s)
    /\ Scans(s)
    /\ chunk' = [chunk EXCEPT ![s] = "blank"]
    /\ UNCHANGED <<process, announced, asked, monitor>>

Writes(s) ==
    /\ reader[s] = "writing"
    /\ reader' = [reader EXCEPT ![s] = "reading"]
    /\ IF chunk[s] \in Parts THEN openLine' = s /\ UNCHANGED mutex
                              ELSE openLine' = "none" /\ mutex' = "free"
    /\ Adds(s)
    /\ Scans(s)
    /\ chunk' = [chunk EXCEPT ![s] = "blank"]
    /\ UNCHANGED <<process, announced, asked, monitor>>

(* Mutant: the reader leaves with the mutex. *)
EndsAtOnce(s) ==
    /\ reader[s] = "reading" /\ process = "dead"
    /\ reader' = [reader EXCEPT ![s] = "ended"]
    /\ UNCHANGED <<process, announced, asked, chunk, triggered, mutex, openLine, timers, monitor,
                   text>>

(* The end of the pipe ends a line, too.                                   *)
Ends(s) ==
    /\ reader[s] = "reading" /\ process = "dead"
    /\ reader' = [reader EXCEPT ![s] = "ended"]
    /\ IF mutex = s THEN mutex' = "free" /\ openLine' = "none" /\ Adds(s)
                    ELSE UNCHANGED <<mutex, openLine, text>>
    /\ UNCHANGED <<process, announced, asked, chunk, triggered, timers, monitor>>

ReaderStep(s) == Reads(s) \/ Locks(s) \/ Writes(s) \/ Ends(s)

-----------------------------------------------------------------------------
(* What the launcher prints: one lock, one line, one unlock.               *)

(* Mutant: Stop() is called after the message was printed. *)
TimerPrintsFirst(t) ==
    /\ t \in timers /\ mutex = "free"
    /\ timers' = timers \ {t}
    /\ CallsStop
    /\ UNCHANGED <<process, announced, readers, mutex, openLine, monitor, text>>

(* After a second. Stop() has a goroutine of its own; the message that is  *)
(* printed beside it waits like that of the monitor.                       *)
TimerFires(t) ==
    /\ t \in timers
    /\ timers' = timers \ {t}
    /\ CallsStop
    /\ UNCHANGED <<process, announced, readers, mutex, openLine, monitor, text>>

(* forceReconnect prints a warning and calls Stop() after it.              *)
MonitorForces ==
    /\ monitor = "idle" /\ monitor' = "printing"
    /\ UNCHANGED <<process, announced, asked, readers, mutex, openLine, timers, text>>

MonitorPrints ==
    /\ monitor = "printing" /\ mutex = "free"
    /\ monitor' = "idle"
    /\ CallsStop
    /\ Adds("launcher")
    /\ UNCHANGED <<process, announced, readers, mutex, openLine, timers>>

(* Key D: PrintAllStackTraces writes to stdout and takes no mutex. Where no*)
(* line is open its lines are like any others.                             *)
PrintsStacks ==
    /\ openLine # "none"
    /\ Adds("stacks")
    /\ UNCHANGED <<process, announced, asked, readers, mutex, openLine, timers, monitor>>

ConsoleNext ==
    \/ ClientStarts \/ SaysStarted \/ ClientEnds \/ ClientIsKilled
    \/ \E s \in Streams : ReaderStep(s)
    \/ \E t \in Timers : TimerFires(t)
    \/ MonitorForces \/ MonitorPrints \/ PrintsStacks

ConsoleSpec == ConsoleInit /\ [][ConsoleNext]_consoleVars

(* A client need not write nor end, but it is killed when it was asked to  *)
(* end and can be. sync.Mutex hands itself to who waits for long (since Go *)
(* 1.9, newer than this code), so that the launcher gets it at last if it  *)
(* is free again and again.                                                *)
ConsoleFairness ==
    /\ WF_consoleVars(ClientIsKilled)
    /\ \A s \in Streams : /\ WF_consoleVars(Locks(s))
                          /\ WF_consoleVars(Writes(s))
                          /\ WF_consoleVars(Ends(s))
    /\ \A t \in Timers : WF_consoleVars(TimerFires(t))
    /\ SF_consoleVars(SaysStarted)
    /\ SF_consoleVars(MonitorPrints)

-----------------------------------------------------------------------------
(* No line on the console is of two writers: what the client and the       *)
(* launcher print is not mixed, however many buffers a line fills          *)
(* (client.go:242-251, output.go:22, 30). Only stack traces, which are     *)
(* printed without the mutex, get into the lines of others                 *)
(* (globals.go:29-31, launcher.go:145).                                    *)
LinesStayWhole == \A x, y \in text \ {"stacks"} : x = y

(* As long as the client finishes what it begins to write, or ends, nothing*)
(* that the launcher prints waits for ever, the message before a forced    *)
(* reconnect included (output.go:30, monitor.go:148-149).                  *)
LauncherGetsTheConsole ==
    []<>(openLine = "none" \/ process = "dead") =>
        (monitor = "printing" ~> monitor = "idle")

(* A restart token leads to the end of the client that printed it, also    *)
(* when by then the console is blocked by a line that never ends           *)
(* (client.go:253-258). Excepted is a client that begins such a line before*)
(* the launcher has said that it was started: the goroutine that would kill*)
(* it does not exist yet (client.go:170-176).                              *)
TokenStopsClient ==
    []<>announced =>
        \A s \in Streams : s \in timers ~> process = "dead"
=============================================================================
