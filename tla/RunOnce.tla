------------------------------- MODULE RunOnce -------------------------------
(***************************************************************************)
(* launcher/runonce.go: one launcher per working directory, by a pid file  *)
(* whose modification time its owner refreshes.                            *)
(*                                                                         *)
(* Launchers are processes of one user; a launcher that is started again   *)
(* is another one, with a pid that no launcher had before. A process that  *)
(* is no launcher may get the pid of a launcher that has gone. Time counts *)
(* the seconds of pidUpdateRate and pidStaleDuration.                      *)
(***************************************************************************)
EXTENDS Integers, FiniteSets

CONSTANTS
    Launchers,        \* the processes, named by their pids
    UpdateRate,       \* pidUpdateRate (3 s)
    StaleAfter,       \* pidStaleDuration (5 s)
    Lateness,         \* how much later than it should a keeper may run
    MaxTime,          \* bound: how long the clock runs
    Absent, Empty     \* what the pid file may be instead of a pid

ASSUME TimeAssumption == /\ UpdateRate \in Nat
                         /\ StaleAfter \in Nat
                         /\ Lateness \in Nat
                         /\ MaxTime \in Nat
                         /\ UpdateRate + Lateness < StaleAfter
ASSUME FileAssumption == Absent \notin Launchers /\ Empty \notin Launchers /\ Absent # Empty

VARIABLES
    platform, \* where the launchers run: it never changes
    now,      \* the clock
    pidFile,  \* Absent, Empty or the pid that is in launcher.pid
    touched,  \* the modification time of the file
    pc,       \* where Run() of every launcher is
    pid,      \* what readPidFile has got so far: a pid, or Empty, or Absent for -1
    keeper,   \* the goroutine keepPIDFileAlive of every launcher
    wake,     \* when the keeper has its next thing to do
    together, \* history: launchers started at the same time and one is still there
    left      \* history: when a launcher that had opened the file was last gone

program == <<platform, now, pidFile, touched, pc, pid, keeper, wake>>
vars    == <<program, together, left>>

(* The file has mode os.ModeTemporary: its permission bits are 000. Windows*)
(* (with the Go of this code) and root do not care, other users of Unix    *)
(* can neither read nor overwrite it.                                      *)
Platforms == {"windows", "root", "user"}
Permitted == platform # "user"

Starting == {"reading", "stating", "probing", "truncating", "writing"}
Gone     == {"refused", "exited", "crashed"}
Owning   == {"writing", "running", "closing"}

Present(l) == pc[l] \notin Gone \cup {"new"}

TypeOK ==
    /\ platform \in Platforms
    /\ now \in Nat
    /\ pidFile \in Launchers \cup {Absent, Empty}
    /\ touched \in Int
    /\ pc \in [Launchers -> {"new", "running", "closing"} \cup Starting \cup Gone]
    /\ pid \in [Launchers -> Launchers \cup {Absent, Empty}]
    /\ keeper \in [Launchers -> {"none", "checking", "touching", "asleep", "ended"}]
    /\ wake \in [Launchers -> Nat]
    /\ together \in BOOLEAN
    /\ left \in Int

Init ==
    /\ platform \in Platforms
    /\ now = 0
    /\ pidFile = Absent
    /\ touched = 0 - StaleAfter
    /\ pc = [l \in Launchers |-> "new"]
    /\ pid = [l \in Launchers |-> Absent]
    /\ keeper = [l \in Launchers |-> "none"]
    /\ wake = [l \in Launchers |-> 0]
    /\ together = FALSE
    /\ left = 0 - StaleAfter

Go(l, from, to) == pc[l] = from /\ pc' = [pc EXCEPT ![l] = to]

(* A process that has gone keeps nothing. *)
Forgets(l) ==
    /\ pid' = [pid EXCEPT ![l] = Absent]
    /\ keeper' = [keeper EXCEPT ![l] = "none"]
    /\ wake' = [wake EXCEPT ![l] = 0]

-----------------------------------------------------------------------------
(* CheckIfAlreadyRunning.                                                  *)

Start(l) ==
    /\ Go(l, "new", "reading")
    /\ UNCHANGED <<platform, now, pidFile, touched, pid, keeper, wake>>

(* ReadFile; without a file or the permission to read it nobody is there. *)
Reads(l) ==
    /\ Go(l, "reading", IF pidFile # Absent /\ Permitted THEN "stating" ELSE "truncating")
    /\ pid' = [pid EXCEPT ![l] = pidFile]
    /\ UNCHANGED <<platform, now, pidFile, touched, keeper, wake>>

(* Mutant: a file counts as fresh for ever. *)
NeverStale == touched <= now

(* fi.ModTime().After(time.Now().Add(-pidStaleDuration)) *)
Fresh == touched > now - StaleAfter

(* A fresh file yields what Atoi makes of its content. For a stale one the *)
(* `err` that is returned is that of a successful Stat: -1 and no error.   *)
Stats(l) ==
    /\ Go(l, "stating", IF pidFile = Absent \/ (Fresh /\ pid[l] = Empty)
                        THEN "truncating" ELSE "probing")
    /\ pid' = [pid EXCEPT ![l] = IF Fresh THEN pid[l] ELSE Absent]
    /\ UNCHANGED <<platform, now, pidFile, touched, keeper, wake>>

(* Mutant: the probe finds nothing on Windows. *)
ProcessNeverExists(p) == {platform # "windows"}

(* What os.FindProcess may say: on Unix it finds any pid, -1 too; on       *)
(* Windows every process of the machine.                                   *)
IsProcessExisting(p) ==
    IF platform # "windows" THEN {TRUE}
    ELSE IF p \notin Launchers THEN {FALSE}
    ELSE IF Present(p) THEN {TRUE} ELSE BOOLEAN

Probes(l) ==
    /\ \E exists \in IsProcessExisting(pid[l]) :
          Go(l, "probing", IF exists THEN "refused" ELSE "truncating")
    /\ Forgets(l)
    /\ UNCHANGED <<platform, now, pidFile, touched>>

(* WriteFile is an open that creates or truncates, and a write; an error   *)
(* of the open is dropped.                                                 *)
Truncates(l) ==
    /\ pc[l] = "truncating"
    /\ IF pidFile = Absent \/ Permitted
       THEN /\ pc' = [pc EXCEPT ![l] = "writing"]
            /\ pidFile' = Empty /\ touched' = now
            /\ UNCHANGED <<keeper, wake>>
       ELSE /\ pc' = [pc EXCEPT ![l] = "running"]
            /\ keeper' = [keeper EXCEPT ![l] = "checking"]
            /\ wake' = [wake EXCEPT ![l] = now]
            /\ UNCHANGED <<pidFile, touched>>
    /\ UNCHANGED <<platform, now, pid>>

Writes(l) ==
    /\ Go(l, "writing", "running")
    /\ IF pidFile = Absent THEN UNCHANGED <<pidFile, touched>>
                           ELSE pidFile' = l /\ touched' = now
    /\ keeper' = [keeper EXCEPT ![l] = "checking"]
    /\ wake' = [wake EXCEPT ![l] = now]
    /\ UNCHANGED <<platform, now, pid>>

-----------------------------------------------------------------------------
(* keepPIDFileAlive.                                                       *)

Up(l) == pc[l] \in {"running", "closing"}

KeeperChecks(l) ==
    /\ Up(l) /\ keeper[l] = "checking"
    /\ keeper' = [keeper EXCEPT ![l] = IF pidFile \in {Absent, Empty} THEN "ended" ELSE "touching"]
    /\ UNCHANGED <<platform, now, pidFile, touched, pc, pid, wake>>

(* Mutant: the keeper sleeps without touching the file. *)
KeeperOnlySleeps(l) ==
    /\ Up(l) /\ keeper[l] = "touching"
    /\ keeper' = [keeper EXCEPT ![l] = "asleep"]
    /\ wake' = [wake EXCEPT ![l] = now + UpdateRate]
    /\ UNCHANGED <<platform, now, pidFile, touched, pc, pid>>

KeeperTouches(l) ==
    /\ Up(l) /\ keeper[l] = "touching"
    /\ keeper' = [keeper EXCEPT ![l] = "asleep"]
    /\ touched' = IF pidFile = Absent THEN touched ELSE now
    /\ wake' = [wake EXCEPT ![l] = now + UpdateRate]
    /\ UNCHANGED <<platform, now, pidFile, pc, pid>>

KeeperWakes(l) ==
    /\ Up(l) /\ keeper[l] = "asleep"
    /\ now >= wake[l]
    /\ keeper' = [keeper EXCEPT ![l] = "checking"]
    /\ UNCHANGED <<platform, now, pidFile, touched, pc, pid, wake>>

-----------------------------------------------------------------------------
(* The end of a launcher.                                                  *)

(* The deferred Close removes the file, whoever wrote it. *)
Closes(l) ==
    /\ Go(l, "running", "closing")
    /\ pidFile' = Absent
    /\ UNCHANGED <<platform, now, touched, pid, keeper, wake>>

Exits(l) ==
    /\ Go(l, "closing", "exited")
    /\ Forgets(l)
    /\ UNCHANGED <<platform, now, pidFile, touched>>

(* Killed, or a panic of another goroutine: nothing deferred runs. *)
Crashes(l) ==
    /\ Present(l)
    /\ pc' = [pc EXCEPT ![l] = "crashed"]
    /\ Forgets(l)
    /\ UNCHANGED <<platform, now, pidFile, touched>>

(* A start and an exit take milliseconds; a keeper may be late, in every   *)
(* step of its loop, as far as Lateness allows.                            *)
Tick ==
    /\ now < MaxTime
    /\ \A l \in Launchers :
          /\ pc[l] \notin Starting \cup {"closing"}
          /\ Up(l) /\ keeper[l] # "ended" => now < wake[l] + Lateness
    /\ now' = now + 1
    /\ UNCHANGED <<platform, pidFile, touched, pc, pid, keeper, wake>>

LauncherStep(l) ==
    \/ Start(l) \/ Reads(l) \/ Stats(l) \/ Probes(l) \/ Truncates(l) \/ Writes(l)
    \/ KeeperChecks(l) \/ KeeperTouches(l) \/ KeeperWakes(l)
    \/ Closes(l) \/ Exits(l) \/ Crashes(l)

Step == Tick \/ \E l \in Launchers : LauncherStep(l)

(* The history of a step.                                                  *)
Recorded ==
    /\ together' = /\ \E l \in Launchers : Present(l)'
                   /\ \/ together
                      \/ \E a, b \in Launchers : a # b /\ {pc'[a], pc'[b]} \subseteq Starting
    /\ left' = IF \E l \in Launchers : pc[l] \in Owning /\ pc'[l] \in Gone THEN now ELSE left

Next == Step /\ Recorded

Spec == Init /\ [][Next]_vars

-----------------------------------------------------------------------------
(* "Checks if another launcher is already running inside the current       *)
(* working path" (runonce.go:20).                                          *)
AtMostOneRunning ==
    \A a, b \in Launchers : pc[a] = "running" /\ pc[b] = "running" => a = b

(* Two launchers never run in one directory, whatever was left there by    *)
(* launchers that crashed or exited, and however late a keeper is within   *)
(* Lateness (runonce.go:20, launcher.go:71-73). Two things are excepted:   *)
(* launchers that start at the same time, until all of them have gone, for *)
(* nothing makes the look at the file and the writing of it one step       *)
(* (runonce.go:23-28); and a user of Unix without the permission to read it.*)
OneUnlessTogether == Permitted /\ ~together => AtMostOneRunning

(* A launcher that runs is seen: its pid is in the file and the file is    *)
(* fresh at every moment, also when its keeper is late and when a launcher *)
(* that ended before it is still about to touch the file or to exit        *)
(* (runonce.go:43-54). The exceptions are those of OneUnlessTogether.      *)
RunningIsVisible ==
    Permitted /\ ~together => \A l \in Launchers : pc[l] = "running" => pidFile = l /\ Fresh

(* "Another launcher is already running" (launcher.go:72): a launcher is   *)
(* refused only while another one is there, or when the pid of one that    *)
(* went less than StaleAfter ago has been given to another process. On Unix*)
(* a launcher that finds a file is refused for ever.                       *)
RefusedOnlyWhileRunning ==
    [][platform = "windows" =>
          \A l \in Launchers : pc[l] # "refused" /\ pc'[l] = "refused" =>
             (\E other \in Launchers \ {l} : Present(other)) \/ now < left + StaleAfter]_vars
=============================================================================
