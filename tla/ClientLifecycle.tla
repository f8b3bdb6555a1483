--------------------------- MODULE ClientLifecycle ---------------------------
(***************************************************************************)
(* The life of the Jenkins client under the launcher: the restart loop of  *)
(* launcher.Run, RunConfiguredMode with its signal handshake, and the      *)
(* goroutines that ClientMode.execute starts for every run.                *)
(*                                                                         *)
(* Every run r of the loop has its own signal watcher (mode.go:93), its    *)
(* own executor (client.go:110), command goroutine (client.go:151), killer *)
(* (client.go:172) and Java process; all runs share ONE status word.       *)
(* Nothing makes run r+1 wait for the goroutines of run r, so they may     *)
(* overlap, and the model lets them.                                       *)
(***************************************************************************)
EXTENDS Integers, Sequences

CONSTANTS
    MaxRuns,             \* bound: how many times the loop calls RunConfiguredMode
    MaxInterrupts,       \* bound: how many SIGINTs the OS delivers
    Stoppers,            \* goroutines that call Stop(): monitors, timers, the console
                         \* scanner and the keyboard
    StartMayFail,        \* whether exec.Command(...).Start() may return an error
    Tunnelled            \* whether util.JnlpArgs is set, so the JNLP file is customised

ASSUME BoundsAssumption == /\ MaxRuns \in Nat \ {0}
                           /\ MaxInterrupts \in Nat
ASSUME SwitchAssumption == /\ StartMayFail \in BOOLEAN
                           /\ Tunnelled \in BOOLEAN

Runs == 1..MaxRuns

(* The constants of modes/mode.go. *)
Status == {"none", "starting", "started", "stopping", "stopped"}

VARIABLES
    status,         \* ClientMode.status
    mainPc,         \* where the main goroutine is
    run,            \* the current call of RunConfiguredMode
    exitFlag,       \* mode.go: isExistRequested
    interrupts,     \* how many SIGINTs were delivered so far
    signals,        \* signals[r]: how many values the channel of run r buffers (capacity 1)
    exitRequested,  \* exitRequested[r]: the content of the channel of run r (capacity 2)
    watcher,        \* the goroutine of mode.go:93
    executor,       \* the goroutine of client.go:95 (execute)
    command,        \* the goroutine of client.go:151
    killer,         \* the goroutine of client.go:172
    jvm,            \* the Java process itself
    jnlpFile,       \* the run that wrote ~slave-agent.jnlp, 0 when there is no file
    jnlp,           \* jnlp[r]: whether the client of run r is told to read that file
    stopper,        \* the callers of Stop()
    lost            \* history: whether in this run a ModeStopped was overwritten

mainVars    == <<mainPc, run, exitFlag>>
channelVars == <<signals, exitRequested>>
jnlpVars    == <<jnlpFile, jnlp>>
clientVars  == <<executor, command, killer, jvm, jnlpVars>>
program == <<status, mainVars, interrupts, channelVars, watcher, clientVars, stopper>>
vars == <<program, lost>>

MainPc == {"notifyStarting", "startCheck", "startSet", "notifyStarted", "waiting",
           "sendFalse", "sendInterrupt", "recvFirst", "recvSecond", "notifyStopped",
           "restarting", "sleeping", "exited", "panicked", "killed"}

(* The launcher process is alive; its goroutines end with it, the Java     *)
(* process does not.                                                       *)
Alive == mainPc \notin {"exited", "panicked", "killed"}

(* ClientMode.isStopped. The code reads the status twice; "none" is never  *)
(* written again, so the two reads act as one read at the second of them.  *)
IsStopped == status \in {"none", "stopped"}

(* The types of the program's variables. *)
TypeOK ==
    /\ status \in Status
    /\ mainPc \in MainPc
    /\ run \in Runs
    /\ exitFlag \in BOOLEAN
    /\ interrupts \in 0..MaxInterrupts
    /\ signals \in [Runs -> 0..1]
    /\ exitRequested \in [Runs -> Seq(BOOLEAN)]
    /\ watcher \in [Runs -> {"none", "waiting", "requesting", "checking", "setting", "done"}]
    /\ executor \in [Runs -> {"none", "launching", "announcing", "polling", "stopping",
                              "reaping", "ending", "removing", "done"}]
    /\ command \in [Runs -> {"none", "starting", "waiting", "reporting", "failed", "done"}]
    /\ killer \in [Runs -> {"none", "waiting", "killing", "done"}]
    /\ jvm \in [Runs -> {"none", "running", "dead"}]
    /\ jnlpFile \in 0..MaxRuns
    /\ jnlp \in [Runs -> {"none", "told", "failed"}]
    /\ stopper \in [Stoppers -> {"idle", "setting"}]

Init ==
    /\ status = "none"
    /\ mainPc = "notifyStarting"
    /\ run = 1
    /\ exitFlag = FALSE
    /\ interrupts = 0
    /\ signals = [r \in Runs |-> 0]
    /\ exitRequested = [r \in Runs |-> <<>>]
    /\ watcher = [r \in Runs |-> "none"]
    /\ executor = [r \in Runs |-> "none"]
    /\ command = [r \in Runs |-> "none"]
    /\ killer = [r \in Runs |-> "none"]
    /\ jvm = [r \in Runs |-> "none"]
    /\ jnlpFile = 0
    /\ jnlp = [r \in Runs |-> "none"]
    /\ stopper = [s \in Stoppers |-> "idle"]
    /\ lost = FALSE

-----------------------------------------------------------------------------
(* The main goroutine: RunConfiguredMode and the loop around it.           *)

MainAt(from, to) == mainPc = from /\ mainPc' = to

(* callListeners(ModeStarting): the listeners build the tunnel and download *)
(* the client jar.                                                         *)
MainNotifiesStarting ==
    /\ MainAt("notifyStarting", "startCheck")
    /\ UNCHANGED <<status, run, exitFlag, interrupts, channelVars, watcher,
                   clientVars, stopper>>

(* ClientMode.Start panics unless the mode is stopped. *)
MainChecksStart ==
    /\ mainPc = "startCheck"
    /\ mainPc' = IF IsStopped THEN "startSet" ELSE "panicked"
    /\ UNCHANGED <<status, run, exitFlag, interrupts, channelVars, watcher,
                   clientVars, stopper>>

MainSetsStarting ==
    /\ MainAt("startSet", "notifyStarted")
    /\ status' = "starting"
    /\ executor' = [executor EXCEPT ![run] = "launching"]
    /\ UNCHANGED <<run, exitFlag, interrupts, channelVars, watcher, command,
                   killer, jvm, jnlpVars, stopper>>

(* callListeners(ModeStarted), signal.Notify and the watcher goroutine. *)
MainNotifiesStarted ==
    /\ MainAt("notifyStarted", "waiting")
    /\ watcher' = [watcher EXCEPT ![run] = "waiting"]
    /\ UNCHANGED <<status, run, exitFlag, interrupts, channelVars,
                   clientVars, stopper>>

MainSeesStopped ==
    /\ MainAt("waiting", "sendFalse")
    /\ status = "stopped"
    /\ UNCHANGED <<status, run, exitFlag, interrupts, channelVars, watcher,
                   clientVars, stopper>>

MainSendsFalse ==
    /\ MainAt("sendFalse", "sendInterrupt")
    /\ Len(exitRequested[run]) < 2
    /\ exitRequested' = [exitRequested EXCEPT ![run] = Append(@, FALSE)]
    /\ UNCHANGED <<status, run, exitFlag, interrupts, signals, watcher,
                   clientVars, stopper>>

(* Mutant: the fake interrupt is forgotten. *)
MainSkipsInterrupt ==
    /\ MainAt("sendInterrupt", "recvFirst")
    /\ UNCHANGED <<status, run, exitFlag, interrupts, channelVars, watcher,
                   clientVars, stopper>>

(* `signals <- os.Interrupt` blocks while the buffer of one is full. *)
MainSendsInterrupt ==
    /\ MainAt("sendInterrupt", "recvFirst")
    /\ signals[run] = 0
    /\ signals' = [signals EXCEPT ![run] = 1]
    /\ UNCHANGED <<status, run, exitFlag, interrupts, exitRequested, watcher,
                   clientVars, stopper>>

(* Mutant: the second receive is forgotten. *)
MainReceivesOnce ==
    /\ MainAt("recvFirst", "notifyStopped")
    /\ exitRequested[run] # <<>>
    /\ exitFlag' = Head(exitRequested[run])
    /\ exitRequested' = [exitRequested EXCEPT ![run] = Tail(@)]
    /\ UNCHANGED <<status, run, interrupts, signals, watcher, clientVars,
                   stopper>>

MainReceivesFirst ==
    /\ MainAt("recvFirst", "recvSecond")
    /\ exitRequested[run] # <<>>
    /\ exitFlag' = Head(exitRequested[run])
    /\ exitRequested' = [exitRequested EXCEPT ![run] = Tail(@)]
    /\ UNCHANGED <<status, run, interrupts, signals, watcher, clientVars,
                   stopper>>

(* Mutant: the second value received decides. *)
MainReceivesLast ==
    /\ MainAt("recvSecond", "notifyStopped")
    /\ exitRequested[run] # <<>>
    /\ exitFlag' = Head(exitRequested[run])
    /\ exitRequested' = [exitRequested EXCEPT ![run] = Tail(@)]
    /\ UNCHANGED <<status, run, interrupts, signals, watcher, clientVars,
                   stopper>>

MainReceivesSecond ==
    /\ MainAt("recvSecond", "notifyStopped")
    /\ exitRequested[run] # <<>>
    /\ exitRequested' = [exitRequested EXCEPT ![run] = Tail(@)]
    /\ UNCHANGED <<status, run, exitFlag, interrupts, signals, watcher,
                   clientVars, stopper>>

(* Mutant: the result of RunConfiguredMode is read the wrong way round. *)
MainInvertsResult ==
    /\ mainPc = "notifyStopped"
    /\ mainPc' = IF exitFlag THEN "restarting" ELSE "exited"
    /\ UNCHANGED <<status, run, exitFlag, interrupts, channelVars, watcher,
                   clientVars, stopper>>

(* The deferred callListeners(ModeStopped), then the return value decides. *)
MainNotifiesStopped ==
    /\ mainPc = "notifyStopped"
    /\ mainPc' = IF exitFlag THEN "exited" ELSE "restarting"
    /\ UNCHANGED <<status, run, exitFlag, interrupts, channelVars, watcher,
                   clientVars, stopper>>

(* The next call of RunConfiguredMode. *)
Relaunches ==
    /\ run < MaxRuns
    /\ run' = run + 1
    /\ mainPc' = "notifyStarting"
    /\ UNCHANGED <<status, exitFlag, interrupts, channelVars, watcher, clientVars, stopper>>

(* The loop body sleeps restartCount times the configured time, which may  *)
(* be none: the count, which a long run and the keyboard reset, is left    *)
(* open.                                                                   *)
MainRestarts == mainPc = "restarting" /\ Relaunches

MainSleeps ==
    /\ MainAt("restarting", "sleeping")
    /\ UNCHANGED <<status, run, exitFlag, interrupts, channelVars, watcher, clientVars,
                   stopper>>

MainWakes == mainPc = "sleeping" /\ Relaunches

MainStep ==
    \/ MainNotifiesStarting \/ MainChecksStart \/ MainSetsStarting \/ MainNotifiesStarted
    \/ MainSeesStopped \/ MainSendsFalse \/ MainSendsInterrupt \/ MainReceivesFirst
    \/ MainReceivesSecond \/ MainNotifiesStopped \/ MainRestarts \/ MainSleeps
    \/ MainWakes

-----------------------------------------------------------------------------
(* SIGINT and the watcher goroutine of run r (mode.go:89-100).             *)

(* The channels signal.Notify was called for: it is never undone. *)
Notified == {r \in Runs : watcher[r] # "none"}

(* The OS offers the signal to every registered channel and drops it where *)
(* the buffer is full; with no channel yet, the default action ends the    *)
(* process.                                                                *)
Interrupt ==
    /\ interrupts < MaxInterrupts
    /\ interrupts' = interrupts + 1
    /\ signals' = [r \in Runs |-> IF r \in Notified THEN 1 ELSE signals[r]]
    /\ mainPc' = IF Notified = {} THEN "killed" ELSE mainPc
    /\ UNCHANGED <<status, run, exitFlag, exitRequested, watcher, clientVars,
                   stopper>>

WatcherAt(r, from, to) ==
    watcher[r] = from /\ watcher' = [watcher EXCEPT ![r] = to]

WatcherReceives(r) ==
    /\ WatcherAt(r, "waiting", "requesting")
    /\ signals[r] = 1
    /\ signals' = [signals EXCEPT ![r] = 0]
    /\ UNCHANGED <<status, mainVars, interrupts, exitRequested, clientVars, stopper>>

WatcherRequestsExit(r) ==
    /\ WatcherAt(r, "requesting", "checking")
    /\ Len(exitRequested[r]) < 2
    /\ exitRequested' = [exitRequested EXCEPT ![r] = Append(@, TRUE)]
    /\ UNCHANGED <<status, mainVars, interrupts, signals, clientVars, stopper>>

(* The test of mode.go:97 and the one inside Stop() have the same outcomes *)
(* as the later of them alone.                                             *)
WatcherChecks(r) ==
    /\ WatcherAt(r, "checking", IF IsStopped THEN "done" ELSE "setting")
    /\ UNCHANGED <<status, mainVars, interrupts, channelVars, clientVars, stopper>>

WatcherSetsStopping(r) ==
    /\ WatcherAt(r, "setting", "done")
    /\ status' = "stopping"
    /\ UNCHANGED <<mainVars, interrupts, channelVars, clientVars, stopper>>

WatcherStep(r) == \/ WatcherReceives(r) \/ WatcherRequestsExit(r)
                  \/ WatcherChecks(r) \/ WatcherSetsStopping(r)

-----------------------------------------------------------------------------
(* ClientMode.execute of run r: the executor and the goroutines it starts. *)

ExecutorAt(r, from, to) ==
    executor[r] = from /\ executor' = [executor EXCEPT ![r] = to]

(* The customised JNLP file is written whole, its removal is deferred and  *)
(* the client is told to read it.                                          *)
WritesJnlpFile(r) ==
    /\ Tunnelled
    /\ jnlpFile' = r
    /\ jnlp' = [jnlp EXCEPT ![r] = "told"]

(* WriteFile fails: there is no file, the one of another run stays, or a   *)
(* part of the new one is there. It is printed and nothing else: the client*)
(* is started without -jnlpUrl, and nobody will remove what was written.   *)
FailsToWriteJnlpFile(r) ==
    /\ Tunnelled
    /\ jnlpFile' \in {jnlpFile, r}
    /\ jnlp' = [jnlp EXCEPT ![r] = "failed"]

NeedsNoJnlpFile == ~Tunnelled /\ UNCHANGED jnlpVars

(* Builds the command line and starts the command goroutine.               *)
ExecutorLaunches(r) ==
    /\ ExecutorAt(r, "launching", "announcing")
    /\ WritesJnlpFile(r) \/ FailsToWriteJnlpFile(r) \/ NeedsNoJnlpFile
    /\ command' = [command EXCEPT ![r] = "starting"]
    /\ UNCHANGED <<status, mainVars, interrupts, channelVars, watcher, killer, jvm, stopper>>

ExecutorSetsStarted(r) ==
    /\ ExecutorAt(r, "announcing", "polling")
    /\ status' = "started"
    /\ UNCHANGED <<mainVars, interrupts, channelVars, watcher, command, killer, jvm,
                   jnlpVars, stopper>>

ExecutorSeesStop(r) ==
    /\ ExecutorAt(r, "polling", "stopping")
    /\ status # "started"
    /\ UNCHANGED <<status, mainVars, interrupts, channelVars, watcher, command, killer, jvm,
                   jnlpVars, stopper>>

(* `stoppingClient <- true` meets the killer's receive. *)
ExecutorSignalsKiller(r) ==
    /\ ExecutorAt(r, "stopping", "reaping")
    /\ killer[r] = "waiting"
    /\ killer' = [killer EXCEPT ![r] = "killing"]
    /\ UNCHANGED <<status, mainVars, interrupts, channelVars, watcher, command, jvm,
                   jnlpVars, stopper>>

(* Mutant: execute does not wait for clientStopped. *)
ExecutorSkipsReaping(r) ==
    /\ ExecutorAt(r, "reaping", "ending")
    /\ UNCHANGED <<status, mainVars, interrupts, channelVars, watcher, command, killer, jvm,
                   jnlpVars, stopper>>

(* `<-clientStopped` meets the command goroutine's send. *)
ExecutorReaps(r) ==
    /\ ExecutorAt(r, "reaping", "ending")
    /\ command[r] = "reporting"
    /\ command' = [command EXCEPT ![r] = "done"]
    /\ UNCHANGED <<status, mainVars, interrupts, channelVars, watcher, killer, jvm,
                   jnlpVars, stopper>>

(* Mutant: the deferred removal of the JNLP file is forgotten. *)
ExecutorKeepsFile(r) ==
    /\ ExecutorAt(r, "ending", "done")
    /\ status' = "stopped"
    /\ UNCHANGED <<mainVars, interrupts, channelVars, watcher, command, killer, jvm,
                   jnlpVars, stopper>>

ExecutorSetsStopped(r) ==
    /\ ExecutorAt(r, "ending", IF jnlp[r] = "told" THEN "removing" ELSE "done")
    /\ status' = "stopped"
    /\ UNCHANGED <<mainVars, interrupts, channelVars, watcher, command, killer, jvm,
                   jnlpVars, stopper>>

(* The deferred os.Remove runs after the status was set. *)
ExecutorRemovesFile(r) ==
    /\ ExecutorAt(r, "removing", "done")
    /\ jnlpFile' = 0
    /\ UNCHANGED <<status, mainVars, interrupts, channelVars, watcher, command, killer, jvm,
                   jnlp, stopper>>

ExecutorStep(r) ==
    \/ ExecutorLaunches(r) \/ ExecutorSetsStarted(r) \/ ExecutorSeesStop(r)
    \/ ExecutorSignalsKiller(r) \/ ExecutorReaps(r) \/ ExecutorSetsStopped(r)
    \/ ExecutorRemovesFile(r)

CommandAt(r, from, to) ==
    command[r] = from /\ command' = [command EXCEPT ![r] = to]

CommandStarts(r) ==
    /\ CommandAt(r, "starting", "waiting")
    /\ jvm' = [jvm EXCEPT ![r] = "running"]
    /\ killer' = [killer EXCEPT ![r] = "waiting"]
    /\ UNCHANGED <<status, mainVars, interrupts, channelVars, watcher, executor, jnlpVars,
                   stopper>>

(* An error of Start() is printed and nothing else: no killer, no status,  *)
(* nothing on clientStopped.                                               *)
CommandFails(r) ==
    /\ StartMayFail
    /\ CommandAt(r, "starting", "failed")
    /\ UNCHANGED <<status, mainVars, interrupts, channelVars, watcher, executor, killer, jvm,
                   jnlpVars, stopper>>

(* Mutant: the end of the process is not written to the status. *)
CommandReportsNothing(r) ==
    /\ CommandAt(r, "waiting", "reporting")
    /\ jvm[r] = "dead"
    /\ UNCHANGED <<status, mainVars, interrupts, channelVars, watcher, executor, killer, jvm,
                   jnlpVars, stopper>>

(* Wait() returned: Set(ModeStopped), then the send on clientStopped. *)
CommandReports(r) ==
    /\ CommandAt(r, "waiting", "reporting")
    /\ jvm[r] = "dead"
    /\ status' = "stopped"
    /\ UNCHANGED <<mainVars, interrupts, channelVars, watcher, executor, killer, jvm,
                   jnlpVars, stopper>>

CommandStep(r) == CommandStarts(r) \/ CommandFails(r) \/ CommandReports(r)


KillerKills(r) ==
    /\ killer[r] = "killing"
    /\ killer' = [killer EXCEPT ![r] = "done"]
    /\ jvm' = [jvm EXCEPT ![r] = "dead"]
    /\ UNCHANGED <<status, mainVars, interrupts, channelVars, watcher, executor, command,
                   jnlpVars, stopper>>

(* The Java process ends by itself. *)
JvmExits(r) ==
    /\ jvm[r] = "running"
    /\ jvm' = [jvm EXCEPT ![r] = "dead"]
    /\ UNCHANGED <<status, mainVars, interrupts, channelVars, watcher, executor, command,
                   killer, jnlpVars, stopper>>

-----------------------------------------------------------------------------
(* The callers of Stop() (client.go:100): monitors, timers, the console    *)
(* scanner, the keyboard. The test and the assignment are two steps.       *)

StopperAt(s, from, to) ==
    stopper[s] = from /\ stopper' = [stopper EXCEPT ![s] = to]

StopChecks(s) ==
    /\ StopperAt(s, "idle", IF IsStopped THEN "idle" ELSE "setting")
    /\ UNCHANGED <<status, mainVars, interrupts, channelVars, watcher, clientVars>>

StopSets(s) ==
    /\ StopperAt(s, "setting", "idle")
    /\ status' = "stopping"
    /\ UNCHANGED <<mainVars, interrupts, channelVars, watcher, clientVars>>

-----------------------------------------------------------------------------
Step ==
    \/ Alive /\ \/ MainStep
                \/ Interrupt
                \/ \E r \in Runs : \/ WatcherStep(r) \/ ExecutorStep(r)
                                   \/ CommandStep(r) \/ KillerKills(r)
                \/ \E s \in Stoppers : StopChecks(s) \/ StopSets(s)
    \/ \E r \in Runs : JvmExits(r)

(* The history begins anew when a run begins. *)
Recorded ==
    lost' = /\ status' # "starting"
            /\ lost \/ (status = "stopped" /\ status' # "stopped")

Next == Step /\ Recorded

Spec == Init /\ [][Next]_vars

(* The Go scheduler runs every goroutine that can run. Nothing obliges the *)
(* OS to send a signal, the Java process to end by itself, or a monitor or *)
(* a user to ask for a restart.                                            *)
Fairness ==
    /\ WF_program(Alive /\ MainStep)
    /\ \A r \in Runs : /\ WF_program(Alive /\ WatcherStep(r))
                       /\ WF_program(Alive /\ ExecutorStep(r))
                       /\ WF_program(Alive /\ CommandStep(r))
                       /\ WF_program(Alive /\ KillerKills(r))
    /\ \A s \in Stoppers : WF_program(Alive /\ StopSets(s))

FairSpec == Spec /\ Fairness

-----------------------------------------------------------------------------
(* Safety.                                                                 *)

(* Without an interrupt the launcher never ends: the exit decision of      *)
(* RunConfiguredMode (mode.go:114-117) is TRUE only if a real signal was   *)
(* first into the exitRequested channel, although the main goroutine fakes *)
(* an interrupt of its own (mode.go:109) to release the watcher.           *)
ExitOnlyOnInterrupt == mainPc = "exited" => interrupts > 0

(* When a run is over its watcher has left the signal channel and its      *)
(* exitRequested channel is drained, whatever the order in which a real    *)
(* signal, the fake one and the end of the client arrived (mode.go:93-115):*)
(* no goroutine leaks with every restart.                                  *)
NoLeakedWatcher ==
    \A r \in 1..(run - 1) : /\ watcher[r] \in {"checking", "setting", "done"}
                            /\ exitRequested[r] = <<>>

(* A Java process is never left behind by its executor: execute returns    *)
(* only after the command goroutine saw the process die (client.go:196-197)*)
(* even when the process, the killer and a stop race. Of a launcher that   *)
(* has ended it says that it ended before its executor did: the goroutines *)
(* stay where they were, and the process may live on.                      *)
NoUnsupervisedClient ==
    \A r \in Runs : jvm[r] = "running" =>
                        executor[r] \in {"announcing", "polling", "stopping", "reaping"}

(* The customised JNLP file, which holds the tunnel's addresses, does not  *)
(* outlive the execution that wrote it (client.go:122-123), in whatever    *)
(* order the executors of several runs write and remove the one file. Two  *)
(* files stay: a part that a failed WriteFile left, and that of a launcher *)
(* that ended first. Presumes that os.Remove succeeds.                     *)
NoStaleJnlpFile ==
    Alive /\ jnlpFile # 0 => \/ executor[jnlpFile] \notin {"none", "launching", "done"}
                             \/ jnlp[jnlpFile] = "failed"

(* What the handshake is for: see module Supervision.                      *)
Decided == mainPc \in {"recvSecond", "notifyStopped", "restarting", "sleeping", "exited"}

Outcome(exits) == IF exits THEN "exit" ELSE "restart"

Decision ==
    IF Decided THEN Outcome(exitFlag)
    ELSE IF exitRequested[run] = <<>> THEN "open"
    ELSE Outcome(Head(exitRequested[run]))

Promise == INSTANCE Supervision WITH decision <- Decision, interrupted <- interrupts > 0,
                                     client <- jvm, up <- Alive

(* The loop and its goroutines implement the supervision they promise: one *)
(* decision per run, exit only on an interrupt, one client per run.        *)
ImplementsSupervision == Promise!SupervisionSpec

-----------------------------------------------------------------------------
(* Liveness, under FairSpec.                                               *)

(* The buffer of one is filled by a second signal after the watcher has    *)
(* left with the first: nobody will empty it for `signals <- os.Interrupt`.*)
Jammed == mainPc = "sendInterrupt" /\ signals[run] = 1 /\ watcher[run] # "waiting"

(* A run whose mode stopped is always closed: of the two sends and the two *)
(* receives of mode.go:108-115 only the second send can block for ever, and*)
(* only on a second signal.                                                *)
HandshakeCompletes ==
    mainPc = "sendFalse" ~> mainPc = "notifyStopped" \/ (Jammed /\ interrupts > 1)

(* Nobody reports a process that did not start (client.go:166-167).        *)
Unreported == command[run] = "failed"

(* While the launcher waits for the mode, a client that is not running is  *)
(* either being started or noticed and replaced (mode.go:104-117), with    *)
(* interrupts and stops at any moment and runs that overlap. Two things can*)
(* make it wait for ever: a process that did not start, and a ModeStopped  *)
(* that was overwritten before the main goroutine's poll of every 100 ms   *)
(* read it: by an execute, which writes ModeStarted without looking        *)
(* (client.go:190), or by a Stop() or a watcher, which looked before       *)
(* (client.go:101, mode.go:97).                                            *)
KeepsClientRunning ==
    (mainPc = "waiting" /\ jvm[run] # "running")
        ~> (jvm[run] = "running" \/ mainPc # "waiting" \/ Unreported \/ lost)

(* The execute of an earlier run that has still to write ModeStarted.      *)
LateStarter == \E r \in 1..(run - 1) : executor[r] = "announcing"


-----------------------------------------------------------------------------
(* What the documentation says and the code does not keep: the first two   *)
(* are refuted by runs of their own.                                       *)

(* "Waiting on Interrupt or Kill and stop the run mode when received."     *)
(* (mode.go:89): also when the stop it causes comes before execute has come*)
(* to client.go:190.                                                       *)
EarlyInterruptEndsWait ==
    (interrupts > 0 /\ status = "stopping" /\ executor[run] = "launching")
        ~> mainPc # "waiting"

(* "Runs the mode that is activated within the specified config instance,  *)
(* returning false if the mode stopped due to a kill or interrupt"         *)
(* (mode.go:70): also when a second signal comes while it stops.           *)
InterruptedModeReturns ==
    (mainPc = "sendFalse" /\ interrupts > 0) ~> mainPc = "notifyStopped"

(* Start() is only called on a stopped mode: the assertion of client.go:90.*)
NoStartPanic == mainPc # "panicked"
=============================================================================
