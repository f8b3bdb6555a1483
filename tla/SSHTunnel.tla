------------------------------ MODULE SSHTunnel ------------------------------
(***************************************************************************)
(* environment/sshtunnel.go: the tunnel that a mode listener sets up before*)
(* every run of the client and tears down after it, and the two goroutines *)
(* that watch it: the prober asks Jenkins through the tunnel, the evaluator*)
(* compares two counters and stops the mode when the prober falls behind.  *)
(*                                                                         *)
(* The main goroutine is that of RunConfiguredMode: it calls the listener  *)
(* with ModeStarting, runs the mode, calls it with ModeStopped, and so on. *)
(* How the mode runs and stops is the subject of ClientLifecycle.          *)
(***************************************************************************)
EXTENDS Integers

CONSTANT MaxTick  \* bound: probes succeed until expectedAliveTick has this value

ASSUME TickAssumption == MaxTick \in Nat

VARIABLES
    main,             \* where the main goroutine is
    after,            \* where it goes when tearDownSSHTunnel returns
    ciHostURL,        \* SSHTunnelEstablisher.ciHostURL: "nil" or the target of the tunnel
    uri,              \* config.CIHostURI: "jenkins", or "garbled" where it does not parse,
                      \* or "local" for the local listener
    jnlpArgs,         \* whether util.JnlpArgs holds -url and -tunnel
    closables,        \* what is open: a subset of {"ssh", "http", "jnlp"}
    tunnelConnected, expected, last,  \* the atomic cells of the same names
    prober, got,      \* the goroutine of line 96 and what it read from expected
    evaluator, seen,  \* the goroutine of line 107 and what it read from expected
    alive,            \* whether Jenkins answers
    asked,            \* whether Stop() was called for the running mode
    silent            \* history: increments of expected since the last reset or success

counters == <<expected, last, silent>>
setup == <<ciHostURL, uri, jnlpArgs, closables>>
watchers == <<prober, got, evaluator, seen>>
vars == <<main, after, setup, tunnelConnected, counters, watchers, alive, asked>>

Tunnel == {"ssh", "http", "jnlp"}

TypeOK ==
    /\ main \in {"starting", "disconnecting", "resettingLast", "resettingExpected",
                 "restoring", "closing", "dialing", "askingPort", "listening", "applying",
                 "marking", "running", "stopped"}
    /\ after \in {"dialing", "running", "starting"}
    /\ ciHostURL \in {"nil", "jenkins", "local"}
    /\ uri \in {"jenkins", "garbled", "local"}
    /\ jnlpArgs \in BOOLEAN
    /\ closables \subseteq Tunnel
    /\ tunnelConnected \in BOOLEAN
    /\ expected \in Nat /\ last \in Nat /\ silent \in Nat
    /\ prober \in {"waiting", "asking", "reading", "setting"}
    /\ evaluator \in {"waiting", "reading", "comparing", "adding", "stopping"}
    /\ got \in Nat /\ seen \in Nat
    /\ alive \in BOOLEAN /\ asked \in BOOLEAN

Init ==
    /\ main = "starting" /\ after = "dialing"
    /\ uri \in {"jenkins", "garbled"}
    /\ ciHostURL = "nil" /\ jnlpArgs = FALSE /\ closables = {}
    /\ tunnelConnected = FALSE
    /\ expected = 0 /\ last = 0 /\ silent = 0
    /\ prober = "waiting" /\ got = 0
    /\ evaluator = "waiting" /\ seen = 0
    /\ alive = TRUE /\ asked = FALSE

-----------------------------------------------------------------------------
(* The listener with ModeStarting: setupSSHTunnel.                         *)

MainAt(from, to) == main = from /\ main' = to

(* setupSSHTunnel begins with a teardown.                                  *)
ParsesURI ==
    /\ MainAt("starting", "disconnecting")
    /\ uri # "garbled"
    /\ ciHostURL' = uri
    /\ after' = "dialing"
    /\ UNCHANGED <<uri, jnlpArgs, closables, tunnelConnected, counters, watchers, alive, asked>>

(* What does not parse leaves nil and the client without a tunnel.         *)
RejectsURI ==
    /\ MainAt("starting", "running")
    /\ uri = "garbled"
    /\ ciHostURL' = "nil"
    /\ UNCHANGED <<after, uri, jnlpArgs, closables, tunnelConnected, counters, watchers, alive,
                   asked>>

(* A host that is not reached, or whose fingerprint is not the configured  *)
(* one, leaves the client without a tunnel.                                *)
Dials ==
    /\ main = "dialing"
    /\ \/ main' = "askingPort" /\ closables' = closables \cup {"ssh"}
       \/ main' = "running" /\ UNCHANGED closables
    /\ UNCHANGED <<after, ciHostURL, uri, jnlpArgs, tunnelConnected, counters, watchers,
                   alive, asked>>

(* Without a JNLP port the setup ends; the connection stays open until the *)
(* next teardown.                                                          *)
FetchesPort ==
    /\ main = "askingPort"
    /\ \/ main' = "listening" /\ alive
       \/ main' = "running"
    /\ UNCHANGED <<after, setup, tunnelConnected, counters, watchers, alive, asked>>

Listens ==
    \E opened \in SUBSET {"http", "jnlp"} :
        /\ MainAt("listening", IF opened = {"http", "jnlp"} THEN "applying" ELSE "disconnecting")
        /\ closables' = closables \cup opened
        /\ after' = IF main' = "disconnecting" THEN "running" ELSE after
        /\ UNCHANGED <<ciHostURL, uri, jnlpArgs, tunnelConnected, counters, watchers,
                       alive, asked>>

Applies ==
    /\ MainAt("applying", "marking")
    /\ uri' = "local" /\ jnlpArgs' = TRUE
    /\ UNCHANGED <<after, ciHostURL, closables, tunnelConnected, counters, watchers, alive,
                   asked>>

Marks ==
    /\ MainAt("marking", "running")
    /\ tunnelConnected' = TRUE
    /\ UNCHANGED <<after, setup, counters, watchers, alive, asked>>

-----------------------------------------------------------------------------
(* tearDownSSHTunnel, whose callers are the setup and ModeStopped.         *)

(* Mutant: a tunnel that is torn down still counts as connected.           *)
StaysConnected ==
    /\ MainAt("disconnecting", "resettingLast")
    /\ UNCHANGED <<after, setup, tunnelConnected, counters, watchers, alive, asked>>

Disconnects ==
    /\ MainAt("disconnecting", "resettingLast")
    /\ tunnelConnected' = FALSE
    /\ UNCHANGED <<after, setup, counters, watchers, alive, asked>>

ResetsLast ==
    /\ MainAt("resettingLast", "resettingExpected")
    /\ last' = 0
    /\ UNCHANGED <<after, setup, tunnelConnected, expected, silent, watchers, alive, asked>>

ResetsExpected ==
    /\ MainAt("resettingExpected", "restoring")
    /\ expected' = 0
    /\ silent' = 0
    /\ UNCHANGED <<after, setup, tunnelConnected, last, watchers, alive, asked>>

(* Mutant: the address of Jenkins is not restored.                         *)
RestoresArgsOnly ==
    /\ MainAt("restoring", "closing")
    /\ jnlpArgs' = FALSE
    /\ UNCHANGED <<after, ciHostURL, uri, closables, tunnelConnected, counters, watchers,
                   alive, asked>>

Restores ==
    /\ MainAt("restoring", "closing")
    /\ uri' = ciHostURL
    /\ jnlpArgs' = FALSE
    /\ UNCHANGED <<after, ciHostURL, closables, tunnelConnected, counters, watchers, alive,
                   asked>>

ClosesAll ==
    /\ MainAt("closing", after)
    /\ closables' = {}
    /\ UNCHANGED <<after, ciHostURL, uri, jnlpArgs, tunnelConnected, counters, watchers,
                   alive, asked>>

-----------------------------------------------------------------------------
(* The run of the mode, and the listener with ModeStopped.                 *)

ModeEnds ==
    /\ MainAt("running", "stopped")
    /\ asked' = FALSE
    /\ UNCHANGED <<after, setup, tunnelConnected, counters, watchers, alive>>

(* Without a target there is nothing to tear down.                         *)
HearsStopped ==
    /\ main = "stopped"
    /\ IF ciHostURL = "nil" THEN main' = "starting" /\ UNCHANGED after
                            ELSE main' = "disconnecting" /\ after' = "starting"
    /\ UNCHANGED <<setup, tunnelConnected, counters, watchers, alive, asked>>

MainStep ==
    \/ ParsesURI \/ RejectsURI \/ Dials \/ FetchesPort \/ Listens \/ Applies \/ Marks
    \/ Disconnects \/ ResetsLast \/ ResetsExpected \/ Restores \/ ClosesAll
    \/ HearsStopped

-----------------------------------------------------------------------------
(* startAliveStateMonitoring: the prober.                                  *)

ProberAt(from, to) == prober = from /\ prober' = to

Asks ==
    /\ ProberAt("waiting", "asking")
    /\ tunnelConnected
    /\ UNCHANGED <<main, after, setup, tunnelConnected, counters, got, evaluator, seen,
                   alive, asked>>

(* A request may fail also where Jenkins is alive.                         *)
IsAnswered ==
    /\ prober = "asking"
    /\ \/ prober' = "reading" /\ alive /\ expected < MaxTick
       \/ prober' = "waiting"
    /\ UNCHANGED <<main, after, setup, tunnelConnected, counters, got, evaluator, seen,
                   alive, asked>>

ReadsExpected ==
    /\ ProberAt("reading", "setting")
    /\ got' = expected
    /\ UNCHANGED <<main, after, setup, tunnelConnected, counters, evaluator, seen, alive,
                   asked>>

SetsLast ==
    /\ ProberAt("setting", "waiting")
    /\ last' = got
    /\ silent' = 0
    /\ UNCHANGED <<main, after, setup, tunnelConnected, expected, got, evaluator, seen,
                   alive, asked>>

ProberStep == Asks \/ IsAnswered \/ ReadsExpected \/ SetsLast

-----------------------------------------------------------------------------
(* startAliveStateMonitoring: the evaluator.                               *)

EvaluatorAt(from, to) == evaluator = from /\ evaluator' = to

Evaluates ==
    /\ EvaluatorAt("waiting", "reading")
    /\ tunnelConnected
    /\ UNCHANGED <<main, after, setup, tunnelConnected, counters, prober, got, seen, alive,
                   asked>>

SeesExpected ==
    /\ EvaluatorAt("reading", "comparing")
    /\ seen' = expected
    /\ UNCHANGED <<main, after, setup, tunnelConnected, counters, prober, got, alive, asked>>

Distance(a, b) == IF a > b THEN a - b ELSE b - a

(* Mutant: one more missed probe is tolerated.                             *)
ComparesLate ==
    /\ EvaluatorAt("comparing", IF Distance(seen, last) > 2 THEN "stopping" ELSE "adding")
    /\ UNCHANGED <<main, after, setup, tunnelConnected, counters, prober, got, seen, alive,
                   asked>>

Compares ==
    /\ EvaluatorAt("comparing", IF Distance(seen, last) > 1 THEN "stopping" ELSE "adding")
    /\ UNCHANGED <<main, after, setup, tunnelConnected, counters, prober, got, seen, alive,
                   asked>>

Adds ==
    /\ EvaluatorAt("adding", "waiting")
    /\ expected' = expected + 1
    /\ silent' = silent + 1
    /\ UNCHANGED <<main, after, setup, tunnelConnected, last, prober, got, seen, alive, asked>>

(* Mutant: Stop() is not called. *)
WarnsOnly ==
    /\ EvaluatorAt("stopping", "waiting")
    /\ UNCHANGED <<main, after, setup, tunnelConnected, counters, prober, got, seen, alive,
                   asked>>

(* Stop() of a mode that does not run has no effect.                       *)
Stops ==
    /\ EvaluatorAt("stopping", "waiting")
    /\ asked' = (main = "running")
    /\ UNCHANGED <<main, after, setup, tunnelConnected, counters, prober, got, seen, alive>>

EvaluatorStep == Evaluates \/ SeesExpected \/ Compares \/ Adds \/ Stops

-----------------------------------------------------------------------------
JenkinsMoves ==
    /\ alive' = ~alive
    /\ UNCHANGED <<main, after, setup, tunnelConnected, counters, watchers, asked>>

Next == MainStep \/ ModeEnds \/ ProberStep \/ EvaluatorStep \/ JenkinsMoves

Spec == Init /\ [][Next]_vars

(* Every goroutine runs and every ticker ticks, but neither a dial, as     *)
(* ssh.Dial has no timeout, nor a request to Jenkins need end. A mode that *)
(* is asked to stop, every 30 seconds again, stops: this takes what        *)
(* PolledStopTakesEffect of ClientLifecycle asks for, and a console that   *)
(* does not block the warning before (LauncherGetsTheConsole).             *)
Fairness ==
    /\ WF_vars(main \notin {"dialing", "askingPort"} /\ MainStep)
    /\ WF_vars(ModeEnds /\ asked)
    /\ WF_vars(EvaluatorStep)

FairSpec == Spec /\ Fairness

-----------------------------------------------------------------------------
(* The client runs either with a complete tunnel or with none: its URL, its*)
(* JNLP arguments and the open sockets agree, whichever step of the setup  *)
(* failed. The watchers take a tunnel for connected only while all of it is*)
(* there: the flag is the last to be set and the first to be cleared       *)
(* (sshtunnel.go:132, 184-223).                                            *)
AllOrNothing ==
    /\ main = "running" => /\ (uri = "local") = jnlpArgs
                           /\ jnlpArgs = (closables = Tunnel)
                           /\ tunnelConnected = jnlpArgs
                           /\ ~jnlpArgs => closables \subseteq {"ssh"}
    /\ tunnelConnected => uri = "local" /\ closables = Tunnel

(* However often the client is restarted, every dial starts with all       *)
(* sockets closed, and the tunnel leads to Jenkins and never to its own    *)
(* local listener (sshtunnel.go:56, 135, 159).                             *)
StartsAfresh ==
    main = "dialing" => closables = {} /\ ciHostURL = "jenkins" /\ uri = "jenkins"

(* A silent tunnel is noticed: three evaluations without a success stop the*)
(* mode, and where a reset comes between the two halves of line 101 or of  *)
(* an evaluation, two more may pass (sshtunnel.go:94-124).                 *)
SilenceIsBounded == silent <= 4

(* When Jenkins is gone, the client does not stay on a dead tunnel: it is  *)
(* stopped and the tunnel torn down ("Timeout, hanging connections or      *)
(* connection errors lead to a restart", sshtunnel.go:93). It presumes what*)
(* Fairness says of Stop() and of the warning before it.                   *)
DeadTunnelIsClosed == <>[]~alive => []<>~tunnelConnected
=============================================================================
