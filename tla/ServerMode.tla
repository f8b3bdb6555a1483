------------------------------ MODULE ServerMode ------------------------------
(***************************************************************************)
(* modes/server.go: the SSH server mode under RunConfiguredMode. The       *)
(* executor listens and polls the status, the acceptor serves one          *)
(* connection at a time, and anyone may call Stop(), which, unlike that of *)
(* the client mode, does not look at the status.                           *)
(*                                                                         *)
(* The handshake of RunConfiguredMode with its watcher is the subject of   *)
(* ClientLifecycle; here only what is decided matters.                     *)
(***************************************************************************)

VARIABLES
    serverStatus,  \* ServerMode.status
    runner,        \* the main goroutine in RunConfiguredMode and the loop around it
    executor,      \* the goroutine of execute
    acceptor,      \* the goroutine of server.go:141
    listener,      \* the socket
    watcher,       \* the goroutine of mode.go:93
    interrupted    \* whether it has asked for the end of the launcher

serverVars == <<serverStatus, runner, executor, acceptor, listener, watcher, interrupted>>

ServerTypeOK ==
    /\ serverStatus \in {"none", "starting", "started", "stopping", "stopped"}
    /\ runner \in {"starting", "waiting", "exited", "panicked"}
    /\ executor \in {"none", "listening", "announcing", "polling", "closing", "closed", "ended"}
    /\ acceptor \in {"none", "accepting", "shaking", "serving", "ended"}
    /\ listener \in {"closed", "open"}
    /\ watcher \in {"waiting", "checking", "setting", "ended"}
    /\ interrupted \in BOOLEAN

ServerInit ==
    /\ serverStatus = "none"
    /\ runner = "starting"
    /\ executor = "none" /\ acceptor = "none"
    /\ listener = "closed"
    /\ watcher = "waiting" /\ interrupted = FALSE

(* A panic ends all goroutines, and so does the exit.                      *)
IsUp == runner \in {"starting", "waiting"}
Panics == runner' = "panicked"

-----------------------------------------------------------------------------
(* RunConfiguredMode and Start. *)

StartPanics ==
    /\ runner = "starting" /\ serverStatus # "none"
    /\ Panics
    /\ UNCHANGED <<serverStatus, executor, acceptor, listener, watcher, interrupted>>

StartsServer ==
    /\ runner = "starting" /\ serverStatus = "none"
    /\ runner' = "waiting" /\ executor' = "listening"
    /\ serverStatus' = "starting"
    /\ UNCHANGED <<acceptor, listener, watcher, interrupted>>

(* No private key can be read: the error ends the launcher.                *)
StartFails ==
    /\ runner = "starting" /\ serverStatus = "none"
    /\ runner' = "exited"
    /\ serverStatus' = "starting"
    /\ UNCHANGED <<executor, acceptor, listener, watcher, interrupted>>

SeesServerStopped ==
    /\ runner = "waiting" /\ serverStatus = "stopped"
    /\ runner' = IF interrupted THEN "exited" ELSE "starting"
    /\ UNCHANGED <<serverStatus, executor, acceptor, listener, watcher, interrupted>>

-----------------------------------------------------------------------------
(* execute. *)

ExecutorGoes(from, to) == IsUp /\ executor = from /\ executor' = to

Listens ==
    /\ IsUp /\ executor = "listening"
    /\ \/ /\ executor' = "announcing" /\ listener' = "open" /\ acceptor' = "accepting"
          /\ UNCHANGED runner
       \/ Panics /\ UNCHANGED <<executor, listener, acceptor>>
    /\ UNCHANGED <<serverStatus, watcher, interrupted>>

Announces ==
    /\ ExecutorGoes("announcing", "polling")
    /\ serverStatus' = "started"
    /\ UNCHANGED <<runner, acceptor, listener, watcher, interrupted>>

(* Mutant: waits for the connection that is served. *)
SeesStopWhenIdle ==
    /\ ExecutorGoes("polling", "closing")
    /\ serverStatus # "started" /\ acceptor = "accepting"
    /\ UNCHANGED <<serverStatus, runner, acceptor, listener, watcher, interrupted>>

SeesStop ==
    /\ ExecutorGoes("polling", "closing")
    /\ serverStatus # "started"
    /\ UNCHANGED <<serverStatus, runner, acceptor, listener, watcher, interrupted>>

ClosesListener ==
    /\ ExecutorGoes("closing", "closed")
    /\ listener' = "closed"
    /\ UNCHANGED <<serverStatus, runner, acceptor, watcher, interrupted>>

SetsStopped ==
    /\ ExecutorGoes("closed", "ended")
    /\ serverStatus' = "stopped"
    /\ UNCHANGED <<runner, acceptor, listener, watcher, interrupted>>

-----------------------------------------------------------------------------
(* The acceptor; a connection may stay open when the listener is closed.   *)

AcceptorGoes(from, to) == IsUp /\ acceptor = from /\ acceptor' = to

Accepts ==
    /\ AcceptorGoes("accepting", IF listener = "open" THEN "shaking" ELSE "ended")
    /\ UNCHANGED <<serverStatus, runner, executor, listener, watcher, interrupted>>

(* A handshake that fails, with a wrong password for instance, panics, and *)
(* so does a channel that cannot be accepted.                              *)
ShakesHands ==
    /\ \/ AcceptorGoes("shaking", "serving") /\ UNCHANGED runner
       \/ IsUp /\ acceptor = "shaking" /\ Panics /\ UNCHANGED acceptor
    /\ UNCHANGED <<serverStatus, executor, listener, watcher, interrupted>>

ConnectionEnds ==
    /\ \/ AcceptorGoes("serving", "accepting") /\ UNCHANGED runner
       \/ IsUp /\ acceptor = "serving" /\ Panics /\ UNCHANGED acceptor
    /\ UNCHANGED <<serverStatus, executor, listener, watcher, interrupted>>

-----------------------------------------------------------------------------
(* Stop(), called by the watcher of the signals and by the keyboard or a   *)
(* monitor. *)

WatcherGoes(from, to) == IsUp /\ watcher = from /\ watcher' = to

WatcherReceives ==
    /\ WatcherGoes("waiting", "checking") /\ runner = "waiting"
    /\ interrupted' = TRUE
    /\ UNCHANGED <<serverStatus, runner, executor, acceptor, listener>>

WatcherChecks ==
    /\ WatcherGoes("checking", IF serverStatus = "stopped" THEN "ended" ELSE "setting")
    /\ UNCHANGED <<serverStatus, runner, executor, acceptor, listener, interrupted>>

WatcherStops ==
    /\ WatcherGoes("setting", "ended")
    /\ serverStatus' = "stopping"
    /\ UNCHANGED <<runner, executor, acceptor, listener, interrupted>>

AnyoneStops ==
    /\ IsUp
    /\ serverStatus' = "stopping"
    /\ UNCHANGED <<runner, executor, acceptor, listener, watcher, interrupted>>

ServerGoes ==
    \/ StartPanics \/ StartsServer \/ StartFails \/ SeesServerStopped
    \/ Listens \/ Announces \/ SeesStop \/ ClosesListener \/ SetsStopped
    \/ WatcherChecks \/ WatcherStops

ServerNext ==
    \/ ServerGoes
    \/ Accepts \/ ShakesHands \/ ConnectionEnds
    \/ WatcherReceives \/ AnyoneStops

ServerSpec == ServerInit /\ [][ServerNext]_serverVars

(* The goroutines of the launcher run; who connects need not do anything.  *)
ServerFairness ==
    /\ WF_serverVars(SeesStop)
    /\ WF_serverVars(ClosesListener \/ SetsStopped)

-----------------------------------------------------------------------------
(* A stop that finds the server polling frees the port, whoever is         *)
(* connected and however long (server.go:134-137, 149, 156).               *)
StopFreesPort ==
    executor = "polling" /\ serverStatus = "stopping" ~> listener = "closed" \/ ~IsUp
=============================================================================
