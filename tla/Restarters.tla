------------------------------ MODULE Restarters ------------------------------
(***************************************************************************)
(* environment/outofmemory.go and periodic.go: the goroutines that stop the*)
(* client because it ran out of memory or because it is time to, each of   *)
(* them, if so configured, once the node is idle. The idle flag is that of *)
(* NodeMonitor, which goes on beside them.                                 *)
(*                                                                         *)
(* A Java process that runs out of memory writes a marker file. The ticker *)
(* of the restarter tests for it and removes it, and so does a mode        *)
(* listener, which the main goroutine calls with every notification.       *)
(***************************************************************************)
EXTENDS NodeMonitor

CONSTANTS
    OnlyWhenIdle,   \* the restarters that are configured to wait for an idle node
    RemoveMayFail   \* whether os.Remove of the marker may fail

Restarters == {"oom", "periodic"}

ASSUME RestarterAssumption ==
    /\ OnlyWhenIdle \subseteq Restarters
    /\ RemoveMayFail \in BOOLEAN

VARIABLES
    main,      \* the notification that the main goroutine gives, or "running"
    clearing,  \* whether the listener has seen the marker that it is to remove
    marker,    \* whether the file .oom-restart exists
    at,        \* where the goroutine of each restarter is
    due        \* history: whether a client ran out of memory since the restarter
               \* last took that for a reason to restart

markerVars == <<main, clearing, marker>>
restarterVars == <<markerVars, at, due>>

RestarterTypeOK ==
    /\ main \in {"starting", "started", "running", "stopped"}
    /\ clearing \in BOOLEAN
    /\ marker \in BOOLEAN
    /\ at \in [Restarters -> {"waiting", "removing", "idling", "checking", "setting"}]
    /\ due \in BOOLEAN

RestarterInit ==
    /\ Init
    /\ main = "starting" /\ clearing = FALSE
    /\ marker \in BOOLEAN
    /\ at = [r \in Restarters |-> "waiting"]
    /\ due = marker

-----------------------------------------------------------------------------
(* The client, and the main goroutine with the listener.                   *)

RunsOutOfMemory ==
    /\ marker' = TRUE /\ due' = TRUE
    /\ UNCHANGED <<main, clearing, at, vars>>

AfterListeners ==
    CASE main = "starting" -> "started" [] main = "started" -> "running" [] OTHER -> "starting"

Looks ==
    /\ main # "running" /\ ~clearing
    /\ clearing' = marker
    /\ main' = IF marker THEN main ELSE AfterListeners
    /\ UNCHANGED <<marker, at, due, vars>>

Clears ==
    /\ clearing /\ clearing' = FALSE
    /\ marker' \in {FALSE, marker /\ RemoveMayFail}
    /\ main' = AfterListeners
    /\ UNCHANGED <<at, due, vars>>

SeesModeStopped ==
    /\ main = "running" /\ main' = "stopped"
    /\ status = "stopped"
    /\ UNCHANGED <<clearing, marker, at, due, vars>>

-----------------------------------------------------------------------------
(* The restarters. *)

Goes(r, from, to) == at[r] = from /\ at' = [at EXCEPT ![r] = to]

SeesMarker ==
    /\ marker
    /\ Goes("oom", "waiting", "removing")
    /\ UNCHANGED <<markerVars, due, vars>>

Waits(r) == IF r \in OnlyWhenIdle THEN "idling" ELSE "checking"

(* Mutant: the marker stays. *)
KeepsMarker ==
    /\ Goes("oom", "removing", Waits("oom"))
    /\ due' = FALSE
    /\ UNCHANGED <<markerVars, vars>>

RemovesMarker ==
    /\ Goes("oom", "removing", Waits("oom"))
    /\ marker' \in {FALSE, marker /\ RemoveMayFail}
    /\ due' = FALSE
    /\ UNCHANGED <<main, clearing, vars>>

IntervalIsOver ==
    /\ Goes("periodic", "waiting", Waits("periodic"))
    /\ UNCHANGED <<markerVars, due, vars>>

(* Mutant: waits for the end of idleness. *)
FindsNodeBusy(r) ==
    /\ ~nodeIsIdle
    /\ Goes(r, "idling", "checking")
    /\ UNCHANGED <<markerVars, due, vars>>

FindsNodeIdle(r) ==
    /\ nodeIsIdle
    /\ Goes(r, "idling", "checking")
    /\ UNCHANGED <<markerVars, due, vars>>

ChecksMode(r) ==
    /\ Goes(r, "checking", IF status \in {"none", "stopped"} THEN "waiting" ELSE "setting")
    /\ UNCHANGED <<markerVars, due, vars>>

StopsMode(r) ==
    /\ Goes(r, "setting", "waiting")
    /\ status' = "stopping"
    /\ UNCHANGED <<markerVars, due, view, monitor, answer, offlineCount, nodeIsIdle,
                   streak, unforced>>

RestarterStep(r) ==
    \/ r = "oom" /\ (SeesMarker \/ RemovesMarker)
    \/ FindsNodeIdle(r) \/ ChecksMode(r) \/ StopsMode(r)

RestarterNext ==
    \/ Next /\ UNCHANGED restarterVars
    \/ RunsOutOfMemory \/ Looks \/ Clears \/ SeesModeStopped
    \/ IntervalIsOver
    \/ \E r \in Restarters : RestarterStep(r)

RestarterSpec == RestarterInit /\ [][RestarterNext]_<<vars, restarterVars>>

(* The goroutines run and their tickers tick. A restarter looks for an idle*)
(* node every five minutes, and may miss one that is idle in between.      *)
RestarterFairSpec ==
    /\ RestarterSpec
    /\ WF_<<vars, restarterVars>>(MonitorStep /\ UNCHANGED restarterVars)
    /\ \A r \in Restarters : WF_<<vars, restarterVars>>(RestarterStep(r))

-----------------------------------------------------------------------------
(* "returns true first and false with every subsequent call until the error*)
(* is triggered again" (outofmemory.go:76-78): the ticker, between whose   *)
(* test and removal the listener removes the marker or the client writes it*)
(* again, claims a restart only when a client ran out of memory since the  *)
(* last one it claimed.                                                    *)
OneRestartPerError == at["oom"] = "removing" => due

(* A client that runs out of memory is stopped, unless builds keep the node*)
(* busy: the marker is not lost between the ticker and the listener, and a *)
(* node that is offline or unreachable counts as idle (outofmemory.go:53-58*)
(* and 68-71, monitor.go:101, 119).                                        *)
OomStopsClient ==
    <>[](view # "busy") =>
        (marker /\ main = "running" /\ status = "started" ~> status # "started")
=============================================================================
