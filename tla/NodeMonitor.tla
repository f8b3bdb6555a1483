----------------------------- MODULE NodeMonitor -----------------------------
(***************************************************************************)
(* environment/monitor.go: the monitor that asks Jenkins every 15 seconds  *)
(* how it sees this node, keeps util.NodeIsIdle up to date and stops the   *)
(* client when Jenkins keeps showing the node offline.                     *)
(*                                                                         *)
(* The status of the mode belongs to ClientLifecycle; here the other       *)
(* goroutines write it at any time, also while the monitor waits for the   *)
(* answer of Jenkins. Stop() is the one of ClientLifecycle, in two steps.  *)
(***************************************************************************)
EXTENDS Integers

CONSTANTS
    MaxOffline,  \* maxOfflineCountBeforeRestart, whatever the configuration holds
    MaxInt       \* the largest int16: 32767

ASSUME IntAssumption == MaxInt \in Nat /\ MaxInt > 0
ASSUME ThresholdAssumption == MaxOffline \in (-MaxInt - 1)..MaxInt

Int16 == (-MaxInt - 1)..MaxInt

(* The thresholds whose triple, and one more, fit the type: 1..10922.      *)
SensibleThreshold == MaxOffline >= 1 /\ 3 * MaxOffline < MaxInt

Status == {"none", "starting", "started", "stopping", "stopped"}

(* How Jenkins shows the node. No answer, an answer other than 200 and one *)
(* that cannot be decoded are all "unreachable".                           *)
Views == {"idle", "busy", "offline", "unreachable"}

VARIABLES
    status,        \* ClientMode.status
    view,          \* how Jenkins shows the node
    monitor,       \* where the goroutine of the monitor is
    answer,        \* what it was answered, "unreachable" when it decides nothing
    offlineCount,  \* JenkinsNodeMonitor.offlineCount
    nodeIsIdle,    \* util.NodeIsIdle
    streak,        \* history: offline results in a row, counted up to 3 * MaxOffline
    unforced       \* history: how many of them came after the last forced reconnect

vars == <<status, view, monitor, answer, offlineCount, nodeIsIdle, streak, unforced>>

TypeOK ==
    /\ status \in Status
    /\ view \in Views
    /\ monitor \in {"waiting", "asking", "deciding", "forcing", "checking", "setting"}
    /\ answer \in Views
    /\ offlineCount \in Int16
    /\ nodeIsIdle \in BOOLEAN
    /\ streak \in Nat
    /\ unforced \in Nat

Init ==
    /\ status = "none"
    /\ view \in Views
    /\ monitor = "waiting"
    /\ answer = "unreachable"
    /\ offlineCount = 0
    /\ nodeIsIdle = FALSE
    /\ streak = 0
    /\ unforced = 0

-----------------------------------------------------------------------------
(* The surroundings.                                                       *)

(* Goroutines of overlapping runs write the status in any order.           *)
ModeMoves ==
    /\ status' \in Status \ {"none", status}
    /\ UNCHANGED <<view, monitor, answer, offlineCount, nodeIsIdle, streak, unforced>>

JenkinsMoves ==
    /\ view' \in Views \ {view}
    /\ UNCHANGED <<status, monitor, answer, offlineCount, nodeIsIdle, streak, unforced>>

-----------------------------------------------------------------------------
(* monitor().                                                              *)

MonitorAt(from, to) == monitor = from /\ monitor' = to

(* A tick: the node is asked about only when this side is connected.       *)
TicksConnected ==
    /\ MonitorAt("waiting", "asking")
    /\ status = "started"
    /\ UNCHANGED <<status, view, answer, offlineCount, nodeIsIdle, streak, unforced>>

TicksDisconnected ==
    /\ monitor = "waiting"
    /\ status # "started"
    /\ nodeIsIdle' = TRUE
    /\ offlineCount' = 0
    /\ streak' = 0 /\ unforced' = 0
    /\ UNCHANGED <<status, view, monitor, answer>>

IsAnswered ==
    /\ MonitorAt("asking", "deciding")
    /\ answer' = view
    /\ UNCHANGED <<status, view, offlineCount, nodeIsIdle, streak, unforced>>

(* Mutant: the flag is not updated by an answer.                           *)
SeesOnlineOnly ==
    /\ MonitorAt("deciding", "waiting")
    /\ answer \in {"idle", "busy"} /\ answer' = "unreachable"
    /\ offlineCount' = 0
    /\ streak' = 0 /\ unforced' = 0
    /\ UNCHANGED <<status, view, nodeIsIdle>>

SeesOnline ==
    /\ MonitorAt("deciding", "waiting")
    /\ answer \in {"idle", "busy"} /\ answer' = "unreachable"
    /\ nodeIsIdle' = (answer = "idle")
    /\ offlineCount' = 0
    /\ streak' = 0 /\ unforced' = 0
    /\ UNCHANGED <<status, view>>

(* What int16 makes of a sum or a product. *)
Wrapped(n) ==
    IF n \in Int16 THEN n ELSE ((n + MaxInt + 1) % (2 * (MaxInt + 1))) - MaxInt - 1

(* Mutant: an unreachable server counts as well. *)
CountsUnreachable == Wrapped(offlineCount + 1)

Counted == IF answer = "offline" THEN Wrapped(offlineCount + 1) ELSE offlineCount

(* Mutant: the count starts again from zero.                               *)
ClippedToZero(n) == IF n > Wrapped(3 * MaxOffline) THEN 0 ELSE n

Clipped(n) == IF n > Wrapped(3 * MaxOffline) THEN MaxOffline ELSE n

SeesOffline ==
    /\ monitor = "deciding"
    /\ answer \notin {"idle", "busy"} /\ answer' = "unreachable"
    /\ nodeIsIdle' = TRUE
    /\ offlineCount' = Clipped(Counted)
    /\ monitor' = IF offlineCount' = MaxOffline THEN "forcing" ELSE "waiting"
    /\ streak' = IF answer = "offline" /\ streak < 3 * MaxOffline THEN streak + 1 ELSE streak
    /\ unforced' = IF monitor' = "forcing" THEN 0
                   ELSE IF answer = "offline" THEN unforced + 1 ELSE unforced
    /\ UNCHANGED <<status, view>>

(* Mutant: the reconnect is not forced. *)
ForcesNothing ==
    /\ MonitorAt("forcing", "waiting")
    /\ UNCHANGED <<status, view, answer, offlineCount, nodeIsIdle, streak, unforced>>

(* forceReconnect looks at the status again, and Stop() once more.         *)
Forces ==
    /\ MonitorAt("forcing", IF status = "started" THEN "checking" ELSE "waiting")
    /\ UNCHANGED <<status, view, answer, offlineCount, nodeIsIdle, streak, unforced>>

StopChecks ==
    /\ MonitorAt("checking", IF status \in {"none", "stopped"} THEN "waiting" ELSE "setting")
    /\ UNCHANGED <<status, view, answer, offlineCount, nodeIsIdle, streak, unforced>>

StopSets ==
    /\ MonitorAt("setting", "waiting")
    /\ status' = "stopping"
    /\ UNCHANGED <<view, answer, offlineCount, nodeIsIdle, streak, unforced>>

MonitorStep ==
    \/ TicksConnected \/ TicksDisconnected \/ IsAnswered \/ SeesOnline \/ SeesOffline
    \/ Forces \/ StopChecks \/ StopSets

Next == ModeMoves \/ JenkinsMoves \/ MonitorStep

Spec == Init /\ [][Next]_vars

(* The ticker ticks for ever, and a request is answered or fails: the HTTP *)
(* client has a ResponseHeaderTimeout of a minute.                         *)
FairSpec == Spec /\ WF_vars(MonitorStep)

-----------------------------------------------------------------------------
(* "The max number of offline results in a row until a reconnect is forced"*)
(* (monitor.go:21) read as a minimum: a client is stopped only after that  *)
(* many results, however they mix with failed requests, restarts of the    *)
(* client and earlier forced reconnects.                                   *)
ForcedOnlyAfterMaxOffline == monitor = "forcing" => streak >= MaxOffline

(* Read as a maximum: the clipping of the count (monitor.go:107-109) makes *)
(* a reconnect that did not help be followed by another, at the latest     *)
(* with the (2 * MaxOffline + 1)-th offline result after it.               *)
ReconnectIsNotOverdue == unforced <= 2 * MaxOffline

(* A node that Jenkins keeps showing offline is not left connected: it is  *)
(* stopped again and again (monitor.go:88-89).                             *)
OfflineNodeIsReconnected == <>[](view = "offline") => []<>(status # "started")

(* "IDLE means no build is running" (util/globals.go:15): a request that   *)
(* fails or a moment without a connection makes the node idle whatever it  *)
(* builds (monitor.go:101, 119), but a node that keeps building is noticed *)
(* and stays so for those who wait for an idle one.                        *)
BusyNodeIsNotIdle ==
    <>[](view = "busy" /\ status = "started") => <>[]~nodeIsIdle
=============================================================================
