--------------------------- MODULE RestartersProofs ---------------------------
(***************************************************************************)
(* What holds of Restarters for every threshold and every configuration.   *)
(***************************************************************************)
EXTENDS Restarters, NodeMonitorProofs

(* The restarters are part of what NodeMonitor expects of its surroundings:*)
(* they only write the status, so what is proved of the monitor alone holds*)
(* beside them.                                                            *)
LEMMA StepIsMonitors == [RestarterNext]_<<vars, restarterVars>> => [Next]_vars
<1> SUFFICES ASSUME [RestarterNext]_<<vars, restarterVars>> PROVE [Next]_vars
  OBVIOUS
<1>1. CASE Next /\ UNCHANGED restarterVars
  BY <1>1
<1>2. CASE UNCHANGED vars
  BY <1>2
<1>3. CASE RunsOutOfMemory \/ Looks \/ Clears \/ SeesModeStopped \/ IntervalIsOver
  BY <1>2, <1>3 DEF RunsOutOfMemory, Looks, Clears, SeesModeStopped, IntervalIsOver
<1>4. ASSUME NEW r \in Restarters, RestarterStep(r) PROVE [Next]_vars
  <2>1. CASE SeesMarker \/ RemovesMarker \/ FindsNodeIdle(r) \/ ChecksMode(r)
    BY <1>2, <2>1 DEF SeesMarker, RemovesMarker, FindsNodeIdle, ChecksMode
  <2>2. CASE StopsMode(r)
    <3>1. /\ status' = "stopping"
          /\ UNCHANGED <<view, monitor, answer, offlineCount, nodeIsIdle, streak, unforced>>
      BY <2>2 DEF StopsMode
    <3>2. CASE status = "stopping"
      BY <3>1, <3>2 DEF vars
    <3>3. CASE status # "stopping"
      BY <3>1, <3>3 DEF Next, ModeMoves, Status
    <3> QED
      BY <3>2, <3>3
  <2> QED
    BY <1>4, <2>1, <2>2 DEF RestarterStep
<1> QED
  BY <1>1, <1>2, <1>3, <1>4 DEF RestarterNext, restarterVars

(* The monitor with the restarters beside it implements the monitor in its *)
(* surroundings (monitor.go:66-155, outofmemory.go:44-72, periodic.go).    *)
THEOREM ImplementsMonitor == RestarterSpec => Spec
<1>1. RestarterInit => Init
  BY DEF RestarterInit
<1> QED
  BY <1>1, StepIsMonitors, PTL DEF RestarterSpec, Spec

-----------------------------------------------------------------------------
(* Whatever is configured, each goroutine is where it can be, and of the   *)
(* marker and its claims nothing but two flags is kept.                    *)
THEOREM RestartersTypeCorrect == RestarterSpec => []RestarterTypeOK
<1> USE RestarterAssumption DEF Restarters, Goes
<1>1. RestarterInit => RestarterTypeOK
  BY DEF RestarterInit, RestarterTypeOK
<1>2. RestarterTypeOK /\ [RestarterNext]_<<vars, restarterVars>> => RestarterTypeOK'
  <2> SUFFICES ASSUME RestarterTypeOK, [RestarterNext]_<<vars, restarterVars>>
               PROVE  RestarterTypeOK'
    OBVIOUS
  <2>1. CASE UNCHANGED restarterVars
    BY <2>1 DEF RestarterTypeOK, restarterVars, markerVars
  <2>2. CASE RunsOutOfMemory
    BY <2>2 DEF RestarterTypeOK, RunsOutOfMemory
  <2>3. CASE Looks
    BY <2>3 DEF RestarterTypeOK, Looks, AfterListeners
  <2>4. CASE Clears
    <3>1. marker' \in BOOLEAN /\ clearing' = FALSE /\ UNCHANGED <<at, due>>
      BY <2>4 DEF RestarterTypeOK, Clears
    <3>2. main' \in {"starting", "started", "running"}
      BY <2>4 DEF Clears, AfterListeners
    <3> QED
      BY <3>1, <3>2 DEF RestarterTypeOK
  <2>5. CASE SeesModeStopped
    BY <2>5 DEF RestarterTypeOK, SeesModeStopped
  <2>6. CASE IntervalIsOver
    BY <2>6 DEF RestarterTypeOK, IntervalIsOver, Waits, markerVars
  <2>7. CASE SeesMarker
    BY <2>7 DEF RestarterTypeOK, SeesMarker, markerVars
  <2>8. CASE RemovesMarker
    <3>1. marker' \in BOOLEAN /\ due' = FALSE /\ UNCHANGED <<main, clearing>>
      BY <2>8 DEF RestarterTypeOK, RemovesMarker
    <3>2. at' = [at EXCEPT !["oom"] = Waits("oom")]
      BY <2>8 DEF RemovesMarker
    <3> QED
      BY <3>1, <3>2 DEF RestarterTypeOK, Waits
  <2>9. ASSUME NEW r \in Restarters, FindsNodeIdle(r) \/ ChecksMode(r) \/ StopsMode(r)
        PROVE  RestarterTypeOK'
    <3>1. /\ UNCHANGED <<main, clearing, marker, due>>
          /\ at' \in {[at EXCEPT ![r] = to] : to \in {"waiting", "checking", "setting"}}
      BY <2>9 DEF FindsNodeIdle, ChecksMode, StopsMode, markerVars
    <3> QED
      BY <3>1 DEF RestarterTypeOK
  <2> QED
    BY <2>1, <2>2, <2>3, <2>4, <2>5, <2>6, <2>7, <2>8, <2>9
    DEF RestarterNext, RestarterStep
<1> QED
  BY <1>1, <1>2, PTL DEF RestarterSpec

-----------------------------------------------------------------------------
(* Whoever holds the marker, or is about to remove it, has an error to show*)
(* for it.                                                                 *)
DueInv ==
    /\ at \in [Restarters ->
                {"waiting", "removing", "idling", "checking", "setting"}]
    /\ due \in BOOLEAN
    /\ marker => due
    /\ at["oom"] = "removing" => due

(* A ticker that sees the marker claims one restart for each time a client *)
(* ran out of memory, however its two steps mix with those of the listener *)
(* (outofmemory.go:76-85), as long as the marker can be removed.           *)
THEOREM NoRestartWithoutError ==
    RemoveMayFail = FALSE => (RestarterSpec => []OneRestartPerError)
<1> SUFFICES ASSUME RemoveMayFail = FALSE PROVE RestarterSpec => []OneRestartPerError
  OBVIOUS
<1> USE DEF Restarters, Goes
<1>1. RestarterInit => DueInv
  BY DEF RestarterInit, DueInv
<1>2. DueInv /\ [RestarterNext]_<<vars, restarterVars>> => DueInv'
  <2> SUFFICES ASSUME DueInv, [RestarterNext]_<<vars, restarterVars>> PROVE DueInv'
    OBVIOUS
  <2>1. CASE UNCHANGED <<marker, at, due>>
    BY <2>1 DEF DueInv
  <2>2. CASE Next /\ UNCHANGED restarterVars
    BY <2>1, <2>2 DEF restarterVars, markerVars
  <2>3. CASE UNCHANGED <<vars, restarterVars>>
    BY <2>1, <2>3 DEF restarterVars, markerVars
  <2>4. CASE RunsOutOfMemory
    BY <2>4 DEF DueInv, RunsOutOfMemory
  <2>5. CASE Looks \/ SeesModeStopped
    BY <2>1, <2>5 DEF Looks, SeesModeStopped
  <2>6. CASE Clears
    <3>1. marker' = FALSE /\ UNCHANGED <<at, due>>
      BY <2>6 DEF Clears
    <3> QED
      BY <3>1 DEF DueInv
  <2>7. CASE IntervalIsOver
    BY <2>7 DEF DueInv, IntervalIsOver, Waits, markerVars
  <2>8. CASE SeesMarker
    BY <2>8 DEF DueInv, SeesMarker, markerVars
  <2>9. CASE RemovesMarker
    <3>1. marker' = FALSE /\ due' = FALSE /\ Goes("oom", "removing", Waits("oom"))
      BY <2>9 DEF RemovesMarker
    <3> QED
      BY <3>1 DEF DueInv, Waits
  <2>10. ASSUME NEW r \in Restarters, FindsNodeIdle(r) \/ ChecksMode(r) \/ StopsMode(r)
         PROVE  DueInv'
    <3>1. /\ UNCHANGED <<marker, due>>
          /\ at' \in {[at EXCEPT ![r] = to] : to \in {"waiting", "checking", "setting"}}
      BY <2>10 DEF FindsNodeIdle, ChecksMode, StopsMode, markerVars
    <3> QED
      BY <3>1 DEF DueInv
  <2> QED
    BY <2>2, <2>3, <2>4, <2>5, <2>6, <2>7, <2>8, <2>9, <2>10
    DEF RestarterNext, RestarterStep
<1>3. DueInv => OneRestartPerError
  BY DEF DueInv, OneRestartPerError
<1> QED
  BY <1>1, <1>2, <1>3, PTL DEF RestarterSpec

(* Beside the restarters, too, no reconnect is forced before MaxOffline    *)
(* results said so.                                                        *)
THEOREM ForcedNotTooEarlyBesideRestarters ==
    SensibleThreshold => (RestarterSpec => []ForcedOnlyAfterMaxOffline)
BY ImplementsMonitor, ForcedNotTooEarly

(* Nor later than the clipping of the count allows.                        *)
THEOREM ForcedNotTooLateBesideRestarters ==
    SensibleThreshold => (RestarterSpec => []ReconnectIsNotOverdue)
BY ImplementsMonitor, ForcedNotTooLate
=============================================================================
