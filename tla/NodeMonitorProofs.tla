-------------------------- MODULE NodeMonitorProofs --------------------------
(***************************************************************************)
(* What holds of NodeMonitor for every threshold and every integer width.  *)
(***************************************************************************)
EXTENDS NodeMonitor, TLAPS

(* The int16 arithmetic never leaves its type, whatever the threshold.     *)
LEMMA WrappedIsInt16 == \A n \in Int : Wrapped(n) \in Int16
<1> SUFFICES ASSUME NEW n \in Int PROVE Wrapped(n) \in Int16
  OBVIOUS
<1> DEFINE d == 2 * (MaxInt + 1)
           m == (n + MaxInt + 1) % d
<1>1. d \in Nat /\ d > 0
  BY IntAssumption
<1>2. m \in 0..(d - 1)
  <2>1. \A a \in Int, b \in Nat : b > 0 => a % b \in 0..(b - 1)
    OBVIOUS
  <2> QED
    BY <1>1, <2>1, IntAssumption
<1>3. m - MaxInt - 1 \in Int16
  <2> HIDE DEF m
  <2> QED
    BY <1>2, IntAssumption DEF Int16
<1> QED
  BY <1>3 DEF Wrapped

-----------------------------------------------------------------------------
(* Type correctness, for sensible thresholds and for the others.           *)
THEOREM TypeCorrect == Spec => []TypeOK
<1>1. Init => TypeOK
  <2> SUFFICES ASSUME Init PROVE TypeOK
    OBVIOUS
  <2>1. offlineCount \in Int16 /\ streak \in Nat /\ unforced \in Nat
    BY IntAssumption DEF Init, Int16
  <2>2. nodeIsIdle \in BOOLEAN
    BY DEF Init
  <2> QED
    BY <2>1, <2>2, Zenon DEF Init, TypeOK, Views, Status
<1>2. TypeOK /\ [Next]_vars => TypeOK'
  <2> SUFFICES ASSUME TypeOK, [Next]_vars PROVE TypeOK'
    OBVIOUS
  <2> USE DEF TypeOK, MonitorAt
  <2>1. CASE ModeMoves
    BY <2>1 DEF ModeMoves
  <2>2. CASE JenkinsMoves
    BY <2>2 DEF JenkinsMoves
  <2>3. CASE TicksConnected
    BY <2>3 DEF TicksConnected
  <2>4. CASE TicksDisconnected
    BY <2>4, IntAssumption DEF TicksDisconnected, Int16
  <2>5. CASE IsAnswered
    BY <2>5 DEF IsAnswered
  <2>6. CASE SeesOnline
    BY <2>6, IntAssumption DEF SeesOnline, Int16, Views
  <2>7. CASE SeesOffline
    <3>1. offlineCount + 1 \in Int
      BY DEF Int16
    <3>2. Counted \in Int16
      BY <3>1, WrappedIsInt16 DEF Counted
    <3>3. Clipped(Counted) \in Int16
      BY <3>2, ThresholdAssumption DEF Clipped, Int16
    <3> QED
      BY <2>7, <3>3 DEF SeesOffline, Views
  <2>8. CASE Forces
    BY <2>8 DEF Forces
  <2>9. CASE StopChecks
    BY <2>9 DEF StopChecks
  <2>10. CASE StopSets
    BY <2>10 DEF StopSets, Status
  <2>11. CASE UNCHANGED vars
    BY <2>11 DEF vars
  <2> QED
    BY <2>1, <2>2, <2>3, <2>4, <2>5, <2>6, <2>7, <2>8, <2>9, <2>10, <2>11
    DEF Next, MonitorStep
<1> QED
  BY <1>1, <1>2, PTL DEF Spec

-----------------------------------------------------------------------------
(* The count is bounded by the history it stands for, and tells how long   *)
(* ago a reconnect was forced.                                             *)
CountInv ==
    /\ offlineCount \in 0..(3 * MaxOffline)
    /\ offlineCount <= streak
    /\ monitor = "forcing" => offlineCount = MaxOffline
    /\ unforced = IF offlineCount < MaxOffline THEN offlineCount ELSE offlineCount - MaxOffline

(* For a sensible threshold the arithmetic of the count is exact.          *)
LEMMA NoOverflow ==
    ASSUME SensibleThreshold, offlineCount \in 0..(3 * MaxOffline)
    PROVE  Clipped(Counted) = IF answer # "offline" THEN offlineCount
                              ELSE IF offlineCount = 3 * MaxOffline THEN MaxOffline
                              ELSE offlineCount + 1
<1>1. MaxOffline \in Int /\ MaxInt \in Nat
  BY IntAssumption, ThresholdAssumption DEF Int16
<1>2. Wrapped(3 * MaxOffline) = 3 * MaxOffline
  BY <1>1 DEF Wrapped, Int16, SensibleThreshold
<1>3. offlineCount + 1 \in Int16
  BY <1>1 DEF Int16, SensibleThreshold
<1>4. Wrapped(offlineCount + 1) = offlineCount + 1
  BY <1>3 DEF Wrapped
<1>5. CASE answer = "offline"
  BY <1>1, <1>2, <1>4, <1>5 DEF Clipped, Counted
<1>6. CASE answer # "offline"
  BY <1>1, <1>2, <1>6 DEF Clipped, Counted
<1> QED
  BY <1>5, <1>6

(* The inductive step of the whole development.                            *)
LEMMA CountInductive ==
    ASSUME SensibleThreshold
    PROVE  Spec => [](TypeOK /\ CountInv)
<1>0. MaxOffline \in Nat /\ MaxOffline >= 1 /\ MaxInt \in Nat
  BY IntAssumption, ThresholdAssumption DEF SensibleThreshold, Int16
<1>1. Init => CountInv
  BY <1>0 DEF Init, CountInv
<1>2. TypeOK /\ CountInv /\ [Next]_vars => CountInv'
  <2> SUFFICES ASSUME TypeOK, CountInv, [Next]_vars PROVE CountInv'
    OBVIOUS
  <2> USE <1>0 DEF MonitorAt
  <2>1. CASE UNCHANGED <<offlineCount, streak, unforced>> /\ (monitor' = "forcing" => monitor = "forcing")
    BY <2>1 DEF CountInv
  <2>2. CASE TicksDisconnected \/ SeesOnline
    BY <2>2 DEF CountInv, TicksDisconnected, SeesOnline
  <2>3. CASE SeesOffline
    <3>1. offlineCount' = IF answer # "offline" THEN offlineCount
                          ELSE IF offlineCount = 3 * MaxOffline THEN MaxOffline
                          ELSE offlineCount + 1
      BY <2>3, NoOverflow DEF CountInv, SeesOffline
    <3>2. /\ streak' = IF answer = "offline" /\ streak < 3 * MaxOffline
                       THEN streak + 1 ELSE streak
          /\ streak \in Nat
      BY <2>3 DEF SeesOffline, TypeOK
    <3>3. offlineCount' \in 0..(3 * MaxOffline) /\ offlineCount' <= streak'
      BY <3>1, <3>2 DEF CountInv
    <3>4. /\ monitor' = "forcing" <=> offlineCount' = MaxOffline
          /\ unforced' = IF monitor' = "forcing" THEN 0
                         ELSE IF answer = "offline" THEN unforced + 1 ELSE unforced
      BY <2>3 DEF SeesOffline
    <3>5. unforced' = IF offlineCount' < MaxOffline THEN offlineCount'
                      ELSE offlineCount' - MaxOffline
      <4>1. CASE offlineCount' = MaxOffline
        BY <3>4, <4>1
      <4>2. CASE offlineCount' # MaxOffline
        BY <3>1, <3>4, <4>2 DEF CountInv
      <4> QED
        BY <4>1, <4>2
    <3> QED
      BY <3>3, <3>4, <3>5 DEF CountInv
  <2>4. CASE ModeMoves \/ JenkinsMoves
    BY <2>1, <2>4 DEF ModeMoves, JenkinsMoves
  <2>5. CASE TicksConnected \/ IsAnswered \/ Forces \/ StopChecks \/ StopSets
    BY <2>1, <2>5 DEF TicksConnected, IsAnswered, Forces, StopChecks, StopSets
  <2>6. CASE UNCHANGED vars
    BY <2>1, <2>6 DEF vars
  <2> QED
    BY <2>2, <2>3, <2>4, <2>5, <2>6 DEF Next, MonitorStep
<1> QED
  BY <1>1, <1>2, TypeCorrect, PTL DEF Spec

(* No client is stopped for being offline in Jenkins before MaxOffline     *)
(* results said so (monitor.go:21, 107-113), for every sensible threshold. *)
THEOREM ForcedNotTooEarly == SensibleThreshold => (Spec => []ForcedOnlyAfterMaxOffline)
<1> SUFFICES ASSUME SensibleThreshold PROVE Spec => []ForcedOnlyAfterMaxOffline
  OBVIOUS
<1>1. TypeOK /\ CountInv => ForcedOnlyAfterMaxOffline
  BY ThresholdAssumption, IntAssumption DEF TypeOK, CountInv, ForcedOnlyAfterMaxOffline, Int16
<1> QED
  BY <1>1, CountInductive, PTL

(* A node that stays offline after a forced reconnect is reconnected again *)
(* within 2 * MaxOffline + 1 results (monitor.go:107-109).                 *)
THEOREM ForcedNotTooLate == SensibleThreshold => (Spec => []ReconnectIsNotOverdue)
<1> SUFFICES ASSUME SensibleThreshold PROVE Spec => []ReconnectIsNotOverdue
  OBVIOUS
<1>1. CountInv => ReconnectIsNotOverdue
  BY ThresholdAssumption, IntAssumption DEF CountInv, ReconnectIsNotOverdue, Int16
<1> QED
  BY <1>1, CountInductive, PTL
=============================================================================
