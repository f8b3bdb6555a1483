---------------------------- MODULE RunOnceProofs ----------------------------
(***************************************************************************)
(* What the pid file achieves on every platform, for every number of       *)
(* launchers, and every refresh that is early enough for its duration even *)
(* when it comes late.                                                     *)
(***************************************************************************)
EXTENDS RunOnce, TLAPS

(* Type correctness of RunOnce.                                            *)
THEOREM TypeCorrect == Spec => []TypeOK
<1>1. Init => TypeOK
  <2> SUFFICES ASSUME Init PROVE TypeOK
    OBVIOUS
  <2>1. now \in Nat /\ touched \in Int /\ left \in Int
    BY TimeAssumption DEF Init
  <2>2. platform \in Platforms /\ pidFile \in Launchers \cup {Absent, Empty} /\ together \in BOOLEAN
    BY DEF Init
  <2>3. /\ pc \in [Launchers -> {"new", "running", "closing"} \cup Starting \cup Gone]
        /\ pid \in [Launchers -> Launchers \cup {Absent, Empty}]
        /\ keeper \in [Launchers -> {"none", "checking", "touching", "asleep", "ended"}]
        /\ wake \in [Launchers -> Nat]
    BY DEF Init
  <2> QED
    BY <2>1, <2>2, <2>3 DEF TypeOK
<1>2. TypeOK /\ [Next]_vars => TypeOK'
  <2> SUFFICES ASSUME TypeOK, [Next]_vars PROVE TypeOK'
    OBVIOUS
  <2>h. together' \in BOOLEAN /\ left' \in Int
    <3>1. CASE Recorded
      <4>1. together' \in BOOLEAN
        BY <3>1 DEF Recorded
      <4>2. left' \in {now, left}
        BY <3>1 DEF Recorded
      <4> QED
        BY <4>1, <4>2 DEF TypeOK
    <3>2. CASE UNCHANGED vars
      BY <3>2 DEF vars, TypeOK
    <3> QED
      BY <3>1, <3>2 DEF Next
  <2> USE <2>h, TimeAssumption DEF TypeOK, Go, Forgets, Starting, Gone
  <2>1. CASE Tick
    BY <2>1 DEF Tick
  <2>2. ASSUME NEW l \in Launchers, LauncherStep(l) PROVE TypeOK'
    <3>1. CASE Start(l)
      BY <3>1 DEF Start
    <3>2. CASE Reads(l)
      BY <3>2 DEF Reads
    <3>3. CASE Stats(l)
      BY <3>3 DEF Stats
    <3>4. CASE Probes(l)
      BY <3>4 DEF Probes
    <3>5. CASE Truncates(l)
      BY <3>5 DEF Truncates
    <3>6. CASE Writes(l)
      BY <3>6 DEF Writes
    <3>7. CASE KeeperChecks(l)
      BY <3>7 DEF KeeperChecks
    <3>8. CASE KeeperTouches(l)
      BY <3>8 DEF KeeperTouches
    <3>9. CASE KeeperWakes(l)
      BY <3>9 DEF KeeperWakes
    <3>10. CASE Closes(l)
      BY <3>10 DEF Closes
    <3>11. CASE Exits(l)
      BY <3>11 DEF Exits
    <3>12. CASE Crashes(l)
      BY <3>12 DEF Crashes
    <3> QED
      BY <2>2, <3>1, <3>2, <3>3, <3>4, <3>5, <3>6, <3>7, <3>8, <3>9, <3>10, <3>11, <3>12
      DEF LauncherStep
  <2>3. CASE UNCHANGED vars
    BY <2>3 DEF vars, program
  <2> QED
    BY <2>1, <2>2, <2>3 DEF Next, Step
<1> QED
  BY <1>1, <1>2, PTL DEF Spec

-----------------------------------------------------------------------------
(* Since the last launcher that had opened the file went, nobody but one   *)
(* that has opened it and is still there has touched it; and who asks for  *)
(* a process has found a fresh file.                                       *)
TimeInv ==
    /\ touched <= now
    /\ touched > left => \E k \in Launchers : pc[k] \in Owning
    /\ \A l \in Launchers : pc[l] = "probing" /\ pid[l] \in Launchers => Fresh

(* The times are touched in order on every platform.                       *)
LEMMA TimeInductive == Spec => [](TypeOK /\ TimeInv)
<1>1. Init => TimeInv
  BY TimeAssumption DEF Init, TimeInv
<1>2. TypeOK /\ TypeOK' /\ TimeInv /\ [Next]_vars => TimeInv'
  <2> SUFFICES ASSUME TypeOK, TypeOK', TimeInv, [Next]_vars PROVE TimeInv'
    OBVIOUS
  <2> USE FileAssumption, TimeAssumption DEF TimeInv, Fresh
  <2>1. CASE Tick /\ Recorded
    <3>1. /\ UNCHANGED <<touched, pc, pid>> /\ now' = now + 1
          /\ \A l \in Launchers : pc[l] # "probing"
      BY <2>1 DEF Tick, Starting
    <3>2. left' = left
      BY <2>1, <3>1 DEF Recorded, Owning, Gone
    <3> QED
      BY <3>1, <3>2 DEF TypeOK
  <2>2. ASSUME NEW l \in Launchers, LauncherStep(l), Recorded PROVE TimeInv'
    <3>1. /\ now' = now
          /\ touched' \in {touched, now}
          /\ \A k \in Launchers : k # l => pc'[k] = pc[k] /\ pid'[k] = pid[k]
      BY <2>2 DEF LauncherStep, Start, Reads, Stats, Probes, Truncates, Writes, KeeperChecks,
         KeeperTouches, KeeperWakes, Closes, Exits, Crashes, Go, Forgets, TypeOK
    <3>2. left' = IF pc[l] \in Owning /\ pc'[l] \in Gone THEN now ELSE left
      BY <2>2, <3>1 DEF Recorded, Owning, Gone
    <3>3. touched' # touched => pc'[l] \in Owning
      BY <2>2 DEF LauncherStep, Start, Reads, Stats, Probes, Truncates, Writes, KeeperChecks,
         KeeperTouches, KeeperWakes, Closes, Exits, Crashes, Go, Up, Owning, TypeOK
    <3>4. pc[l] \in Owning => pc'[l] \in Owning \cup Gone
      BY <2>2 DEF LauncherStep, Start, Reads, Stats, Probes, Truncates, Writes, KeeperChecks,
         KeeperTouches, KeeperWakes, Closes, Exits, Crashes, Go, Owning, Gone, TypeOK
    <3>5. pc'[l] = "probing" /\ pid'[l] \in Launchers => Fresh
      BY <2>2 DEF LauncherStep, Start, Reads, Stats, Probes, Truncates, Writes, KeeperChecks,
         KeeperTouches, KeeperWakes, Closes, Exits, Crashes, Go, Up, TypeOK
    <3>6. touched <= touched' /\ touched' <= now' /\ (Fresh => Fresh')
      BY <3>1 DEF TypeOK
    <3>7. touched' > left' => \E k \in Launchers : pc'[k] \in Owning
      <4> SUFFICES ASSUME touched' > left' PROVE \E k \in Launchers : pc'[k] \in Owning
        OBVIOUS
      <4>1. CASE touched' # touched
        BY <3>3, <4>1
      <4>2. CASE touched' = touched /\ pc[l] \in Owning /\ pc'[l] \in Gone
        BY <3>2, <4>2 DEF TypeOK
      <4>3. CASE touched' = touched /\ ~(pc[l] \in Owning /\ pc'[l] \in Gone)
        <5>1. PICK k \in Launchers : pc[k] \in Owning
          BY <3>2, <4>3 DEF TypeOK
        <5> QED
          BY <3>1, <3>4, <4>3, <5>1
      <4> QED
        BY <4>1, <4>2, <4>3
    <3>8. \A k \in Launchers : pc'[k] = "probing" /\ pid'[k] \in Launchers => Fresh'
      BY <3>1, <3>5, <3>6
    <3> QED
      BY <3>6, <3>7, <3>8
  <2>3. CASE UNCHANGED vars
    BY <2>3 DEF vars, program
  <2> QED
    BY <2>1, <2>2, <2>3 DEF Next, Step
<1> QED
  BY <1>1, <1>2, TypeCorrect, PTL DEF Spec

(* On Windows nobody is refused on account of a launcher that went long    *)
(* ago, even if its pid is in use again, for nobody has touched the file   *)
(* since (runonce.go:66-72).                                               *)
THEOREM RefusalsAreJustified == Spec => RefusedOnlyWhileRunning
<1> DEFINE Justified == platform = "windows" =>
              \A l \in Launchers : pc[l] # "refused" /\ pc'[l] = "refused" =>
                 (\E other \in Launchers \ {l} : Present(other)) \/ now < left + StaleAfter
<1>1. TypeOK /\ TimeInv /\ [Next]_vars => [Justified]_vars
  <2> SUFFICES ASSUME TypeOK, TimeInv, Next, platform = "windows", NEW l \in Launchers,
                      pc[l] # "refused", pc'[l] = "refused"
               PROVE  (\E other \in Launchers \ {l} : Present(other)) \/ now < left + StaleAfter
    BY DEF vars
  <2>1. Probes(l)
    BY DEF Next, Step, Tick, LauncherStep, Start, Reads, Stats, Probes, Truncates, Writes,
           KeeperChecks, KeeperTouches, KeeperWakes, Closes, Exits, Crashes, Go, TypeOK
  <2>2. pc[l] = "probing" /\ TRUE \in IsProcessExisting(pid[l])
    BY <2>1 DEF Probes, Go, TypeOK
  <2>3. pid[l] \in Launchers
    BY <2>2 DEF IsProcessExisting
  <2>4. Fresh
    BY <2>2, <2>3 DEF TimeInv
  <2>5. CASE touched > left
    <3>1. PICK k \in Launchers : pc[k] \in Owning
      BY <2>5 DEF TimeInv
    <3> QED
      BY <2>2, <3>1 DEF Owning, Gone, Present
  <2>6. CASE touched <= left
    BY <2>4, <2>6, TimeAssumption DEF Fresh, TypeOK
  <2> QED
    BY <2>5, <2>6 DEF TypeOK
<1> QED
  BY <1>1, TimeInductive, PTL DEF Spec, RefusedOnlyWhileRunning

-----------------------------------------------------------------------------
OneStarter ==
    \A a, b \in Launchers : pc[a] \in Starting /\ pc[b] \in Starting => a = b

(* What a running launcher guarantees: its pid is in a file that its keeper*)
(* will touch before UpdateRate and Lateness have passed since the last    *)
(* touch.                                                                  *)
KeptAlive(a) ==
    /\ pidFile = a
    /\ keeper[a] \in {"checking", "touching", "asleep"}
    /\ wake[a] <= touched + UpdateRate
    /\ now <= wake[a] + Lateness

(* What it makes of the launchers that start: all are on their way to see  *)
(* its pid.                                                                *)
Bars(a) ==
    \A l \in Launchers : /\ pc[l] \notin {"truncating", "writing"}
                         /\ pc[l] \in {"stating", "probing"} => pid[l] = a

(* What holds where the file can be written and nobody started together.   *)
Alone ==
    /\ OneStarter
    /\ AtMostOneRunning
    /\ \A a \in Launchers : pc[a] = "running" => KeptAlive(a) /\ Bars(a)
    /\ \A l \in Launchers : pc[l] = "writing" => pidFile = Empty

ExclusionInv == Permitted /\ ~together => Alone

(* A file that is kept alive is fresh.                                     *)
LEMMA KeptAliveIsFresh ==
    ASSUME TypeOK, NEW a \in Launchers, KeptAlive(a) PROVE Fresh
BY TimeAssumption DEF TypeOK, KeptAlive, Fresh

(* Ticks wait for a keeper that has to touch the file.                     *)
LEMMA TickKeeps ==
    ASSUME TypeOK, Alone, Tick PROVE Alone'
<1> USE DEF Alone, Tick, TypeOK
<1>1. OneStarter' /\ AtMostOneRunning'
  BY DEF OneStarter, AtMostOneRunning
<1>2. ASSUME NEW a \in Launchers, pc'[a] = "running" PROVE KeptAlive(a)' /\ Bars(a)'
  <2>1. KeptAlive(a) /\ Bars(a) /\ pc[a] = "running"
    BY <1>2
  <2>2. now < wake[a] + Lateness
    BY <2>1 DEF KeptAlive, Up
  <2> QED
    BY <2>1, <2>2, TimeAssumption DEF KeptAlive, Bars
<1> QED
  BY <1>1, <1>2

(* The steps of a launcher that starts.                                    *)
LEMMA StartersKeep ==
    ASSUME Permitted, TypeOK, Alone, OneStarter', NEW l \in Launchers,
           Start(l) \/ Reads(l) \/ Stats(l) \/ Probes(l) \/ Truncates(l) \/ Writes(l)
    PROVE  Alone'
<1> USE FileAssumption DEF Go, Forgets
<1>1. \A k \in Launchers : k # l => pc'[k] = pc[k] /\ pid'[k] = pid[k] /\ wake'[k] = wake[k]
                                    /\ keeper'[k] = keeper[k]
  BY DEF Start, Reads, Stats, Probes, Truncates, Writes, TypeOK
<1>4. CASE Writes(l)
  <2>1. /\ pc[l] = "writing" /\ pc'[l] = "running"
        /\ pidFile = Empty /\ pidFile' = l /\ touched' = now /\ now' = now
        /\ keeper'[l] = "checking" /\ wake'[l] = now
    BY <1>4 DEF Writes, Alone, TypeOK
  <2>2. \A k \in Launchers : pc[k] # "running"
    BY <2>1 DEF Alone, Bars
  <2>3. \A k \in Launchers : pc[k] \in Starting => k = l
    BY <2>1 DEF Alone, OneStarter, Starting
  <2>4. \A k \in Launchers : pc'[k] \notin {"truncating", "writing", "stating", "probing"}
    BY <1>1, <2>1, <2>3 DEF Starting
  <2>5. AtMostOneRunning'
    BY <1>1, <2>2 DEF AtMostOneRunning
  <2>6. KeptAlive(l)' /\ Bars(l)'
    BY <2>1, <2>4, TimeAssumption DEF KeptAlive, Bars, TypeOK
  <2> QED
    BY <1>1, <2>2, <2>4, <2>5, <2>6 DEF Alone
<1>5. CASE Truncates(l)
  <2>1. /\ pc[l] = "truncating" /\ pc'[l] = "writing" /\ pidFile' = Empty
    BY <1>5 DEF Truncates, TypeOK
  <2>2. \A k \in Launchers : pc'[k] # "running"
    BY <1>1, <2>1 DEF Alone, Bars
  <2> QED
    BY <1>1, <2>1, <2>2 DEF Alone, AtMostOneRunning
<1>6. CASE Start(l) \/ Reads(l) \/ Stats(l) \/ Probes(l)
  <2>1. /\ UNCHANGED <<now, pidFile, touched>>
        /\ pc'[l] \notin {"running", "writing"}
    BY <1>6 DEF Start, Reads, Stats, Probes, TypeOK
  <2>2. AtMostOneRunning'
    BY <1>1, <2>1 DEF AtMostOneRunning, Alone
  <2>3. ASSUME NEW a \in Launchers, pc'[a] = "running"
        PROVE  pc'[l] # "truncating" /\ (pc'[l] \in {"stating", "probing"} => pid'[l] = a)
    <3>1. pc[a] = "running" /\ KeptAlive(a) /\ Bars(a) /\ Fresh /\ a # l
      BY <1>1, <2>1, <2>3, KeptAliveIsFresh DEF Alone
    <3>2. CASE Start(l)
      BY <3>2 DEF Start, TypeOK
    <3>3. CASE Reads(l)
      BY <3>1, <3>3 DEF Reads, KeptAlive, TypeOK
    <3>4. CASE Stats(l)
      BY <3>1, <3>4 DEF Stats, KeptAlive, Bars, TypeOK
    <3>5. CASE Probes(l)
      <4>1. pc[l] = "probing" /\ pid[l] = a /\ Present(a)
        BY <3>1, <3>5 DEF Probes, Bars, Present, Gone
      <4>2. IsProcessExisting(pid[l]) = {TRUE}
        BY <4>1 DEF IsProcessExisting
      <4> QED
        BY <3>5, <4>2 DEF Probes, TypeOK
    <3> QED
      BY <1>6, <3>2, <3>3, <3>4, <3>5
  <2>4. ASSUME NEW a \in Launchers, pc'[a] = "running" PROVE KeptAlive(a)' /\ Bars(a)'
    <3>1. KeptAlive(a) /\ Bars(a)
      BY <1>1, <2>1, <2>4 DEF Alone
    <3>2. KeptAlive(a)'
      BY <1>1, <2>1, <2>4, <3>1 DEF KeptAlive
    <3>3. Bars(a)'
      BY <1>1, <2>1, <2>3, <2>4, <3>1 DEF Bars
    <3> QED
      BY <3>2, <3>3
  <2>5. \A k \in Launchers : pc'[k] = "writing" => pidFile' = Empty
    BY <1>1, <2>1 DEF Alone
  <2> QED
    BY <2>2, <2>4, <2>5 DEF Alone
<1> QED
  BY <1>4, <1>5, <1>6

(* The steps of the keepers, that of a launcher which is closing included. *)
LEMMA KeepersKeep ==
    ASSUME TypeOK, TimeInv, Alone, NEW l \in Launchers,
           KeeperChecks(l) \/ KeeperTouches(l) \/ KeeperWakes(l)
    PROVE  Alone'
<1>1. /\ UNCHANGED <<now, pidFile, pc, pid>>
      /\ \A k \in Launchers : k # l => keeper'[k] = keeper[k] /\ wake'[k] = wake[k]
  BY DEF KeeperChecks, KeeperTouches, KeeperWakes, TypeOK
<1>2. touched' \in Int /\ touched <= touched'
  BY <1>1 DEF KeeperChecks, KeeperTouches, KeeperWakes, TypeOK, TimeInv
<1>3. OneStarter' /\ AtMostOneRunning'
  BY <1>1 DEF Alone, OneStarter, AtMostOneRunning
<1>t. /\ now \in Nat /\ touched \in Int /\ UpdateRate \in Nat /\ Lateness \in Nat
      /\ \A k \in Launchers : wake[k] \in Nat
  BY TimeAssumption DEF TypeOK
<1>4. ASSUME NEW a \in Launchers, pc'[a] = "running" PROVE KeptAlive(a)' /\ Bars(a)'
  <2>1. KeptAlive(a) /\ Bars(a)
    BY <1>1, <1>4 DEF Alone
  <2>2. Bars(a)'
    BY <1>1, <2>1 DEF Bars
  <2>3. pidFile' = a /\ keeper[a] \in {"checking", "touching", "asleep"}
    BY <1>1, <2>1 DEF KeptAlive
  <2>4. wake[a] <= touched' + UpdateRate /\ now <= wake[a] + Lateness
    BY <1>2, <1>t, <2>1 DEF KeptAlive
  <2>5. CASE a # l
    BY <1>1, <2>2, <2>3, <2>4, <2>5 DEF KeptAlive
  <2>6. CASE a = l /\ KeeperTouches(l)
    <3>1. keeper'[a] = "asleep" /\ touched' = now /\ wake'[a] = now + UpdateRate /\ now' = now
      BY <2>1, <2>6, FileAssumption DEF KeeperTouches, KeptAlive, TypeOK
    <3> QED
      BY <2>2, <2>3, <3>1, <1>t DEF KeptAlive
  <2>7. CASE a = l /\ (KeeperChecks(l) \/ KeeperWakes(l))
    <3>1. keeper'[a] \in {"checking", "touching"} /\ wake'[a] = wake[a] /\ now' = now
      BY <2>1, <2>7, FileAssumption DEF KeeperChecks, KeeperWakes, KeptAlive, TypeOK
    <3> QED
      BY <2>2, <2>3, <2>4, <3>1 DEF KeptAlive
  <2> QED
    BY <2>5, <2>6, <2>7
<1>5. \A k \in Launchers : pc'[k] = "writing" => pidFile' = Empty
  BY <1>1 DEF Alone
<1> QED
  BY <1>3, <1>4, <1>5 DEF Alone

(* The end of a launcher, orderly or not.                                  *)
LEMMA EndsKeep ==
    ASSUME TypeOK, Alone, NEW l \in Launchers, Closes(l) \/ Exits(l) \/ Crashes(l)
    PROVE  Alone'
<1>1. /\ UNCHANGED <<now, touched>>
      /\ pc'[l] \in {"closing", "exited", "crashed"}
      /\ \A k \in Launchers : k # l => /\ pc'[k] = pc[k] /\ pid'[k] = pid[k]
                                        /\ keeper'[k] = keeper[k] /\ wake'[k] = wake[k]
  BY DEF Closes, Exits, Crashes, Go, Forgets, TypeOK
<1>2. OneStarter' /\ AtMostOneRunning'
  BY <1>1 DEF Alone, OneStarter, AtMostOneRunning, Starting
<1>3. CASE Closes(l)
  <2>1. pc[l] = "running"
    BY <1>3 DEF Closes, Go
  <2>2. \A k \in Launchers : pc'[k] \notin {"running", "writing"}
    BY <1>1, <2>1 DEF Alone, AtMostOneRunning, Bars
  <2> QED
    BY <1>2, <2>2 DEF Alone
<1>4. CASE Exits(l) \/ Crashes(l)
  <2>1. UNCHANGED pidFile
    BY <1>4 DEF Exits, Crashes
  <2>2. ASSUME NEW a \in Launchers, pc'[a] = "running" PROVE KeptAlive(a)' /\ Bars(a)'
    <3>1. KeptAlive(a) /\ Bars(a)
      BY <1>1, <2>2 DEF Alone
    <3>2. a # l
      BY <1>1, <2>2
    <3>3. KeptAlive(a)'
      BY <1>1, <2>1, <2>2, <3>1, <3>2 DEF KeptAlive
    <3>4. Bars(a)'
      BY <1>1, <3>1 DEF Bars
    <3> QED
      BY <3>3, <3>4
  <2>3. \A k \in Launchers : pc'[k] = "writing" => pidFile' = Empty
    BY <1>1, <2>1 DEF Alone
  <2> QED
    BY <1>2, <2>2, <2>3 DEF Alone
<1> QED
  BY <1>3, <1>4

(* The invariant on which the exclusion rests. While nobody is there it    *)
(* holds by itself, so that `together` may be forgotten then.              *)
LEMMA ExclusionInductive == Spec => [](TypeOK /\ ExclusionInv)
<1>1. Init => ExclusionInv
  BY DEF Init, ExclusionInv, Alone, OneStarter, AtMostOneRunning, Starting
<1>2. TypeOK /\ TimeInv /\ ExclusionInv /\ [Next]_vars => ExclusionInv'
  <2> SUFFICES ASSUME TypeOK, TimeInv, ExclusionInv, [Next]_vars, (Permitted /\ ~together)'
               PROVE  Alone'
    BY DEF ExclusionInv
  <2>1. CASE UNCHANGED vars
    BY <2>1 DEF vars, program, ExclusionInv, Alone, OneStarter, AtMostOneRunning, KeptAlive, Bars,
       Permitted
  <2>2. CASE Next /\ ~\E l \in Launchers : Present(l)'
    BY <2>2 DEF Alone, OneStarter, AtMostOneRunning, Present, Gone, Starting
  <2>3. CASE Next /\ \E l \in Launchers : Present(l)'
    <3>1. ~together /\ OneStarter'
      BY <2>3 DEF Next, Recorded, OneStarter
    <3>2. Permitted
      BY <2>3 DEF Next, Step, Tick, LauncherStep, Start, Reads, Stats, Probes, Truncates, Writes,
         KeeperChecks, KeeperTouches, KeeperWakes, Closes, Exits, Crashes, Permitted
    <3>3. Alone
      BY <3>1, <3>2 DEF ExclusionInv
    <3>4. CASE Tick
      BY <3>3, <3>4, TickKeeps
    <3>5. ASSUME NEW l \in Launchers, LauncherStep(l) PROVE Alone'
      BY <3>1, <3>2, <3>3, <3>5, StartersKeep, KeepersKeep, EndsKeep DEF LauncherStep
    <3> QED
      BY <2>3, <3>4, <3>5 DEF Next, Step
  <2> QED
    BY <2>1, <2>2, <2>3
<1> QED
  BY <1>1, <1>2, TimeInductive, PTL DEF Spec

(* One launcher per directory (runonce.go:20), whatever crashed before and *)
(* whoever is late, unless launchers were started at the same time.        *)
THEOREM Exclusion == Spec => []OneUnlessTogether
<1>1. ExclusionInv => OneUnlessTogether
  BY DEF ExclusionInv, Alone, OneUnlessTogether
<1> QED
  BY <1>1, ExclusionInductive, PTL

(* A running launcher can be seen at every moment: the refresh never comes *)
(* too late (runonce.go:17-18, 43-54).                                     *)
THEOREM Visibility == Spec => []RunningIsVisible
<1>1. TypeOK /\ ExclusionInv => RunningIsVisible
  BY KeptAliveIsFresh DEF ExclusionInv, Alone, RunningIsVisible, KeptAlive
<1> QED
  BY <1>1, ExclusionInductive, PTL
=============================================================================
