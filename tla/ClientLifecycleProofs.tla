------------------------ MODULE ClientLifecycleProofs ------------------------
(***************************************************************************)
(* Theorems about ClientLifecycle for every number of runs, interrupts and *)
(* callers of Stop().                                                      *)
(***************************************************************************)
EXTENDS ClientLifecycle, SequenceTheorems, TLAPS

(* A step, without the guard Alive, by the goroutine that takes it. *)
LEMMA NextCases ==
    ASSUME Next
    PROVE  \/ MainStep
           \/ Interrupt
           \/ \E r \in Runs : WatcherStep(r)
           \/ \E r \in Runs : ExecutorStep(r) \/ CommandStep(r) \/ KillerKills(r) \/ JvmExits(r)
           \/ \E s \in Stoppers : StopChecks(s) \/ StopSets(s)
BY DEF Next, Step

-----------------------------------------------------------------------------
(* Type correctness.                                                       *)

(* RunConfiguredMode starts with well-typed state.                         *)
LEMMA TypeOKInit == Init => TypeOK
<1> SUFFICES ASSUME Init PROVE TypeOK
    OBVIOUS
<1>1. exitRequested \in [Runs -> Seq(BOOLEAN)]
  <2>1. <<>> \in Seq(BOOLEAN)
        OBVIOUS
  <2> QED BY <2>1 DEF Init
<1>2. stopper \in [Stoppers -> {"idle", "setting"}]
      BY DEF Init
<1>3. /\ status \in Status /\ mainPc \in MainPc /\ run \in Runs
      /\ interrupts \in 0..MaxInterrupts /\ jnlpFile \in 0..MaxRuns
      BY BoundsAssumption DEF Init, Status, MainPc, Runs
<1>5. exitFlag \in BOOLEAN
      BY DEF Init
<1>4. /\ signals \in [Runs -> 0..1]
      /\ watcher \in [Runs -> {"none", "waiting", "requesting", "checking", "setting", "done"}]
      /\ executor \in [Runs -> {"none", "launching", "announcing", "polling", "stopping",
                                "reaping", "ending", "removing", "done"}]
      /\ command \in [Runs -> {"none", "starting", "waiting", "reporting", "failed", "done"}]
      /\ killer \in [Runs -> {"none", "waiting", "killing", "done"}]
      /\ jvm \in [Runs -> {"none", "running", "dead"}]
      /\ jnlp \in [Runs -> {"none", "told", "failed"}]
      BY DEF Init
<1> QED BY <1>1, <1>2, <1>3, <1>4, <1>5 DEF TypeOK

(* No step of the main goroutine writes a value of the wrong type.         *)
LEMMA MainKeepsTypes == TypeOK /\ MainStep => TypeOK'
<1> SUFFICES ASSUME TypeOK, MainStep PROVE TypeOK'
    OBVIOUS
<1> USE BoundsAssumption DEF MainAt, mainVars, channelVars, clientVars, jnlpVars, TypeOK, MainPc,
                              Status, Runs
<1>1. CASE MainNotifiesStarting \/ MainChecksStart \/ MainSeesStopped \/ MainNotifiesStopped
      BY <1>1 DEF MainNotifiesStarting, MainChecksStart, MainSeesStopped, MainNotifiesStopped
<1>2. CASE MainSetsStarting
      BY <1>2 DEF MainSetsStarting
<1>3. CASE MainNotifiesStarted
      BY <1>3 DEF MainNotifiesStarted
<1>4. CASE MainSendsFalse
  <2>1. Append(exitRequested[run], FALSE) \in Seq(BOOLEAN)
        BY AppendProperties
  <2>2. exitRequested' \in [Runs -> Seq(BOOLEAN)]
        BY <1>4, <2>1 DEF MainSendsFalse
  <2>3. mainPc' = "sendInterrupt" /\ UNCHANGED <<status, run, exitFlag,
            interrupts, signals, watcher, clientVars, stopper>>
        BY <1>4 DEF MainSendsFalse
  <2> QED BY <2>2, <2>3
<1>5. CASE MainSendsInterrupt
      BY <1>5 DEF MainSendsInterrupt
<1>6. CASE MainReceivesFirst \/ MainReceivesSecond
  <2>1. exitRequested[run] # <<>>
        BY <1>6 DEF MainReceivesFirst, MainReceivesSecond
  <2>2. Head(exitRequested[run]) \in BOOLEAN /\ Tail(exitRequested[run]) \in Seq(BOOLEAN)
        BY <2>1, HeadTailProperties
  <2>3. exitFlag' \in BOOLEAN /\ exitRequested' \in [Runs -> Seq(BOOLEAN)]
        BY <1>6, <2>2 DEF MainReceivesFirst, MainReceivesSecond
  <2>4. mainPc' \in MainPc /\ UNCHANGED <<status, run, interrupts, signals,
            watcher, clientVars, stopper>>
        BY <1>6 DEF MainReceivesFirst, MainReceivesSecond
  <2> QED BY <2>3, <2>4
<1>7. CASE MainRestarts \/ MainWakes
      BY <1>7 DEF MainRestarts, MainWakes, Relaunches
<1>8. CASE MainSleeps
      BY <1>8 DEF MainSleeps
<1> QED BY <1>1, <1>2, <1>3, <1>4, <1>5, <1>6, <1>7, <1>8 DEF MainStep

(* A signal that the OS delivers keeps every buffer at most full.          *)
LEMMA InterruptKeepsTypes == TypeOK /\ Interrupt => TypeOK'
BY BoundsAssumption DEF Interrupt, mainVars, channelVars, clientVars, jnlpVars, TypeOK, MainPc, Notified

(* No step of a signal watcher writes a value of the wrong type.           *)
LEMMA WatcherKeepsTypes ==
    ASSUME TypeOK, NEW r \in Runs, WatcherStep(r) PROVE TypeOK'
<1> USE DEF WatcherAt, mainVars, channelVars, clientVars, jnlpVars, TypeOK, Status
<1>1. CASE WatcherReceives(r)     BY <1>1 DEF WatcherReceives
<1>2. CASE WatcherRequestsExit(r) BY <1>2 DEF WatcherRequestsExit
<1>3. CASE WatcherChecks(r)       BY <1>3 DEF WatcherChecks
<1>4. CASE WatcherSetsStopping(r) BY <1>4 DEF WatcherSetsStopping
<1> QED BY <1>1, <1>2, <1>3, <1>4 DEF WatcherStep

(* No step of the client or of the Java process does.                      *)
LEMMA ClientKeepsTypes ==
    ASSUME TypeOK, NEW r \in Runs,
           ExecutorStep(r) \/ CommandStep(r) \/ KillerKills(r) \/ JvmExits(r)
    PROVE  TypeOK'
<1> USE BoundsAssumption
        DEF ExecutorAt, CommandAt, mainVars, channelVars, clientVars, jnlpVars,
            TypeOK, Status, Runs
<1>1. CASE ExecutorLaunches(r)
  <2>1. /\ jnlpFile' \in {jnlpFile, r}
        /\ jnlp' \in {jnlp, [jnlp EXCEPT ![r] = "told"], [jnlp EXCEPT ![r] = "failed"]}
        BY <1>1 DEF ExecutorLaunches, WritesJnlpFile, FailsToWriteJnlpFile, NeedsNoJnlpFile
  <2>2. jnlpFile' \in 0..MaxRuns
        BY <2>1
  <2>4. jnlp' \in [Runs -> {"none", "told", "failed"}]
        BY <2>1
  <2>3. /\ executor' = [executor EXCEPT ![r] = "announcing"]
        /\ command' = [command EXCEPT ![r] = "starting"]
        /\ UNCHANGED <<status, mainVars, interrupts, channelVars, watcher, killer, jvm, stopper>>
        BY <1>1 DEF ExecutorLaunches
  <2> QED BY <2>2, <2>3, <2>4
<1>2. CASE ExecutorSetsStarted(r)   BY <1>2 DEF ExecutorSetsStarted
<1>3. CASE ExecutorSeesStop(r)      BY <1>3 DEF ExecutorSeesStop
<1>4. CASE ExecutorSignalsKiller(r) BY <1>4 DEF ExecutorSignalsKiller
<1>5. CASE ExecutorReaps(r)         BY <1>5 DEF ExecutorReaps
<1>6. CASE ExecutorSetsStopped(r)   BY <1>6 DEF ExecutorSetsStopped
<1>7. CASE ExecutorRemovesFile(r)   BY <1>7 DEF ExecutorRemovesFile
<1>8. CASE CommandStarts(r)         BY <1>8 DEF CommandStarts
<1>9. CASE CommandFails(r)          BY <1>9 DEF CommandFails
<1>10. CASE CommandReports(r)       BY <1>10 DEF CommandReports
<1>11. CASE KillerKills(r)          BY <1>11 DEF KillerKills
<1>12. CASE JvmExits(r)             BY <1>12 DEF JvmExits
<1> QED BY <1>1, <1>2, <1>3, <1>4, <1>5, <1>6, <1>7, <1>8, <1>9, <1>10, <1>11, <1>12
        DEF ExecutorStep, CommandStep

(* No step of a caller of Stop() writes a value of the wrong type.         *)
LEMMA StopperKeepsTypes ==
    ASSUME TypeOK, NEW s \in Stoppers, StopChecks(s) \/ StopSets(s)
    PROVE  TypeOK'
<1> USE DEF StopperAt, mainVars, channelVars, clientVars, jnlpVars, TypeOK, Status
<1>1. CASE StopChecks(s) BY <1>1 DEF StopChecks
<1>2. CASE StopSets(s)   BY <1>2 DEF StopSets
<1> QED BY <1>1, <1>2

(* Every variable keeps its type: the status is one of the five constants, *)
(* the channels stay within what mode.go:73 and mode.go:90 make, and every *)
(* goroutine is somewhere in its code.                                     *)
THEOREM TypeCorrect == Spec => []TypeOK
<1>1. TypeOK /\ [Next]_vars => TypeOK'
  <2> SUFFICES ASSUME TypeOK, [Next]_vars PROVE TypeOK'
      OBVIOUS
  <2>1. CASE UNCHANGED vars
        BY <2>1 DEF vars, program, mainVars, channelVars, clientVars, jnlpVars, TypeOK
  <2>2. CASE Next
        BY <2>2, NextCases, MainKeepsTypes, InterruptKeepsTypes, WatcherKeepsTypes,
           ClientKeepsTypes, StopperKeepsTypes
  <2> QED BY <2>1, <2>2
<1> QED BY TypeOKInit, <1>1, PTL DEF Spec

-----------------------------------------------------------------------------
(* The handshake of RunConfiguredMode.                                     *)

(* The goroutines of the client and the callers of Stop() do not touch it. *)
LEMMA ClientLeavesHandshake ==
    ASSUME NEW r \in Runs,
           ExecutorStep(r) \/ CommandStep(r) \/ KillerKills(r) \/ JvmExits(r)
    PROVE  UNCHANGED <<mainPc, run, exitFlag, interrupts, signals, exitRequested, watcher>>
<1> USE DEF mainVars, channelVars
<1>1. CASE ExecutorStep(r)
      BY <1>1 DEF ExecutorStep, ExecutorLaunches, ExecutorSetsStarted, ExecutorSeesStop,
                  ExecutorSignalsKiller, ExecutorReaps, ExecutorSetsStopped, ExecutorRemovesFile
<1>2. CASE CommandStep(r)
      BY <1>2 DEF CommandStep, CommandStarts, CommandFails, CommandReports
<1>3. CASE KillerKills(r) \/ JvmExits(r)
      BY <1>3 DEF KillerKills, JvmExits
<1> QED BY <1>1, <1>2, <1>3

(* Callers of Stop() write the status, which the handshake does not read.  *)
LEMMA StopperLeavesHandshake ==
    ASSUME NEW s \in Stoppers, StopChecks(s) \/ StopSets(s)
    PROVE  UNCHANGED <<mainPc, run, exitFlag, interrupts, signals, exitRequested, watcher>>
BY DEF StopChecks, StopSets, mainVars, channelVars

(* How many values were sent to and taken from the channel of run r. *)
Early  == {"notifyStarting", "startCheck", "startSet", "notifyStarted"}
Closed == {"notifyStopped", "restarting", "sleeping", "exited"}

MainSent(r) ==
    IF r < run \/ (r = run /\ mainPc \in Closed \cup {"sendInterrupt", "recvFirst", "recvSecond"})
    THEN 1 ELSE 0
Buffered(r) == Len(exitRequested[r])
WatcherSent(r) == IF watcher[r] \in {"checking", "setting", "done"} THEN 1 ELSE 0
Taken(r) == IF r < run \/ (r = run /\ mainPc \in Closed) THEN 2
            ELSE IF r = run /\ mainPc = "recvSecond" THEN 1 ELSE 0

(* The channel of every run holds what was sent and not yet taken, and the *)
(* watcher exists from the moment the main goroutine waits.                *)
HandshakeInv ==
    /\ \A r \in Runs : Buffered(r) = MainSent(r) + WatcherSent(r) - Taken(r)
    /\ \A r \in Runs : r > run \/ (r = run /\ mainPc \in Early) => watcher[r] = "none"
    /\ mainPc \notin Early \cup {"panicked", "killed"} => watcher[run] # "none"

(* Before the first run nothing was sent into any channel.                 *)
LEMMA HandshakeInit == Init => HandshakeInv
<1> SUFFICES ASSUME Init PROVE HandshakeInv
    OBVIOUS
<1>1. Len(<<>>) = 0
      OBVIOUS
<1>2. \A r \in Runs : exitRequested[r] = <<>> /\ watcher[r] = "none"
      BY DEF Init
<1>3. run = 1 /\ mainPc = "notifyStarting"
      BY DEF Init
<1>4. \A r \in Runs : Buffered(r) = 0
      BY <1>1, <1>2 DEF Buffered
<1>5. \A r \in Runs : MainSent(r) = 0 /\ WatcherSent(r) = 0 /\ Taken(r) = 0
      BY <1>2, <1>3 DEF MainSent, WatcherSent, Taken, Closed, Runs
<1> QED BY <1>2, <1>3, <1>4, <1>5 DEF HandshakeInv, Early

(* A run sends and takes at most twice, so the counts are below 3.         *)
LEMMA CountsAreSmall ==
    \A r : /\ MainSent(r) \in 0..1 /\ WatcherSent(r) \in 0..1 /\ Taken(r) \in 0..2
          /\ MainSent(r)' \in 0..1 /\ WatcherSent(r)' \in 0..1 /\ Taken(r)' \in 0..2
BY DEF MainSent, WatcherSent, Taken

(* A step that moves the main goroutine within its run, and leaves the     *)
(* watcher where it is, keeps the channel's balance if its own sends and   *)
(* receives are those that MainSent and Taken count.                       *)
LEMMA BalanceKept ==
    ASSUME NEW d \in -1..1, HandshakeInv, UNCHANGED watcher,
           \A r \in Runs : Buffered(r) \in Nat /\ Buffered(r)' \in Nat,
           \A r \in Runs : Buffered(r)' =
                              Buffered(r) + IF r = run THEN d ELSE 0,
           \A r \in Runs : MainSent(r)' - Taken(r)' =
                              MainSent(r) - Taken(r) + IF r = run THEN d ELSE 0
    PROVE  \A r \in Runs : Buffered(r)' =
                              MainSent(r)' + WatcherSent(r)' - Taken(r)'
<1>1. \A r \in Runs : WatcherSent(r)' = WatcherSent(r)
      BY DEF WatcherSent
<1>2. SUFFICES ASSUME NEW r \in Runs
               PROVE  Buffered(r)' = MainSent(r)' + WatcherSent(r)' - Taken(r)'
      OBVIOUS
<1>3. Buffered(r) = MainSent(r) + WatcherSent(r) - Taken(r)
      BY DEF HandshakeInv
<1>4. /\ MainSent(r) \in Int /\ WatcherSent(r) \in Int /\ Taken(r) \in Int
      /\ MainSent(r)' \in Int /\ WatcherSent(r)' \in Int /\ Taken(r)' \in Int
      BY CountsAreSmall
<1>5. CASE r = run
  <2>1. Buffered(r)' = Buffered(r) + d /\ MainSent(r)' - Taken(r)' = MainSent(r) - Taken(r) + d
        BY <1>5
  <2> QED BY <1>1, <1>3, <1>4, <2>1
<1>6. CASE r # run
  <2>1. Buffered(r)' = Buffered(r) /\ MainSent(r)' - Taken(r)' = MainSent(r) - Taken(r)
        BY <1>4, <1>6
  <2> QED BY <1>1, <1>3, <1>4, <2>1
<1> QED BY <1>5, <1>6

(* The sends and receives of mode.go:108-115 keep the balance.             *)
LEMMA MainKeepsHandshake == TypeOK /\ HandshakeInv /\ MainStep => HandshakeInv'
<1> SUFFICES ASSUME TypeOK, HandshakeInv, MainStep PROVE HandshakeInv'
    OBVIOUS
<1>0. \A r \in Runs : exitRequested[r] \in Seq(BOOLEAN)
      BY DEF TypeOK
<1> DEFINE WatcherPc == {"none", "waiting", "requesting", "checking", "setting", "done"}
<1>l. \A r \in Runs : Buffered(r) \in Nat /\ Buffered(r)' \in Nat
      BY <1>0, MainKeepsTypes, LenProperties DEF TypeOK, Buffered
<1>t. run \in Runs /\ Runs \subseteq Int /\ watcher \in [Runs -> WatcherPc]
      BY DEF TypeOK, Runs
<1>1. CASE MainNotifiesStarting \/ MainChecksStart \/ MainSetsStarting \/ MainSeesStopped
           \/ MainSendsInterrupt \/ MainNotifiesStopped
  <2>1. UNCHANGED <<run, exitRequested, watcher>>
        BY <1>1 DEF MainNotifiesStarting, MainChecksStart, MainSetsStarting, MainSeesStopped,
                    MainSendsInterrupt, MainNotifiesStopped, channelVars
  <2>2. \/ mainPc \in Early /\ mainPc' \in Early \cup {"panicked"}
        \/ mainPc = "waiting" /\ mainPc' = "sendFalse"
        \/ mainPc = "sendInterrupt" /\ mainPc' = "recvFirst"
        \/ mainPc = "notifyStopped" /\ mainPc' \in {"exited", "restarting"}
        BY <1>1 DEF MainNotifiesStarting, MainChecksStart, MainSetsStarting, MainSeesStopped,
                    MainSendsInterrupt, MainNotifiesStopped, MainAt, Early
  <2> QED BY <2>1, <2>2, <1>t
          DEF HandshakeInv, Buffered, MainSent, WatcherSent, Taken, Early, Closed
<1>2. CASE MainNotifiesStarted
  <2>1. /\ UNCHANGED <<run, exitRequested>>
        /\ mainPc = "notifyStarted" /\ mainPc' = "waiting"
        /\ watcher' = [watcher EXCEPT ![run] = "waiting"]
        BY <1>2 DEF MainNotifiesStarted, MainAt, channelVars
  <2>0. \A r \in Runs : Buffered(r)' = Buffered(r)
        BY <2>1 DEF Buffered
  <2>2. \A r \in Runs : MainSent(r)' = MainSent(r) /\ Taken(r)' = Taken(r)
        BY <2>1, <1>t DEF MainSent, Taken, Closed
  <2>3. watcher[run] = "none"
        BY <2>1, <1>t DEF HandshakeInv, Early
  <2>4. \A r \in Runs : WatcherSent(r)' = WatcherSent(r)
        BY <2>1, <2>3, <1>t DEF WatcherSent
  <2> QED BY <2>0, <2>1, <2>2, <2>4, <1>t DEF HandshakeInv, Early
<1>3. CASE MainSendsFalse
  <2>1. /\ UNCHANGED <<run, watcher>>
        /\ mainPc = "sendFalse" /\ mainPc' = "sendInterrupt"
        /\ exitRequested' = [exitRequested EXCEPT ![run] = Append(exitRequested[run], FALSE)]
        BY <1>3 DEF MainSendsFalse, MainAt
  <2>2. Len(Append(exitRequested[run], FALSE)) = Len(exitRequested[run]) + 1
        BY <1>0, <1>t, AppendProperties
  <2>3. \A r \in Runs : Buffered(r)' = Buffered(r) + IF r = run THEN 1 ELSE 0
        BY <2>1, <2>2, <1>t, <1>l DEF TypeOK, Buffered
  <2>4. \A r \in Runs : MainSent(r)' - Taken(r)' =
                          MainSent(r) - Taken(r) + IF r = run THEN 1 ELSE 0
        BY <2>1, <1>t DEF MainSent, Taken, Closed
  <2>5. \A r \in Runs : Buffered(r)' = MainSent(r)' + WatcherSent(r)' - Taken(r)'
        BY <2>1, <2>3, <2>4, <1>l, BalanceKept
  <2> QED BY <2>1, <2>5, <1>t DEF HandshakeInv, Early
<1>4. CASE MainReceivesFirst \/ MainReceivesSecond
  <2>1. /\ UNCHANGED <<run, watcher>>
        /\ \/ mainPc = "recvFirst" /\ mainPc' = "recvSecond"
           \/ mainPc = "recvSecond" /\ mainPc' = "notifyStopped"
        /\ exitRequested[run] # <<>>
        /\ exitRequested' = [exitRequested EXCEPT ![run] = Tail(exitRequested[run])]
        BY <1>4 DEF MainReceivesFirst, MainReceivesSecond, MainAt
  <2>2. Len(Tail(exitRequested[run])) = Len(exitRequested[run]) - 1
        BY <1>0, <1>t, <2>1, HeadTailProperties
  <2>3. \A r \in Runs : Buffered(r)' = Buffered(r) + IF r = run THEN -1 ELSE 0
        BY <2>1, <2>2, <1>t, <1>l DEF TypeOK, Buffered
  <2>4. \A r \in Runs : MainSent(r)' - Taken(r)' =
                          MainSent(r) - Taken(r) + IF r = run THEN -1 ELSE 0
        BY <2>1, <1>t DEF MainSent, Taken, Closed
  <2>5. \A r \in Runs : Buffered(r)' = MainSent(r)' + WatcherSent(r)' - Taken(r)'
        BY <2>1, <2>3, <2>4, <1>l, BalanceKept
  <2> QED BY <2>1, <2>5, <1>t DEF HandshakeInv, Early
<1>5. CASE MainRestarts \/ MainSleeps \/ MainWakes
  <2>1. /\ UNCHANGED <<exitRequested, watcher>>
        /\ mainPc \in {"restarting", "sleeping"}
        /\ \/ run' = run /\ mainPc' = "sleeping"
           \/ run' = run + 1 /\ mainPc' = "notifyStarting"
        BY <1>5 DEF MainRestarts, MainSleeps, MainWakes, Relaunches, MainAt, channelVars
  <2>0. \A r \in Runs : Buffered(r)' = Buffered(r)
        BY <2>1 DEF Buffered
  <2>2. \A r \in Runs : MainSent(r)' = MainSent(r) /\ Taken(r)' = Taken(r)
        BY <2>1, <1>t DEF MainSent, Taken, Closed
  <2>3. \A r \in Runs : WatcherSent(r)' = WatcherSent(r)
        BY <2>1 DEF WatcherSent
  <2> QED BY <2>0, <2>1, <2>2, <2>3, <1>t DEF HandshakeInv, Early
<1> QED BY <1>1, <1>2, <1>3, <1>4, <1>5 DEF MainStep

(* A signal only fills a buffer, which the balance does not count.         *)
LEMMA InterruptKeepsHandshake == TypeOK /\ HandshakeInv /\ Interrupt => HandshakeInv'
<1> SUFFICES ASSUME TypeOK, HandshakeInv, Interrupt PROVE HandshakeInv'
    OBVIOUS
<1>1. /\ UNCHANGED <<run, exitRequested, watcher>>
      /\ mainPc' = mainPc \/ (mainPc' = "killed" /\ watcher[run] = "none")
      /\ run \in Runs /\ Runs \subseteq Int
      BY DEF Interrupt, Notified, TypeOK, Runs
<1>2. \A r \in Runs : Buffered(r)' = Buffered(r) /\ WatcherSent(r)' = WatcherSent(r)
      BY <1>1 DEF Buffered, WatcherSent
<1>3. \A r \in Runs : MainSent(r)' = MainSent(r) /\ Taken(r)' = Taken(r)
      BY <1>1 DEF HandshakeInv, MainSent, Taken, Closed, Early
<1> QED BY <1>1, <1>2, <1>3 DEF HandshakeInv, Early

(* The single send of a watcher (mode.go:96) keeps the balance.            *)
LEMMA WatcherKeepsHandshake ==
    ASSUME TypeOK, HandshakeInv, NEW w \in Runs, WatcherStep(w) PROVE HandshakeInv'
<1> DEFINE WatcherPc == {"none", "waiting", "requesting", "checking", "setting", "done"}
<1>1. /\ UNCHANGED <<run, mainPc>>
      /\ watcher[w] # "none" /\ watcher'[w] # "none"
      /\ \A r \in Runs : r # w => watcher'[r] = watcher[r]
      /\ watcher \in [Runs -> WatcherPc] /\ run \in Runs /\ Runs \subseteq Int
  <2>1. watcher \in [Runs -> WatcherPc] /\ run \in Runs /\ Runs \subseteq Int
        BY DEF TypeOK, Runs
  <2>2. UNCHANGED <<run, mainPc>>
        BY DEF WatcherStep, WatcherReceives, WatcherRequestsExit, WatcherChecks,
               WatcherSetsStopping, mainVars
  <2>3. PICK from \in {"waiting", "requesting", "checking", "setting"},
             to \in {"requesting", "checking", "setting", "done"} : WatcherAt(w, from, to)
        BY DEF WatcherStep, WatcherReceives, WatcherRequestsExit, WatcherChecks,
               WatcherSetsStopping
  <2> QED BY <2>1, <2>2, <2>3 DEF WatcherAt
<1>2. \A r \in Runs : MainSent(r)' = MainSent(r) /\ Taken(r)' = Taken(r)
      BY <1>1 DEF MainSent, Taken
<1>3. \A r \in Runs : Buffered(r) \in Int /\ MainSent(r) \in Int /\ Taken(r) \in Int
      BY LenProperties, CountsAreSmall DEF Buffered, TypeOK
<1>4. \A r \in Runs : Buffered(r)' = MainSent(r) + WatcherSent(r)' - Taken(r)
  <2>1. CASE WatcherRequestsExit(w)
    <3>1. /\ watcher[w] = "requesting" /\ watcher' = [watcher EXCEPT ![w] = "checking"]
          /\ exitRequested' = [exitRequested EXCEPT ![w] = Append(exitRequested[w], TRUE)]
          BY <2>1 DEF WatcherRequestsExit, WatcherAt
    <3>2. Len(Append(exitRequested[w], TRUE)) = Len(exitRequested[w]) + 1
          BY AppendProperties DEF TypeOK
    <3>3. Buffered(w)' = Buffered(w) + 1 /\ \A r \in Runs : r # w => Buffered(r)' = Buffered(r)
          BY <3>1, <3>2 DEF Buffered, TypeOK
    <3>4. /\ WatcherSent(w) = 0 /\ WatcherSent(w)' = 1
          /\ \A r \in Runs : r # w => WatcherSent(r)' = WatcherSent(r)
          BY <3>1, <1>1 DEF WatcherSent
    <3> QED BY <3>3, <3>4, <1>3 DEF HandshakeInv
  <2>2. CASE WatcherReceives(w) \/ WatcherChecks(w) \/ WatcherSetsStopping(w)
    <3>1. UNCHANGED exitRequested
          BY <2>2 DEF WatcherReceives, WatcherChecks, WatcherSetsStopping, channelVars
    <3>2. \A r \in Runs : Buffered(r)' = Buffered(r)
          BY <3>1 DEF Buffered
    <3>3. \A r \in Runs : WatcherSent(r)' = WatcherSent(r)
          BY <2>2, <1>1 DEF WatcherReceives, WatcherChecks, WatcherSetsStopping, WatcherAt,
                            WatcherSent
    <3> QED BY <3>2, <3>3 DEF HandshakeInv
  <2> QED BY <2>1, <2>2 DEF WatcherStep
<1>5. \A r \in Runs : r > run \/ (r = run /\ mainPc \in Early) => watcher'[r] = "none"
      BY <1>1 DEF HandshakeInv
<1> QED BY <1>1, <1>2, <1>4, <1>5 DEF HandshakeInv, Early

(* In every reachable state the channel of every run holds what was sent   *)
(* into it and not yet received.                                           *)
THEOREM HandshakeInvariant == Spec => []HandshakeInv
<1>1. TypeOK /\ HandshakeInv /\ [Next]_vars => HandshakeInv'
  <2> SUFFICES ASSUME TypeOK, HandshakeInv, [Next]_vars PROVE HandshakeInv'
      OBVIOUS
  <2> DEFINE Frame == UNCHANGED <<mainPc, run, exitRequested, watcher>>
  <2>1. ASSUME Frame PROVE HandshakeInv'
        BY <2>1 DEF HandshakeInv, Buffered, MainSent, WatcherSent, Taken, Early, Closed
  <2>2. CASE UNCHANGED vars
        BY <2>1, <2>2 DEF vars, program, mainVars, channelVars
  <2>3. CASE Next
        BY <2>1, <2>3, NextCases, MainKeepsHandshake, InterruptKeepsHandshake,
           WatcherKeepsHandshake, ClientLeavesHandshake, StopperLeavesHandshake
  <2> QED BY <2>2, <2>3
<1> QED BY HandshakeInit, <1>1, TypeCorrect, PTL DEF Spec

(* However signals, restarts and the end of the client interleave, a run   *)
(* that is over left no goroutine on its signal channel and nothing in its *)
(* exitRequested channel: two values were sent and two were received.      *)
THEOREM WatchersDoNotLeak == Spec => []NoLeakedWatcher
<1>1. TypeOK /\ HandshakeInv => NoLeakedWatcher
  <2> SUFFICES ASSUME TypeOK, HandshakeInv, NEW r \in 1..(run - 1)
               PROVE  watcher[r] \in {"checking", "setting", "done"} /\ exitRequested[r] = <<>>
      BY DEF NoLeakedWatcher
  <2>1. r \in Runs /\ r < run
        BY BoundsAssumption DEF TypeOK, Runs
  <2>2. MainSent(r) = 1 /\ Taken(r) = 2 /\ WatcherSent(r) \in 0..1
        BY <2>1, CountsAreSmall DEF MainSent, Taken
  <2>3. Buffered(r) = WatcherSent(r) - 1 /\ Buffered(r) \in Nat
        BY <2>1, <2>2, LenProperties DEF HandshakeInv, Buffered, TypeOK
  <2>4. WatcherSent(r) = 1 /\ Buffered(r) = 0
        BY <2>2, <2>3
  <2> QED BY <2>1, <2>4, EmptySeq DEF WatcherSent, Buffered, TypeOK
<1> QED BY <1>1, TypeCorrect, HandshakeInvariant, PTL

-----------------------------------------------------------------------------
(* What can block the handshake.                                           *)

(* Whether the main goroutine has sent its interrupt (mode.go:109).        *)
Faked(r) ==
    r < run \/ (r = run /\ mainPc \in Closed \cup {"recvFirst", "recvSecond"})

WatcherTook(r) ==
    IF watcher[r] \in {"requesting", "checking", "setting", "done"} THEN 1 ELSE 0

(* Until then only real signals come to the channel of a run, and each is  *)
(* buffered, taken by the watcher or dropped; afterwards a watcher that    *)
(* still waits has something to take.                                      *)
SignalInv ==
    \A r \in Runs : /\ watcher[r] = "none" => signals[r] = 0
                    /\ ~ Faked(r) => signals[r] + WatcherTook(r) <= interrupts
                    /\ Faked(r) /\ watcher[r] = "waiting" => signals[r] = 1

(* Whoever is at a send or a receive of the handshake can do it, or the    *)
(* watcher is about to make that possible; but for the send that a second  *)
(* signal has jammed.                                                      *)
OnlySecondSignalBlocks ==
    /\ mainPc = "sendFalse" => Len(exitRequested[run]) < 2
    /\ \A r \in Runs : watcher[r] = "requesting" => Len(exitRequested[r]) < 2
    /\ Jammed => interrupts > 1
    /\ mainPc \in {"recvFirst", "recvSecond"} =>
           \/ exitRequested[run] # <<>> \/ watcher[run] = "requesting"
           \/ watcher[run] = "waiting" /\ signals[run] = 1

(* The steps of the main goroutine: only its own send fills the buffer.    *)
LEMMA MainKeepsSignals ==
    ASSUME TypeOK, HandshakeInv, SignalInv, MainStep PROVE SignalInv'
<1>t. /\ run \in Runs /\ Runs \subseteq Int /\ signals \in [Runs -> 0..1] /\ interrupts \in Nat
      /\ watcher \in [Runs -> {"none", "waiting", "requesting", "checking", "setting", "done"}]
      BY DEF TypeOK, Runs
<1>1. CASE MainNotifiesStarting \/ MainChecksStart \/ MainSetsStarting \/ MainSeesStopped
           \/ MainSendsFalse \/ MainReceivesFirst \/ MainReceivesSecond \/ MainNotifiesStopped
  <2>1. UNCHANGED <<run, signals, watcher, interrupts>>
        BY <1>1 DEF MainNotifiesStarting, MainChecksStart, MainSetsStarting, MainSeesStopped,
           MainSendsFalse, MainReceivesFirst, MainReceivesSecond, MainNotifiesStopped,
           channelVars
  <2>2. LET after == Closed \cup {"recvFirst", "recvSecond"}
        IN  mainPc \in after <=> mainPc' \in after
        BY <1>1 DEF MainNotifiesStarting, MainChecksStart, MainSetsStarting, MainSeesStopped,
           MainSendsFalse, MainReceivesFirst, MainReceivesSecond, MainNotifiesStopped, MainAt,
           Closed
  <2>3. \A r \in Runs : (Faked(r)' <=> Faked(r)) /\ WatcherTook(r)' = WatcherTook(r)
        BY <2>1, <2>2 DEF Faked, WatcherTook, Closed
  <2> QED BY <2>1, <2>3 DEF SignalInv
<1>2. CASE MainNotifiesStarted
  <2>1. /\ mainPc = "notifyStarted" /\ mainPc' = "waiting"
        /\ UNCHANGED <<run, signals, interrupts>>
        /\ watcher' = [watcher EXCEPT ![run] = "waiting"] /\ watcher[run] = "none"
        BY <1>2, <1>t DEF MainNotifiesStarted, MainAt, channelVars, HandshakeInv, Early
  <2>2. \A r \in Runs : (Faked(r)' <=> Faked(r)) /\ WatcherTook(r)' = WatcherTook(r)
        BY <2>1, <1>t DEF Faked, WatcherTook, Closed
  <2>3. ~ Faked(run)
        BY <2>1, <1>t DEF Faked, Closed
  <2> QED BY <2>1, <2>2, <2>3, <1>t DEF SignalInv
<1>3. CASE MainSendsInterrupt
  <2>1. /\ mainPc = "sendInterrupt" /\ mainPc' = "recvFirst"
        /\ UNCHANGED <<run, watcher, interrupts>>
        /\ signals' = [signals EXCEPT ![run] = 1] /\ watcher[run] # "none"
        BY <1>3 DEF MainSendsInterrupt, MainAt, HandshakeInv, Early
  <2>2. \A r \in Runs : /\ WatcherTook(r)' = WatcherTook(r)
                        /\ r # run => (Faked(r)' <=> Faked(r)) /\ signals'[r] = signals[r]
        BY <2>1, <1>t DEF Faked, WatcherTook
  <2>3. Faked(run)' /\ signals'[run] = 1
        BY <2>1, <1>t DEF Faked
  <2> QED BY <2>1, <2>2, <2>3 DEF SignalInv
<1>4. CASE MainRestarts \/ MainSleeps \/ MainWakes
  <2>1. /\ UNCHANGED <<signals, watcher, interrupts>> /\ mainPc \in {"restarting", "sleeping"}
        /\ \/ run' = run /\ mainPc' = "sleeping"
           \/ run' = run + 1 /\ mainPc' = "notifyStarting"
        BY <1>4 DEF MainRestarts, MainSleeps, MainWakes, Relaunches, MainAt, channelVars
  <2>2. \A r \in Runs : (Faked(r)' <=> Faked(r)) /\ WatcherTook(r)' = WatcherTook(r)
        BY <2>1, <1>t DEF Faked, WatcherTook, Closed
  <2> QED BY <2>1, <2>2 DEF SignalInv
<1> QED BY <1>1, <1>2, <1>3, <1>4 DEF MainStep

(* A real signal is offered to every channel that was made so far.         *)
LEMMA InterruptKeepsSignals ==
    ASSUME TypeOK, HandshakeInv, SignalInv, Interrupt PROVE SignalInv'
<1>1. /\ run \in Runs /\ Runs \subseteq Int /\ signals \in [Runs -> 0..1] /\ interrupts \in Nat
      /\ UNCHANGED <<run, watcher>> /\ interrupts' = interrupts + 1
      /\ \A r \in Runs : signals'[r] = IF watcher[r] # "none" THEN 1 ELSE signals[r]
      BY DEF TypeOK, Runs, Interrupt, Notified
<1>2. mainPc' = mainPc \/ (mainPc' = "killed" /\ watcher[run] = "none")
      BY <1>1 DEF Interrupt, Notified
<1>3. \A r \in Runs : (Faked(r)' <=> Faked(r)) /\ WatcherTook(r)' = WatcherTook(r)
      BY <1>1, <1>2 DEF Faked, WatcherTook, HandshakeInv, Early, Closed
<1>4. \A r \in Runs : WatcherTook(r) \in 0..1 /\ signals[r] \in 0..1
      BY <1>1 DEF WatcherTook
<1>5. ASSUME NEW r \in Runs, ~ Faked(r)
      PROVE  signals'[r] + WatcherTook(r) <= interrupts + 1
  <2>1. signals[r] + WatcherTook(r) <= interrupts
        BY <1>5 DEF SignalInv
  <2>2. signals'[r] = 1 \/ signals'[r] = signals[r]
        BY <1>1
  <2> QED BY <1>1, <1>4, <2>1, <2>2
<1> QED BY <1>1, <1>3, <1>5 DEF SignalInv

(* What a watcher takes, it has taken.                                     *)
LEMMA WatcherKeepsSignals ==
    ASSUME TypeOK, SignalInv, NEW w \in Runs, WatcherStep(w) PROVE SignalInv'
<1>1. /\ signals \in [Runs -> 0..1]
      /\ watcher \in [Runs -> {"none", "waiting", "requesting", "checking", "setting", "done"}]
      BY DEF TypeOK
<1>2. UNCHANGED <<run, mainPc, interrupts>>
      BY DEF WatcherStep, WatcherReceives, WatcherRequestsExit, WatcherChecks,
             WatcherSetsStopping, mainVars
<1>3. \A r \in Runs : Faked(r)' <=> Faked(r)
      BY <1>2 DEF Faked
<1>4. CASE WatcherReceives(w)
  <2>1. /\ watcher[w] = "waiting" /\ watcher' = [watcher EXCEPT ![w] = "requesting"]
        /\ signals[w] = 1 /\ signals' = [signals EXCEPT ![w] = 0]
        BY <1>4 DEF WatcherReceives, WatcherAt
  <2>2. /\ WatcherTook(w) = 0 /\ WatcherTook(w)' = 1
        /\ signals'[w] = 0 /\ watcher'[w] = "requesting"
        BY <1>1, <2>1 DEF WatcherTook
  <2>3. \A r \in Runs : r # w => /\ WatcherTook(r)' = WatcherTook(r)
                                 /\ signals'[r] = signals[r] /\ watcher'[r] = watcher[r]
        BY <1>1, <2>1 DEF WatcherTook
  <2> QED BY <1>2, <1>3, <2>1, <2>2, <2>3 DEF SignalInv
<1>5. CASE WatcherRequestsExit(w) \/ WatcherChecks(w) \/ WatcherSetsStopping(w)
  <2>1. /\ signals' = signals
        /\ \E from \in {"requesting", "checking", "setting"}, to \in {"checking", "setting", "done"} :
              WatcherAt(w, from, to)
        BY <1>5 DEF WatcherRequestsExit, WatcherChecks, WatcherSetsStopping, channelVars
  <2>2. \A r \in Runs : /\ WatcherTook(r)' = WatcherTook(r)
                        /\ watcher'[r] \in {"none", "waiting"} => watcher'[r] = watcher[r]
        BY <1>1, <2>1 DEF WatcherAt, WatcherTook
  <2> QED BY <1>2, <1>3, <2>1, <2>2 DEF SignalInv
<1> QED BY <1>4, <1>5 DEF WatcherStep

(* Over all runs, no signal in the channel is unaccounted for.              *)
THEOREM SignalInvariant == Spec => []SignalInv
<1>1. Init => SignalInv
  <2> SUFFICES ASSUME Init PROVE SignalInv
      OBVIOUS
  <2>1. \A r \in Runs : WatcherTook(r) = 0 /\ signals[r] = 0 /\ watcher[r] = "none"
        BY DEF Init, WatcherTook
  <2> QED BY <2>1 DEF Init, SignalInv
<1>2. TypeOK /\ HandshakeInv /\ SignalInv /\ [Next]_vars => SignalInv'
  <2> SUFFICES ASSUME TypeOK, HandshakeInv, SignalInv, [Next]_vars PROVE SignalInv'
      OBVIOUS
  <2>1. ASSUME UNCHANGED <<mainPc, run, interrupts, signals, watcher>> PROVE SignalInv'
        BY <2>1 DEF SignalInv, Faked, WatcherTook
  <2>2. CASE UNCHANGED vars
        BY <2>1, <2>2 DEF vars, program, mainVars, channelVars
  <2>3. CASE Next
        BY <2>1, <2>3, NextCases, MainKeepsSignals, InterruptKeepsSignals,
           WatcherKeepsSignals, ClientLeavesHandshake, StopperLeavesHandshake
  <2> QED BY <2>2, <2>3
<1> QED BY <1>1, <1>2, TypeCorrect, HandshakeInvariant, PTL DEF Spec

(* No send and no receive of mode.go:96-115 waits for what will not come,  *)
(* for any number of runs and signals; but for `signals <- os.Interrupt`,  *)
(* which blocks for ever when a second signal came after the watcher left. *)
THEOREM HandshakeIsNotBlocked == Spec => []OnlySecondSignalBlocks
<1>1. TypeOK /\ HandshakeInv /\ SignalInv => OnlySecondSignalBlocks
  <2> SUFFICES ASSUME TypeOK, HandshakeInv, SignalInv PROVE OnlySecondSignalBlocks
      OBVIOUS
  <2>t. /\ run \in Runs /\ Runs \subseteq Int /\ signals \in [Runs -> 0..1] /\ interrupts \in Nat
        /\ watcher \in [Runs -> {"none", "waiting", "requesting", "checking", "setting", "done"}]
        BY DEF TypeOK, Runs
  <2>b. \A r \in Runs : /\ Buffered(r) = MainSent(r) + WatcherSent(r) - Taken(r)
                        /\ Buffered(r) \in Nat /\ Buffered(r) = Len(exitRequested[r])
                        /\ Buffered(r) # 0 => exitRequested[r] # <<>>
        BY LenProperties, EmptySeq DEF HandshakeInv, Buffered, TypeOK
  <2>1. ASSUME mainPc = "sendFalse" PROVE Len(exitRequested[run]) < 2
    <3>1. MainSent(run) = 0 /\ Taken(run) = 0 /\ WatcherSent(run) \in 0..1
          BY <2>1, <2>t DEF MainSent, Taken, WatcherSent, Closed
    <3> QED BY <3>1, <2>b, <2>t
  <2>2. ASSUME NEW r \in Runs, watcher[r] = "requesting" PROVE Len(exitRequested[r]) < 2
    <3>1. MainSent(r) \in 0..1 /\ Taken(r) \in 0..2 /\ WatcherSent(r) = 0
          BY <2>2 DEF MainSent, Taken, WatcherSent
    <3> QED BY <3>1, <2>b
  <2>3. ASSUME Jammed PROVE interrupts > 1
    <3>1. signals[run] = 1 /\ ~ Faked(run)
          BY <2>3, <2>t DEF Jammed, Faked, Closed
    <3>2. watcher[run] \notin {"none", "waiting"}
          BY <2>3 DEF Jammed, HandshakeInv, Early
    <3>3. WatcherTook(run) = 1
          BY <3>2, <2>t DEF WatcherTook
    <3> QED BY <3>1, <3>3, <2>t DEF SignalInv
  <2>4. ASSUME mainPc \in {"recvFirst", "recvSecond"}
        PROVE  \/ exitRequested[run] # <<>> \/ watcher[run] = "requesting"
               \/ watcher[run] = "waiting" /\ signals[run] = 1
    <3>1. MainSent(run) = 1 /\ Taken(run) \in 0..1 /\ Faked(run) /\ watcher[run] # "none"
          BY <2>4, <2>t DEF MainSent, Taken, Faked, HandshakeInv, Early, Closed
    <3>2. CASE watcher[run] \in {"checking", "setting", "done"}
      <4>1. WatcherSent(run) = 1
            BY <3>2 DEF WatcherSent
      <4> QED BY <3>1, <4>1, <2>b, <2>t
    <3>3. CASE watcher[run] = "waiting"
          BY <3>1, <3>3, <2>t DEF SignalInv
    <3> QED BY <3>1, <3>2, <3>3, <2>t
  <2> QED BY <2>1, <2>2, <2>3, <2>4 DEF OnlySecondSignalBlocks
<1> QED BY <1>1, TypeCorrect, HandshakeInvariant, SignalInvariant, PTL

-----------------------------------------------------------------------------
(* The exit decision.                                                      *)

(* As long as nobody interrupts, the fake interrupt is the only signal the *)
(* watcher of the current run can receive, and by then FALSE is first in   *)
(* the channel.                                                            *)
Undecided == Early \cup {"waiting", "sendFalse", "sendInterrupt"}
FalseFirst(r) == exitRequested[r] # <<>> /\ Head(exitRequested[r]) = FALSE

UnaskedInv ==
    /\ exitFlag = FALSE
    /\ \A r \in Runs : r > run \/ (r = run /\ mainPc \in Undecided) => signals[r] = 0
    /\ mainPc \in {"waiting", "sendFalse", "sendInterrupt"} => watcher[run] = "waiting"
    /\ mainPc \in {"sendInterrupt", "recvFirst"} => FalseFirst(run)
    /\ mainPc # "exited"

ExitInv == interrupts = 0 => UnaskedInv

(* Before the first run nobody was interrupted and nothing decides.        *)
LEMMA ExitInvInit == Init => ExitInv
<1> SUFFICES ASSUME Init PROVE UnaskedInv
    BY DEF ExitInv
<1>1. mainPc = "notifyStarting" /\ \A r \in Runs : signals[r] = 0
      BY DEF Init
<1>2. exitFlag = FALSE
      BY DEF Init
<1> QED BY <1>1, <1>2 DEF UnaskedInv

(* The main goroutine delivers no signals.                                 *)
LEMMA MainLeavesInterrupts == MainStep => interrupts' = interrupts
<1> SUFFICES ASSUME MainStep PROVE interrupts' = interrupts
    OBVIOUS
<1>1. CASE MainNotifiesStarting \/ MainChecksStart \/ MainSetsStarting \/ MainNotifiesStarted
           \/ MainSeesStopped \/ MainSendsFalse
      BY <1>1 DEF MainNotifiesStarting, MainChecksStart, MainSetsStarting, MainNotifiesStarted,
                  MainSeesStopped, MainSendsFalse
<1>2. CASE MainSendsInterrupt \/ MainReceivesFirst \/ MainReceivesSecond \/ MainNotifiesStopped
           \/ MainRestarts \/ MainSleeps \/ MainWakes
      BY <1>2 DEF MainSendsInterrupt, MainReceivesFirst, MainReceivesSecond, MainNotifiesStopped,
                  MainRestarts, MainSleeps, MainWakes, Relaunches, MainAt
<1> QED BY <1>1, <1>2 DEF MainStep

(* When the main goroutine sends FALSE, nothing is in the channel yet.     *)
LEMMA FalseComesFirst ==
    ASSUME TypeOK, HandshakeInv, UnaskedInv, MainSendsFalse PROVE FalseFirst(run)'
<1>1. /\ UNCHANGED <<run, watcher>> /\ mainPc = "sendFalse"
      /\ exitRequested' = [exitRequested EXCEPT ![run] = Append(exitRequested[run], FALSE)]
      BY DEF MainSendsFalse, MainAt
<1>2. run \in Runs /\ run \in Int /\ exitRequested[run] \in Seq(BOOLEAN) /\ FALSE \in BOOLEAN
      BY DEF TypeOK, Runs
<1>3. exitRequested'[run] = Append(exitRequested[run], FALSE)
      BY <1>1, <1>2 DEF TypeOK
<1>4. watcher[run] = "waiting"
      BY <1>1 DEF UnaskedInv
<1>5. MainSent(run) = 0 /\ Taken(run) = 0 /\ WatcherSent(run) = 0
      BY <1>1, <1>2, <1>4 DEF MainSent, Taken, WatcherSent, Closed
<1>6. Buffered(run) = 0
      BY <1>2, <1>5 DEF HandshakeInv
<1>7. exitRequested[run] = <<>>
      BY <1>2, <1>6, EmptySeq DEF Buffered
<1>8. Append(exitRequested[run], FALSE) # <<>> /\ Head(Append(exitRequested[run], FALSE)) = FALSE
  <2>1. Append(exitRequested[run], FALSE) # <<>>
        BY <1>2, AppendProperties
  <2>2. Head(Append(exitRequested[run], FALSE)) =
            IF exitRequested[run] = <<>> THEN FALSE ELSE Head(exitRequested[run])
        BY <1>2, HeadTailAppend
  <2> QED BY <1>7, <2>1, <2>2
<1> QED BY <1>1, <1>3, <1>8 DEF FalseFirst

(* The main goroutine sends FALSE first, so what it reads first is FALSE.  *)
LEMMA MainKeepsExitInv ==
    ASSUME TypeOK, HandshakeInv, ExitInv, MainStep PROVE ExitInv'
<1> SUFFICES ASSUME interrupts = 0, UnaskedInv PROVE UnaskedInv'
    BY MainLeavesInterrupts DEF ExitInv
<1>t. run \in Runs /\ Runs \subseteq Int
      BY DEF TypeOK, Runs
<1>0. exitFlag = FALSE
      BY DEF UnaskedInv
<1>1. CASE MainNotifiesStarting \/ MainChecksStart \/ MainSetsStarting \/ MainSeesStopped
  <2>1. UNCHANGED <<run, exitFlag, signals, watcher>>
        BY <1>1 DEF MainNotifiesStarting, MainChecksStart, MainSetsStarting, MainSeesStopped,
                    channelVars
  <2>2. \/ mainPc \in Early /\ mainPc' \in Early \cup {"panicked"}
        \/ mainPc = "waiting" /\ mainPc' = "sendFalse"
        BY <1>1 DEF MainNotifiesStarting, MainChecksStart, MainSetsStarting, MainSeesStopped,
                    MainAt, Early
  <2>3. exitFlag' = FALSE
        BY <1>0, <2>1
  <2> QED BY <2>1, <2>2, <2>3, <1>t DEF UnaskedInv, Undecided, Early
<1>2. CASE MainNotifiesStarted
  <2>1. /\ UNCHANGED <<run, exitFlag, signals>>
        /\ mainPc = "notifyStarted" /\ mainPc' = "waiting" /\ watcher'[run] = "waiting"
        BY <1>2, <1>t DEF MainNotifiesStarted, MainAt, channelVars, TypeOK
  <2>2. exitFlag' = FALSE
        BY <1>0, <2>1
  <2> QED BY <2>1, <2>2, <1>t DEF UnaskedInv, Undecided, Early
<1>3. CASE MainSendsFalse
  <2>1. /\ UNCHANGED <<run, exitFlag, signals, watcher>>
        /\ mainPc = "sendFalse" /\ mainPc' = "sendInterrupt"
        BY <1>3 DEF MainSendsFalse, MainAt
  <2>2. exitFlag' = FALSE
        BY <1>0, <2>1
  <2> QED BY <2>1, <2>2, <1>3, FalseComesFirst DEF UnaskedInv, Undecided
<1>4. CASE MainSendsInterrupt
  <2>1. /\ UNCHANGED <<run, exitFlag, watcher, exitRequested>>
        /\ mainPc = "sendInterrupt" /\ mainPc' = "recvFirst"
        /\ \A r \in Runs : r # run => signals'[r] = signals[r]
        BY <1>4, <1>t DEF MainSendsInterrupt, MainAt, TypeOK
  <2>2. exitFlag' = FALSE /\ (FalseFirst(run) => FalseFirst(run)')
        BY <1>0, <2>1 DEF FalseFirst
  <2> QED BY <2>1, <2>2, <1>t DEF UnaskedInv, Undecided, Early
<1>5. CASE MainReceivesFirst
  <2>1. /\ UNCHANGED <<run, signals>>
        /\ mainPc = "recvFirst" /\ mainPc' = "recvSecond"
        /\ exitFlag' = Head(exitRequested[run])
        BY <1>5 DEF MainReceivesFirst, MainAt
  <2>2. FalseFirst(run)
        BY <2>1 DEF UnaskedInv
  <2>3. exitFlag' = FALSE
        BY <2>1, <2>2 DEF FalseFirst
  <2> QED BY <2>1, <2>3, <1>t DEF UnaskedInv, Undecided, Early
<1>6. CASE MainReceivesSecond
  <2>1. /\ UNCHANGED <<run, exitFlag, signals>>
        /\ mainPc = "recvSecond" /\ mainPc' = "notifyStopped"
        BY <1>6 DEF MainReceivesSecond, MainAt
  <2>2. exitFlag' = FALSE
        BY <1>0, <2>1
  <2> QED BY <2>1, <2>2, <1>t DEF UnaskedInv, Undecided, Early
<1>7. CASE MainNotifiesStopped
  <2>1. UNCHANGED <<run, exitFlag, signals>> /\ mainPc' = "restarting"
        BY <1>0, <1>7 DEF MainNotifiesStopped, channelVars
  <2>2. exitFlag' = FALSE
        BY <1>0, <2>1
  <2> QED BY <2>1, <2>2, <1>t DEF UnaskedInv, Undecided, Early
<1>8. CASE MainRestarts \/ MainSleeps \/ MainWakes
  <2>1. /\ UNCHANGED <<exitFlag, signals>>
        /\ mainPc \in {"restarting", "sleeping"}
        /\ \/ run' = run /\ mainPc' = "sleeping"
           \/ run' = run + 1 /\ mainPc' = "notifyStarting"
        BY <1>8 DEF MainRestarts, MainSleeps, MainWakes, Relaunches, MainAt, channelVars
  <2>2. exitFlag' = FALSE
        BY <1>0, <2>1
  <2> QED BY <2>1, <2>2, <1>t DEF UnaskedInv, Undecided, Early
<1> QED BY <1>1, <1>2, <1>3, <1>4, <1>5, <1>6, <1>7, <1>8 DEF MainStep

(* Without a signal a watcher sends TRUE only behind the FALSE of main.    *)
LEMMA WatcherKeepsExitInv ==
    ASSUME TypeOK, ExitInv, NEW w \in Runs, WatcherStep(w) PROVE ExitInv'
<1>1. UNCHANGED <<mainPc, run, exitFlag, interrupts>> /\ run \in Runs
      BY DEF WatcherStep, WatcherReceives, WatcherRequestsExit, WatcherChecks,
             WatcherSetsStopping, mainVars, TypeOK
<1> SUFFICES ASSUME UnaskedInv PROVE UnaskedInv'
    BY <1>1 DEF ExitInv
<1>2. \A r \in Runs : signals[r] = 0 => signals'[r] = 0
      BY ZenonT(40) DEF WatcherStep, WatcherReceives, WatcherRequestsExit, WatcherChecks,
             WatcherSetsStopping, channelVars, TypeOK
<1>3. ASSUME mainPc \in {"waiting", "sendFalse", "sendInterrupt"}
      PROVE  watcher'[run] = "waiting"
  <2>1. watcher[run] = "waiting" /\ signals[run] = 0
        BY <1>1, <1>3 DEF UnaskedInv, Undecided
  <2>2. PICK from \in {"waiting", "requesting", "checking", "setting"},
             to \in {"requesting", "checking", "setting", "done"} :
               WatcherAt(w, from, to) /\ (from = "waiting" => signals[w] = 1)
        BY DEF WatcherStep, WatcherReceives, WatcherRequestsExit, WatcherChecks,
               WatcherSetsStopping, WatcherAt
  <2>3. w # run
        BY <2>1, <2>2 DEF WatcherAt
  <2> QED BY <2>1, <2>2, <2>3, <1>1 DEF WatcherAt, TypeOK
<1>4. \A r \in Runs : FalseFirst(r) => FalseFirst(r)'
  <2> SUFFICES ASSUME NEW r \in Runs, FalseFirst(r) PROVE FalseFirst(r)'
      OBVIOUS
  <2>1. \/ exitRequested' = exitRequested
        \/ exitRequested' = [exitRequested EXCEPT ![w] = Append(exitRequested[w], TRUE)]
        BY DEF WatcherStep, WatcherReceives, WatcherRequestsExit, WatcherChecks,
               WatcherSetsStopping, channelVars
  <2>2. exitRequested'[r] = exitRequested[r] \/ exitRequested'[r] = Append(exitRequested[r], TRUE)
    <3>1. CASE r = w
          BY <2>1, <3>1, Zenon DEF TypeOK
    <3>2. CASE r # w
          BY <2>1, <3>2, Zenon DEF TypeOK
    <3> QED BY <3>1, <3>2
  <2>3. exitRequested[r] \in Seq(BOOLEAN) /\ TRUE \in BOOLEAN
        BY DEF TypeOK
  <2>4. /\ Head(Append(exitRequested[r], TRUE)) = FALSE
        /\ Append(exitRequested[r], TRUE) # <<>>
        BY <2>3, HeadTailAppend, AppendProperties, Zenon DEF FalseFirst
  <2> QED BY <2>2, <2>4, Zenon DEF FalseFirst
<1>5. exitFlag' = FALSE
      BY <1>1 DEF UnaskedInv
<1> QED BY <1>1, <1>2, <1>3, <1>4, <1>5 DEF UnaskedInv

(* After a signal there is nothing left to show.                           *)
LEMMA InterruptKeepsExitInv == TypeOK /\ Interrupt => ExitInv'
<1> SUFFICES ASSUME TypeOK, Interrupt PROVE interrupts' # 0
    BY DEF ExitInv
<1>1. interrupts \in Nat /\ interrupts' = interrupts + 1
      BY BoundsAssumption DEF TypeOK, Interrupt
<1> QED BY <1>1

(* In every reachable state without an interrupt nothing that is TRUE is   *)
(* on its way to the exit decision.                                        *)
THEOREM ExitInvariant == Spec => []ExitInv
<1>1. TypeOK /\ HandshakeInv /\ ExitInv /\ [Next]_vars => ExitInv'
  <2> SUFFICES ASSUME TypeOK, HandshakeInv, ExitInv, [Next]_vars PROVE ExitInv'
      OBVIOUS
  <2>1. ASSUME UNCHANGED <<mainPc, run, exitFlag, interrupts, signals, exitRequested, watcher>>
        PROVE  ExitInv'
        BY <2>1 DEF ExitInv, UnaskedInv, FalseFirst
  <2>2. CASE UNCHANGED vars
        BY <2>1, <2>2 DEF vars, program, mainVars, channelVars
  <2>3. CASE Next
        BY <2>1, <2>3, NextCases, MainKeepsExitInv, InterruptKeepsExitInv,
           WatcherKeepsExitInv, ClientLeavesHandshake, StopperLeavesHandshake
  <2> QED BY <2>2, <2>3
<1> QED BY ExitInvInit, <1>1, TypeCorrect, HandshakeInvariant, PTL DEF Spec

(* The launcher ends only on an interrupt: the interrupt it sends itself   *)
(* to release the watcher never reaches the exit decision.                 *)
THEOREM ExitsOnlyOnInterrupt == Spec => []ExitOnlyOnInterrupt
<1>1. TypeOK /\ ExitInv => ExitOnlyOnInterrupt
      BY BoundsAssumption DEF ExitInv, UnaskedInv, ExitOnlyOnInterrupt, TypeOK
<1> QED BY <1>1, ExitInvariant, TypeCorrect, PTL

-----------------------------------------------------------------------------
(* The client process and its executor.                                    *)

(* How far the goroutines of one run are determines what its Java process  *)
(* can be doing.                                                           *)
ProcessInv(r) ==
    /\ executor[r] \in {"none", "launching"} => command[r] = "none"
    /\ executor[r] \in {"ending", "removing", "done"} => command[r] = "done"
    /\ command[r] \in {"none", "starting", "failed"} => jvm[r] = "none" /\ killer[r] = "none"
    /\ command[r] = "waiting" => jvm[r] # "none"
    /\ command[r] \in {"reporting", "done"} => jvm[r] = "dead"

(* Who wrote the file that is there will remove it, or failed to write it. *)
FileInv ==
    jnlpFile # 0 => /\ jnlp[jnlpFile] # "none"
                    /\ executor[jnlpFile] \notin {"none", "launching"}
                    /\ executor[jnlpFile] = "done" => jnlp[jnlpFile] = "failed"

SupervisionInv ==
    /\ \A r \in Runs : ProcessInv(r)
    /\ \A r \in Runs : r > run \/ (r = run /\ mainPc \in Early \ {"notifyStarted"})
                          => executor[r] = "none"
    /\ FileInv

(* At first there are no goroutines of a client and no process.            *)
LEMMA SupervisionInit == Init => SupervisionInv
BY DEF Init, SupervisionInv, ProcessInv, FileInv

(* The main goroutine only ever starts the executor of a run that is new. *)
LEMMA MainKeepsSupervision ==
    ASSUME TypeOK, SupervisionInv, MainStep PROVE SupervisionInv'
<1>t. /\ run \in Runs /\ Runs \subseteq Int /\ jnlpFile \in Int
      /\ DOMAIN executor = Runs
      BY BoundsAssumption DEF TypeOK, Runs
<1>1. CASE MainSetsStarting
  <2>1. /\ mainPc = "startSet" /\ mainPc' = "notifyStarted"
        /\ executor' = [executor EXCEPT ![run] = "launching"]
        /\ UNCHANGED <<run, command, killer, jvm, jnlpVars>>
        BY <1>1 DEF MainSetsStarting, MainAt
  <2>2. executor[run] = "none"
        BY <2>1, <1>t DEF SupervisionInv, Early
  <2>3. \A r \in Runs : ProcessInv(r)'
        BY <2>1, <2>2, <1>t DEF SupervisionInv, ProcessInv
  <2>4. FileInv'
        BY <2>1, <2>2, <1>t DEF SupervisionInv, FileInv, jnlpVars, TypeOK
  <2> QED BY <2>1, <2>3, <2>4, <1>t DEF SupervisionInv, Early
<1>2. CASE \/ MainNotifiesStarting \/ MainChecksStart \/ MainNotifiesStarted
           \/ MainSeesStopped \/ MainSendsFalse \/ MainSendsInterrupt \/ MainReceivesFirst
           \/ MainReceivesSecond \/ MainNotifiesStopped
  <2>1. UNCHANGED <<run, executor, command, killer, jvm, jnlpVars>>
        BY <1>2 DEF MainNotifiesStarting, MainChecksStart, MainNotifiesStarted, MainSeesStopped,
                    MainSendsFalse, MainSendsInterrupt, MainReceivesFirst, MainReceivesSecond,
                    MainNotifiesStopped, clientVars
  <2>2. mainPc' \in Early \ {"notifyStarted"} => mainPc \in Early \ {"notifyStarted"}
        BY <1>2 DEF MainNotifiesStarting, MainChecksStart, MainNotifiesStarted, MainSeesStopped,
                    MainSendsFalse, MainSendsInterrupt, MainReceivesFirst, MainReceivesSecond,
                    MainNotifiesStopped, MainAt, Early
  <2> QED BY <2>1, <2>2 DEF SupervisionInv, ProcessInv, FileInv, jnlpVars
<1>3. CASE MainRestarts \/ MainSleeps \/ MainWakes
  <2>1. UNCHANGED <<executor, command, killer, jvm, jnlpVars>>
        /\ \/ run' = run /\ mainPc' = "sleeping"
           \/ run' = run + 1 /\ mainPc' = "notifyStarting"
        BY <1>3 DEF MainRestarts, MainSleeps, MainWakes, Relaunches, MainAt, clientVars
  <2>2. \A r \in Runs : r > run' \/ (r = run' /\ mainPc' \in Early \ {"notifyStarted"})
                           => executor[r] = "none"
        BY <2>1, <1>t DEF SupervisionInv, Early
  <2> QED BY <2>1, <2>2 DEF SupervisionInv, ProcessInv, FileInv, jnlpVars
<1> QED BY <1>1, <1>2, <1>3 DEF MainStep

(* The rendezvous of execute keep its goroutines and the JVM in step.      *)
LEMMA ClientKeepsSupervision ==
    ASSUME TypeOK, SupervisionInv, NEW c \in Runs,
           ExecutorStep(c) \/ CommandStep(c) \/ KillerKills(c) \/ JvmExits(c)
    PROVE  SupervisionInv'
<1> USE DEF mainVars, TypeOK, ExecutorAt, CommandAt
<1>t. Runs \subseteq Int /\ \A r \in Runs : r # 0
      BY DEF Runs
<1>1. UNCHANGED <<mainPc, run>>
      BY ClientLeavesHandshake
<1>2. executor[c] # "none" \/ executor' = executor
      BY DEF ExecutorStep, ExecutorLaunches, ExecutorSetsStarted, ExecutorSeesStop,
             ExecutorSignalsKiller, ExecutorReaps, ExecutorSetsStopped, ExecutorRemovesFile,
             CommandStep, CommandStarts, CommandFails, CommandReports, KillerKills, JvmExits
<1>3. \A r \in Runs : ProcessInv(r)'
  <2> SUFFICES ASSUME NEW r \in Runs PROVE ProcessInv(r)'
      OBVIOUS
  <2> USE DEF SupervisionInv, ProcessInv
  <2>1. CASE ExecutorLaunches(c) \/ ExecutorSetsStarted(c) \/ ExecutorSeesStop(c)
        BY <2>1 DEF ExecutorLaunches, ExecutorSetsStarted, ExecutorSeesStop
  <2>2. CASE ExecutorSignalsKiller(c)
        BY <2>2 DEF ExecutorSignalsKiller
  <2>3. CASE ExecutorReaps(c)
        BY <2>3 DEF ExecutorReaps
  <2>4. CASE ExecutorSetsStopped(c) \/ ExecutorRemovesFile(c)
        BY <2>4 DEF ExecutorSetsStopped, ExecutorRemovesFile
  <2>5. CASE CommandStep(c)
        BY <2>5 DEF CommandStep, CommandStarts, CommandFails, CommandReports
  <2>6. CASE KillerKills(c) \/ JvmExits(c)
        BY <2>6 DEF KillerKills, JvmExits
  <2> QED BY <2>1, <2>2, <2>3, <2>4, <2>5, <2>6 DEF ExecutorStep
<1>4. \A r \in Runs : executor[r] = "none" => executor'[r] = "none"
      BY <1>2 DEF ExecutorStep, ExecutorLaunches, ExecutorSetsStarted, ExecutorSeesStop,
             ExecutorSignalsKiller, ExecutorReaps, ExecutorSetsStopped, ExecutorRemovesFile,
             CommandStep, CommandStarts, CommandFails, CommandReports, KillerKills, JvmExits
<1>5. FileInv'
  <2> USE <1>t, BoundsAssumption DEF SupervisionInv, FileInv, jnlpVars, Runs
  <2>1. CASE ExecutorLaunches(c)
        BY <2>1 DEF ExecutorLaunches, WritesJnlpFile, FailsToWriteJnlpFile, NeedsNoJnlpFile
  <2>2. CASE ExecutorSetsStarted(c) \/ ExecutorSeesStop(c) \/ ExecutorSignalsKiller(c)
             \/ ExecutorReaps(c)
    <3>1. /\ UNCHANGED jnlpVars
          /\ \E to \in {"polling", "stopping", "reaping", "ending"} :
                executor' = [executor EXCEPT ![c] = to]
          BY <2>2 DEF ExecutorSetsStarted, ExecutorSeesStop, ExecutorSignalsKiller, ExecutorReaps
    <3> QED BY <3>1
  <2>3. CASE ExecutorSetsStopped(c)
        BY <2>3 DEF ExecutorSetsStopped
  <2>4. CASE ExecutorRemovesFile(c)
        BY <2>4 DEF ExecutorRemovesFile
  <2>5. CASE CommandStarts(c) \/ CommandFails(c)
        BY <2>5 DEF CommandStarts, CommandFails
  <2>6. CASE CommandReports(c)
        <3>1. UNCHANGED <<jnlpVars, executor>>
              BY <2>6 DEF CommandReports
        <3> QED BY <3>1
  <2>7. CASE KillerKills(c) \/ JvmExits(c)
        BY <2>7 DEF KillerKills, JvmExits
  <2> QED BY <2>1, <2>2, <2>3, <2>4, <2>5, <2>6, <2>7 DEF ExecutorStep, CommandStep
<1> QED BY <1>1, <1>3, <1>4, <1>5 DEF SupervisionInv

(* In every reachable state the executor, the command goroutine, killer    *)
(* and Java process of every run are at places that fit together.          *)
THEOREM SupervisionInvariant == Spec => []SupervisionInv
<1>1. TypeOK /\ SupervisionInv /\ [Next]_vars => SupervisionInv'
  <2> SUFFICES ASSUME TypeOK, SupervisionInv, [Next]_vars PROVE SupervisionInv'
      OBVIOUS
  <2>1. ASSUME UNCHANGED <<run, executor, command, killer, jvm, jnlpVars>>,
               mainPc' \in Early => mainPc' = mainPc
        PROVE  SupervisionInv'
        BY <2>1 DEF SupervisionInv, ProcessInv, FileInv, jnlpVars
  <2>2. CASE UNCHANGED vars
        BY <2>1, <2>2 DEF vars, program, mainVars, clientVars
  <2>3. CASE Interrupt
    <3>1. UNCHANGED <<run, executor, command, killer, jvm, jnlpVars>>
          /\ mainPc' \in {mainPc, "killed"}
          BY <2>3 DEF Interrupt, clientVars
    <3> QED BY <3>1, <2>1 DEF Early
  <2>4. ASSUME NEW r \in Runs, WatcherStep(r) PROVE SupervisionInv'
        BY <2>1, <2>4 DEF WatcherStep, WatcherReceives, WatcherRequestsExit, WatcherChecks,
                          WatcherSetsStopping, mainVars, clientVars
  <2>5. ASSUME NEW s \in Stoppers, StopChecks(s) \/ StopSets(s)
        PROVE  SupervisionInv'
        BY <2>1, <2>5 DEF StopChecks, StopSets, mainVars,
                          clientVars
  <2>6. CASE Next
        BY <2>3, <2>4, <2>5, <2>6, NextCases, MainKeepsSupervision, ClientKeepsSupervision
  <2> QED BY <2>2, <2>6
<1> QED BY SupervisionInit, <1>1, TypeCorrect, PTL DEF Spec

(* execute never returns while its Java process runs, whoever stopped it.  *)
THEOREM ClientsAreSupervised == Spec => []NoUnsupervisedClient
<1>1. TypeOK /\ SupervisionInv => NoUnsupervisedClient
      BY DEF TypeOK, SupervisionInv, ProcessInv, NoUnsupervisedClient
<1> QED BY <1>1, TypeCorrect, SupervisionInvariant, PTL

(* The customised JNLP file does not outlive the execution that wrote it,  *)
(* unless it was not written whole, however the executions of several runs *)
(* write, fail to write and remove the one file.                           *)
THEOREM JnlpFilesAreRemoved == Spec => []NoStaleJnlpFile
<1>1. SupervisionInv => NoStaleJnlpFile
      BY DEF SupervisionInv, FileInv, NoStaleJnlpFile
<1> QED BY <1>1, SupervisionInvariant, PTL

-----------------------------------------------------------------------------
(* What all of it is for: the loop and its goroutines implement            *)
(* Supervision.                                                            *)

(* The loop goes on only after a decision that was not to exit.            *)
LoopInv == mainPc \in {"restarting", "sleeping"} => exitFlag = FALSE

(* mode.go:114-118 and launcher.go:132: a run that returned TRUE leaves    *)
(* the loop.                                                               *)
LEMMA LoopInvariant == Spec => []LoopInv
<1>1. Init => LoopInv
      BY DEF Init, LoopInv
<1>2. LoopInv /\ [Next]_vars => LoopInv'
  <2> SUFFICES ASSUME LoopInv, [Next]_vars PROVE LoopInv'
      OBVIOUS
  <2>1. ASSUME UNCHANGED exitFlag,
               mainPc' \in {"restarting", "sleeping"} => mainPc \in {"restarting", "sleeping"}
        PROVE  LoopInv'
        BY <2>1 DEF LoopInv
  <2>2. CASE UNCHANGED vars
        BY <2>1, <2>2 DEF vars, program, mainVars
  <2>3. CASE MainNotifiesStopped
        BY <2>3 DEF MainNotifiesStopped, LoopInv
  <2>4. CASE MainRestarts \/ MainSleeps \/ MainWakes
        BY <2>1, <2>4 DEF MainRestarts, MainSleeps, MainWakes, Relaunches, MainAt
  <2>5. CASE \/ MainNotifiesStarting \/ MainChecksStart \/ MainSetsStarting
             \/ MainNotifiesStarted \/ MainSeesStopped \/ MainSendsFalse \/ MainSendsInterrupt
             \/ MainReceivesFirst \/ MainReceivesSecond
    <3>1. mainPc' \notin {"restarting", "sleeping"}
          BY <2>5 DEF MainNotifiesStarting, MainChecksStart, MainSetsStarting,
                      MainNotifiesStarted, MainSeesStopped, MainSendsFalse, MainSendsInterrupt,
                      MainReceivesFirst, MainReceivesSecond, MainAt
    <3> QED BY <3>1 DEF LoopInv
  <2>6. CASE Interrupt
        BY <2>1, <2>6 DEF Interrupt
  <2>7. ASSUME NEW r \in Runs, WatcherStep(r) PROVE LoopInv'
        BY <2>1, <2>7 DEF WatcherStep, WatcherReceives, WatcherRequestsExit, WatcherChecks,
                          WatcherSetsStopping, mainVars
  <2> QED BY <2>1, <2>2, <2>3, <2>4, <2>5, <2>6, <2>7, NextCases, ClientLeavesHandshake,
             StopperLeavesHandshake DEF MainStep
<1> QED BY <1>1, <1>2, PTL DEF Spec

(* Before the main goroutine and the watcher of a run have sent anything,  *)
(* nothing is in its channel; the run is open.                             *)
LEMMA NothingSentYet ==
    ASSUME TypeOK, HandshakeInv, NEW r \in Runs, r > run \/ (r = run /\ mainPc \in Early)
    PROVE  exitRequested[r] = <<>>
<1>1. run \in Int /\ r \in Int
      BY DEF TypeOK, Runs
<1>2. MainSent(r) = 0 /\ Taken(r) = 0 /\ WatcherSent(r) = 0
      BY <1>1 DEF MainSent, Taken, WatcherSent, HandshakeInv, Early, Closed
<1>3. Buffered(r) = 0
      BY <1>2 DEF HandshakeInv
<1> QED BY <1>3, EmptySeq DEF Buffered, TypeOK

(* What a step leaves of the decision.                                     *)
LEMMA DecisionKept ==
    ASSUME UNCHANGED run, Decided' <=> Decided,
           Decided => exitFlag' = exitFlag,
           Decided \/ exitRequested'[run] = exitRequested[run]
    PROVE  Decision' = Decision
BY DEF Decision

(* The first value that is sent decides; one that is sent behind another   *)
(* one does not.                                                           *)
LEMMA SendDecides ==
    ASSUME NEW b \in BOOLEAN, ~Decided, ~Decided', UNCHANGED run,
           exitRequested[run] \in Seq(BOOLEAN),
           exitRequested'[run] = Append(exitRequested[run], b)
    PROVE  IF exitRequested[run] = <<>>
           THEN Decision = "open" /\ Decision' = Outcome(b)
           ELSE Decision' = Decision
<1>1. exitRequested'[run] # <<>>
      BY AppendProperties
<1>2. Decision' = Outcome(Head(exitRequested'[run]))
      BY <1>1 DEF Decision
<1>3. CASE exitRequested[run] = <<>>
  <2>1. Head(exitRequested'[run]) = b
        BY <1>3, HeadTailAppend
  <2>2. Decision = "open"
        BY <1>3 DEF Decision
  <2> QED BY <1>2, <1>3, <2>1, <2>2
<1>4. CASE exitRequested[run] # <<>>
  <2>1. Head(exitRequested'[run]) = Head(exitRequested[run])
        BY <1>4, HeadTailAppend
  <2>2. Decision = Outcome(Head(exitRequested[run]))
        BY <1>4 DEF Decision
  <2> QED BY <1>2, <1>4, <2>1, <2>2
<1> QED BY <1>3, <1>4

(* What RunConfiguredMode returns.                                         *)
LEMMA Outcomes == Outcome(TRUE) = "exit" /\ Outcome(FALSE) = "restart"
BY DEF Outcome

(* What of a step Supervision sees.                                        *)
PromisedStep == [Promise!SupervisionNext]_(Promise!svars)

(* A step that the promise does not speak of is a stutter to it.           *)
LEMMA Stutters ==
    ASSUME UNCHANGED <<run, interrupts, jvm>>, Decision' = Decision, Alive' <=> Alive
    PROVE  PromisedStep
BY DEF PromisedStep, Promise!svars, Alive

(* Up to its first send the main goroutine decides nothing: a start that   *)
(* panics aborts an open run.                                              *)
LEMMA StartsAsPromised ==
    ASSUME TypeOK, HandshakeInv, Alive,
           \/ MainNotifiesStarting \/ MainChecksStart \/ MainSetsStarting
           \/ MainNotifiesStarted \/ MainSeesStopped \/ MainSendsInterrupt
    PROVE  PromisedStep
<1>1. /\ UNCHANGED <<run, exitFlag, interrupts, exitRequested, jvm>>
      /\ ~Decided /\ ~Decided'
      BY DEF MainNotifiesStarting, MainChecksStart, MainSetsStarting, MainNotifiesStarted,
             MainSeesStopped, MainSendsInterrupt, MainAt, Decided, channelVars, clientVars
<1>2. Decision' = Decision
      BY <1>1, DecisionKept
<1>3. CASE mainPc' = "panicked"
  <2>1. mainPc \in Early
        BY <1>3 DEF MainNotifiesStarting, MainChecksStart, MainSetsStarting,
               MainNotifiesStarted, MainSeesStopped, MainSendsInterrupt, MainAt, Early
  <2>2. exitRequested[run] = <<>>
        BY <2>1, NothingSentYet DEF TypeOK
  <2>3. Decision = "open"
        BY <1>1, <2>2 DEF Decision
  <2>4. Alive' = FALSE
        BY <1>3 DEF Alive
  <2>5. Promise!Abort
        BY <1>1, <1>2, <2>3, <2>4 DEF Promise!Abort
  <2> QED BY <2>5 DEF PromisedStep, Promise!SupervisionNext
<1>4. CASE mainPc' # "panicked"
  <2>1. Alive'
        BY <1>4 DEF MainNotifiesStarting, MainChecksStart, MainSetsStarting,
               MainNotifiesStarted, MainSeesStopped, MainSendsInterrupt, MainAt, Alive
  <2> QED BY <1>1, <1>2, <2>1, Stutters
<1> QED BY <1>3, <1>4

(* The FALSE of mode.go:108 decides to restart if it is the first value.   *)
LEMMA FalseAsPromised ==
    ASSUME TypeOK, Alive, MainSendsFalse PROVE PromisedStep
<1>1. /\ UNCHANGED <<run, exitFlag, interrupts, jvm>>
      /\ ~Decided /\ ~Decided' /\ Alive'
      /\ exitRequested' = [exitRequested EXCEPT ![run] = Append(exitRequested[run], FALSE)]
      BY DEF MainSendsFalse, MainAt, Decided, Alive, clientVars
<1>2. exitRequested[run] \in Seq(BOOLEAN) /\ run \in Runs
      BY DEF TypeOK
<1>3. exitRequested'[run] = Append(exitRequested[run], FALSE)
      BY <1>1, <1>2 DEF TypeOK
<1>4. CASE exitRequested[run] = <<>>
  <2>1. Decision = "open" /\ Decision' = Outcome(FALSE)
        BY <1>1, <1>2, <1>3, <1>4, SendDecides
  <2>2. Promise!DecideRestart
        BY <1>1, <2>1, Outcomes DEF Promise!DecideRestart
  <2> QED BY <2>2 DEF PromisedStep, Promise!SupervisionNext
<1>5. CASE exitRequested[run] # <<>>
  <2>1. Decision' = Decision
        BY <1>1, <1>2, <1>3, <1>5, SendDecides
  <2> QED BY <1>1, <2>1, Stutters
<1> QED BY <1>4, <1>5

(* Receiving moves the decision from the channel into isExistRequested;    *)
(* the second value changes nothing (mode.go:114-115).                     *)
LEMMA ReceivesAsPromised ==
    ASSUME Alive, MainReceivesFirst \/ MainReceivesSecond PROVE PromisedStep
<1>1. UNCHANGED <<run, interrupts, jvm>> /\ Alive' /\ Decided'
      BY DEF MainReceivesFirst, MainReceivesSecond, MainAt, Decided, Alive, clientVars
<1>2. Decision' = Decision
  <2>1. CASE MainReceivesFirst
    <3>1. ~Decided /\ exitRequested[run] # <<>> /\ exitFlag' = Head(exitRequested[run])
          BY <2>1 DEF MainReceivesFirst, MainAt, Decided
    <3> QED BY <1>1, <3>1 DEF Decision
  <2>2. CASE MainReceivesSecond
    <3>1. Decided /\ exitFlag' = exitFlag
          BY <2>2 DEF MainReceivesSecond, MainAt, Decided
    <3> QED BY <1>1, <3>1, DecisionKept
  <2> QED BY <2>1, <2>2
<1> QED BY <1>1, <1>2, Stutters

(* The returned value ends the launcher or leads to the next run.          *)
LEMMA ReturnsAsPromised ==
    ASSUME TypeOK, Alive, MainNotifiesStopped PROVE PromisedStep
<1>1. /\ UNCHANGED <<run, exitFlag, interrupts, jvm>>
      /\ Decided /\ Decided'
      BY DEF MainNotifiesStopped, Decided, clientVars
<1>2. Decision' = Decision
      BY <1>1, DecisionKept
<1>3. CASE exitFlag = TRUE
  <2>1. Alive' = FALSE
        BY <1>3 DEF MainNotifiesStopped, Alive
  <2>2. Decision = "exit"
        BY <1>1, <1>3, Outcomes, Zenon DEF Decision
  <2>3. Promise!Leave
        BY <1>1, <1>2, <2>1, <2>2 DEF Promise!Leave
  <2> QED BY <2>3 DEF PromisedStep, Promise!SupervisionNext
<1>4. CASE exitFlag = FALSE
  <2>1. Alive'
        BY <1>4 DEF MainNotifiesStopped, Alive
  <2> QED BY <1>1, <1>2, <2>1, Stutters
<1> QED BY <1>3, <1>4 DEF TypeOK

(* The loop of launcher.Run begins the next run, at once or after a sleep, *)
(* with nothing in the new channel.                                        *)
LEMMA LoopsAsPromised ==
    ASSUME TypeOK, HandshakeInv, LoopInv, Alive, MainRestarts \/ MainSleeps \/ MainWakes
    PROVE  PromisedStep
<1>1. /\ UNCHANGED <<exitFlag, interrupts, exitRequested, jvm>>
      /\ mainPc \in {"restarting", "sleeping"}
      /\ \/ run' = run /\ mainPc' = "sleeping"
         \/ run < MaxRuns /\ run' = run + 1 /\ mainPc' = "notifyStarting"
      BY DEF MainRestarts, MainSleeps, MainWakes, Relaunches, MainAt, channelVars, clientVars
<1>2. Decided /\ Alive'
      BY <1>1 DEF Decided, Alive
<1>3. CASE run' = run /\ mainPc' = "sleeping"
  <2>1. Decision' = Decision
        BY <1>1, <1>2, <1>3, DecisionKept DEF Decided
  <2> QED BY <1>1, <1>2, <1>3, <2>1, Stutters
<1>4. CASE run < MaxRuns /\ run' = run + 1 /\ mainPc' = "notifyStarting"
  <2>1. exitFlag = FALSE
        BY <1>1 DEF LoopInv
  <2>2. Decision = "restart"
        BY <1>2, <2>1, Outcomes, Zenon DEF Decision
  <2>3. run' \in Runs /\ run' > run
        BY <1>4, BoundsAssumption DEF TypeOK, Runs
  <2>4. exitRequested'[run'] = <<>>
        BY <1>1, <2>3, NothingSentYet
  <2>5. Decision' = "open"
        BY <1>4, <2>4 DEF Decision, Decided
  <2>6. Promise!NextRun
        BY <1>1, <1>2, <1>4, <2>2, <2>5 DEF Promise!NextRun
  <2> QED BY <2>6 DEF PromisedStep, Promise!SupervisionNext
<1> QED BY <1>1, <1>3, <1>4

(* A signal makes the launcher interrupted; one that comes before any run  *)
(* listens for it ends an open run with the process.                       *)
LEMMA SignalAsPromised ==
    ASSUME TypeOK, HandshakeInv, Alive, Interrupt PROVE PromisedStep
<1>1. UNCHANGED <<run, exitFlag, exitRequested, jvm>> /\ (interrupts > 0)' = TRUE
      BY BoundsAssumption DEF Interrupt, channelVars, clientVars, jnlpVars, TypeOK
<1>2. mainPc' = mainPc \/ (mainPc' = "killed" /\ mainPc \in Early)
  <2>1. mainPc' = mainPc \/ (mainPc' = "killed" /\ watcher[run] = "none")
        BY DEF Interrupt, Notified, TypeOK
  <2> QED BY <2>1 DEF HandshakeInv, Alive
<1>3. Decided' <=> Decided
      BY <1>2 DEF Decided, Early
<1>4. Decision' = Decision
      BY <1>1, <1>3, DecisionKept
<1>5. Alive' \in BOOLEAN
      BY DEF Alive
<1>6. Promise!BeInterrupted
      BY <1>1, <1>4, <1>5 DEF Promise!BeInterrupted
<1> QED BY <1>6 DEF PromisedStep, Promise!SupervisionNext

(* The TRUE of a watcher decides to exit if it is the first value in the   *)
(* channel of the current run: then somebody did interrupt, for the fake   *)
(* signal comes after FALSE.                                               *)
LEMMA WatcherAsPromised ==
    ASSUME TypeOK, HandshakeInv, ExitInv, Alive, NEW r \in Runs, WatcherStep(r)
    PROVE  PromisedStep
<1>1. /\ UNCHANGED <<mainPc, run, exitFlag, interrupts, jvm>>
      /\ exitRequested[run] \in Seq(BOOLEAN) /\ run \in Runs
      BY DEF WatcherStep, WatcherReceives, WatcherRequestsExit, WatcherChecks,
             WatcherSetsStopping, mainVars, clientVars, TypeOK
<1>2. (Decided' <=> Decided) /\ (Alive' <=> Alive)
      BY <1>1 DEF Decided, Alive
<1>3. ASSUME Decided \/ exitRequested'[run] = exitRequested[run] PROVE PromisedStep
  <2>1. Decision' = Decision
        BY <1>1, <1>2, <1>3, DecisionKept
  <2> QED BY <1>1, <1>2, <2>1, Stutters
<1>4. CASE WatcherReceives(r) \/ WatcherChecks(r) \/ WatcherSetsStopping(r)
  <2>1. exitRequested' = exitRequested
        BY <1>4 DEF WatcherReceives, WatcherChecks, WatcherSetsStopping, channelVars
  <2> QED BY <1>3, <2>1
<1>5. CASE WatcherRequestsExit(r)
  <2>1. /\ watcher[r] = "requesting"
        /\ exitRequested' = [exitRequested EXCEPT ![r] = Append(exitRequested[r], TRUE)]
        BY <1>5 DEF WatcherRequestsExit, WatcherAt
  <2>2. CASE Decided \/ r # run
        BY <1>1, <1>3, <2>1, <2>2 DEF TypeOK
  <2>3. CASE ~Decided /\ r = run
    <3>1. exitRequested'[run] = Append(exitRequested[run], TRUE)
          BY <1>1, <2>1, <2>3 DEF TypeOK
    <3>2. CASE exitRequested[run] = <<>>
      <4>1. Decision = "open" /\ Decision' = Outcome(TRUE)
            BY <1>1, <1>2, <2>3, <3>1, <3>2, SendDecides
      <4>2. mainPc \in {"waiting", "sendFalse", "sendInterrupt", "recvFirst"}
            BY <1>1, <2>1, <2>3 DEF HandshakeInv, Decided, Alive, Early, TypeOK, MainPc
      <4>3. interrupts # 0
        <5> SUFFICES ASSUME interrupts = 0 PROVE FALSE
            OBVIOUS
        <5>0. UnaskedInv
              BY DEF ExitInv
        <5>1. CASE mainPc \in {"waiting", "sendFalse", "sendInterrupt"}
              BY <2>1, <2>3, <5>0, <5>1 DEF UnaskedInv
        <5>2. CASE mainPc = "recvFirst"
          <6>1. FalseFirst(run)
                BY <5>0, <5>2 DEF UnaskedInv
          <6> QED BY <3>2, <6>1, Zenon DEF FalseFirst
        <5> QED BY <4>2, <5>1, <5>2
      <4>4. interrupts > 0
            BY <4>3, BoundsAssumption DEF TypeOK
      <4>5. Promise!DecideExit
            BY <1>1, <1>2, <4>1, <4>4, Outcomes DEF Promise!DecideExit, Alive
      <4> QED BY <4>5 DEF PromisedStep, Promise!SupervisionNext
    <3>3. CASE exitRequested[run] # <<>>
      <4>1. Decision' = Decision
            BY <1>1, <1>2, <2>3, <3>1, <3>3, SendDecides
      <4> QED BY <1>1, <1>2, <4>1, Stutters
    <3> QED BY <3>2, <3>3
  <2> QED BY <2>2, <2>3
<1> QED BY <1>4, <1>5 DEF WatcherStep

(* A Java process begins once, for a run that has begun, and ends once,    *)
(* whether it is killed, ends by itself, or is killed when it has ended.   *)
LEMMA ClientAsPromised ==
    ASSUME TypeOK, SupervisionInv, NEW r \in Runs,
           \/ Alive /\ (ExecutorStep(r) \/ CommandStep(r) \/ KillerKills(r))
           \/ JvmExits(r)
    PROVE  PromisedStep
<1>1. UNCHANGED <<mainPc, run, exitFlag, interrupts, exitRequested>>
      BY ClientLeavesHandshake
<1>2. (Decided' <=> Decided) /\ (Alive' <=> Alive)
      BY <1>1 DEF Decided, Alive
<1>3. Decision' = Decision
      BY <1>1, <1>2, DecisionKept
<1>4. r \in 1..MaxRuns /\ jvm \in [Runs -> {"none", "running", "dead"}]
      BY DEF Runs, TypeOK
<1>5. CASE Alive /\ CommandStarts(r)
  <2>1. command[r] = "starting" /\ jvm' = [jvm EXCEPT ![r] = "running"] /\ Alive
        BY <1>5 DEF CommandStarts, CommandAt
  <2>2. jvm[r] = "none" /\ r <= run
        BY <2>1, BoundsAssumption DEF SupervisionInv, ProcessInv, TypeOK, Runs
  <2>3. Promise!ClientBegins(r)
        BY <1>1, <1>2, <1>3, <2>1, <2>2 DEF Promise!ClientBegins, Alive
  <2> QED BY <1>4, <2>3 DEF PromisedStep, Promise!SupervisionNext
<1>6. ASSUME jvm' = [jvm EXCEPT ![r] = "dead"], jvm[r] # "none" PROVE PromisedStep
  <2>1. CASE jvm[r] = "running"
    <3>1. Promise!ClientEnds(r)
          BY <1>1, <1>2, <1>3, <1>6, <2>1 DEF Promise!ClientEnds, Alive
    <3> QED BY <1>4, <3>1 DEF PromisedStep, Promise!SupervisionNext
  <2>2. CASE jvm[r] = "dead"
    <3>1. jvm' = jvm
          BY <1>4, <1>6, <2>2
    <3> QED BY <1>1, <1>2, <1>3, <3>1, Stutters
  <2> QED BY <1>4, <1>6, <2>1, <2>2
<1>7. CASE KillerKills(r)
  <2>1. killer[r] = "killing" /\ jvm' = [jvm EXCEPT ![r] = "dead"]
        BY <1>7 DEF KillerKills
  <2>2. jvm[r] # "none"
        BY <2>1 DEF SupervisionInv, ProcessInv, TypeOK
  <2> QED BY <1>6, <2>1, <2>2
<1>8. CASE JvmExits(r)
      BY <1>6, <1>8 DEF JvmExits
<1>9. CASE ExecutorStep(r) \/ CommandFails(r) \/ CommandReports(r)
  <2>1. jvm' = jvm
        BY <1>9 DEF ExecutorStep, ExecutorLaunches, ExecutorSetsStarted, ExecutorSeesStop,
                    ExecutorSignalsKiller, ExecutorReaps, ExecutorSetsStopped,
                    ExecutorRemovesFile, CommandFails, CommandReports
  <2> QED BY <1>1, <1>2, <1>3, <2>1, Stutters
<1> QED BY <1>5, <1>7, <1>8, <1>9 DEF CommandStep

(* Callers of Stop() only write the status.                                *)
LEMMA StopperAsPromised ==
    ASSUME NEW s \in Stoppers, StopChecks(s) \/ StopSets(s)
    PROVE  PromisedStep
<1>1. UNCHANGED <<mainPc, run, exitFlag, interrupts, exitRequested>>
      BY StopperLeavesHandshake
<1>2. jvm' = jvm
      BY DEF StopChecks, StopSets, clientVars
<1>3. (Decided' <=> Decided) /\ (Alive' <=> Alive)
      BY <1>1 DEF Decided, Alive
<1>4. Decision' = Decision
      BY <1>1, <1>3, DecisionKept
<1> QED BY <1>1, <1>2, <1>3, <1>4, Stutters

(* The restart loop with its two channels and its goroutines implements    *)
(* Supervision: one decision ends every run, TRUE only after an interrupt, *)
(* the next run begins after FALSE only, and a run has one client process. *)
THEOREM SupervisionIsImplemented == Spec => ImplementsSupervision
<1> DEFINE Inv == TypeOK /\ HandshakeInv /\ ExitInv /\ SupervisionInv /\ LoopInv
<1>1. Init => Promise!SupervisionInit
  <2> SUFFICES ASSUME Init PROVE Promise!SupervisionInit
      OBVIOUS
  <2>1. run = 1 /\ mainPc = "notifyStarting" /\ interrupts = 0
        /\ jvm = [r \in 1..MaxRuns |-> "none"]
        BY DEF Init, Runs
  <2>2. exitRequested[run] = <<>>
        BY <2>1, BoundsAssumption DEF Init, Runs
  <2>3. Decision = "open"
        BY <2>1, <2>2 DEF Decision, Decided
  <2> QED BY <2>1, <2>3 DEF Promise!SupervisionInit, Alive
<1>2. Inv /\ [Next]_vars => [Promise!SupervisionNext]_(Promise!svars)
  <2> SUFFICES ASSUME Inv, [Next]_vars PROVE PromisedStep
      BY DEF PromisedStep
  <2>1. CASE UNCHANGED vars
    <3>1. UNCHANGED <<mainPc, run, exitFlag, interrupts, exitRequested, jvm>>
          BY <2>1 DEF vars, program, mainVars, channelVars, clientVars
    <3>2. (Decided' <=> Decided) /\ (Alive' <=> Alive)
          BY <3>1 DEF Decided, Alive
    <3>3. Decision' = Decision
          BY <3>1, <3>2, DecisionKept
    <3> QED BY <3>1, <3>2, <3>3, Stutters
  <2>2. CASE Next
    <3>1. ASSUME Alive, MainStep PROVE PromisedStep
          BY <3>1, StartsAsPromised, FalseAsPromised, ReceivesAsPromised, ReturnsAsPromised,
             LoopsAsPromised DEF MainStep
    <3> QED BY <2>2, <3>1, SignalAsPromised, WatcherAsPromised, ClientAsPromised,
               StopperAsPromised DEF Next, Step
  <2> QED BY <2>1, <2>2
<1>3. Spec => []Inv
  <2>1. Spec => []ExitInv
        BY ExitInvariant
  <2> QED BY <2>1, TypeCorrect, HandshakeInvariant, SupervisionInvariant, LoopInvariant, PTL
<1> QED BY <1>1, <1>2, <1>3, PTL DEF Spec, ImplementsSupervision, Promise!SupervisionSpec
=============================================================================
