--------------------------- MODULE SSHTunnelProofs ---------------------------
(***************************************************************************)
(* What holds of SSHTunnel for every number of probes: that setup and      *)
(* teardown leave all of a tunnel or none, and how long it may be silent.  *)
(***************************************************************************)
EXTENDS SSHTunnel, TLAPS

(* The steps of the other goroutines, as the main goroutine sees them.     *)
MainIsStill == UNCHANGED <<main, after, setup, tunnelConnected>>

LEMMA WatchersLeaveMain ==
    ProberStep \/ EvaluatorStep \/ JenkinsMoves \/ UNCHANGED vars => MainIsStill
BY DEF ProberStep, Asks, IsAnswered, ReadsExpected, SetsLast, EvaluatorStep, Evaluates,
       SeesExpected, Compares, Adds, Stops, JenkinsMoves, vars, MainIsStill, setup

-----------------------------------------------------------------------------
(* What the main goroutine has of the tunnel at each of its steps.         *)
Whole == uri = "local" /\ jnlpArgs /\ closables = Tunnel
Bare == uri # "local" /\ ~jnlpArgs

SetupInv ==
    /\ ciHostURL \in {"nil", "jenkins"}
    /\ main \in {"closing", "dialing", "askingPort", "listening", "applying"} => uri = ciHostURL
    /\ main \notin {"starting", "running", "stopped"} => ciHostURL = "jenkins"
    /\ ciHostURL = "nil" => Bare /\ ~tunnelConnected /\ closables = {}
    /\ main \in {"starting", "closing", "dialing", "askingPort", "listening", "applying"} =>
           Bare /\ ~tunnelConnected
    /\ main \in {"starting", "dialing"} => closables = {}
    /\ main \in {"askingPort", "listening"} => closables = {"ssh"}
    /\ main = "applying" => closables = Tunnel
    /\ main = "marking" => Whole /\ ~tunnelConnected
    /\ main \in {"resettingLast", "resettingExpected", "restoring"} => ~tunnelConnected
    /\ main \in {"running", "stopped"} =>
           \/ Whole /\ tunnelConnected
           \/ Bare /\ ~tunnelConnected /\ closables \subseteq {"ssh"}
    /\ tunnelConnected => Whole

(* Types and setup need each other: without SetupInv, restoring CIHostURL  *)
(* could store the "nil" that ciHostURL holds before the first setup.      *)
LEMMA SetupInductive == Spec => [](TypeOK /\ SetupInv)
<1>1. Init => TypeOK
  <2>1. Init => main = "starting" /\ after = "dialing" /\ ciHostURL = "nil"
                /\ uri \in {"jenkins", "garbled"} /\ prober = "waiting" /\ evaluator = "waiting" /\ closables = {}
    BY DEF Init
  <2>2. Init => /\ expected \in Nat /\ last \in Nat /\ silent \in Nat
                /\ got \in Nat /\ seen \in Nat
    BY DEF Init
  <2>3. Init => /\ jnlpArgs \in BOOLEAN /\ tunnelConnected \in BOOLEAN
                /\ alive \in BOOLEAN /\ asked \in BOOLEAN
    BY DEF Init
  <2> QED
    BY <2>1, <2>2, <2>3 DEF TypeOK
<1>2. Init => SetupInv
  BY DEF Init, SetupInv, Bare
<1>3. TypeOK /\ SetupInv /\ [Next]_vars => TypeOK'
  <2> SUFFICES ASSUME TypeOK, SetupInv, [Next]_vars PROVE TypeOK'
    OBVIOUS
  <2> USE DEF TypeOK, Tunnel, MainAt, ProberAt, EvaluatorAt, setup, counters, watchers
  <2>1. CASE ParsesURI
    BY <2>1 DEF ParsesURI
  <2>25. CASE RejectsURI
    BY <2>25 DEF RejectsURI
  <2>2. CASE Dials
    <3>1. CASE UNCHANGED closables
      BY <2>2, <3>1 DEF Dials
    <3>2. CASE main' = "askingPort" /\ closables' = closables \cup {"ssh"}
      BY <2>2, <3>2 DEF Dials
    <3> QED
      BY <2>2, <3>1, <3>2 DEF Dials
  <2>3. CASE FetchesPort
    BY <2>3 DEF FetchesPort
  <2>4. CASE Listens
    <3> PICK opened \in SUBSET {"http", "jnlp"} :
          /\ closables' = closables \cup opened
          /\ main' = IF opened = {"http", "jnlp"} THEN "applying" ELSE "disconnecting"
          /\ after' = IF main' = "disconnecting" THEN "running" ELSE after
          /\ UNCHANGED <<ciHostURL, uri, jnlpArgs, tunnelConnected, counters, watchers,
                         alive, asked>>
      BY <2>4 DEF Listens
    <3> QED
      OBVIOUS
  <2>5. CASE Applies
    BY <2>5 DEF Applies
  <2>6. CASE Marks
    BY <2>6 DEF Marks
  <2>7. CASE Disconnects
    <3>1. tunnelConnected' \in BOOLEAN /\ main' = "resettingLast"
      BY <2>7 DEF Disconnects
    <3>2. UNCHANGED <<after, setup, counters, watchers, alive, asked>>
      BY <2>7 DEF Disconnects
    <3> QED
      BY <3>1, <3>2
  <2>8. CASE ResetsLast
    BY <2>8 DEF ResetsLast
  <2>9. CASE ResetsExpected
    BY <2>9 DEF ResetsExpected
  <2>10. CASE Restores
    BY <2>10 DEF Restores, SetupInv
  <2>11. CASE ClosesAll
    BY <2>11 DEF ClosesAll
  <2>12. CASE HearsStopped
    BY <2>12 DEF HearsStopped
  <2>13. CASE ModeEnds
    <3>1. asked' \in BOOLEAN /\ main' \in {"running", "stopped"}
      BY <2>13 DEF ModeEnds
    <3>2. UNCHANGED <<after, setup, tunnelConnected, counters, watchers, alive>>
      BY <2>13 DEF ModeEnds
    <3> QED
      BY <3>1, <3>2
  <2>14. CASE Asks
    BY <2>14 DEF Asks
  <2>15. CASE IsAnswered
    BY <2>15 DEF IsAnswered
  <2>16. CASE ReadsExpected
    BY <2>16 DEF ReadsExpected
  <2>17. CASE SetsLast
    BY <2>17 DEF SetsLast
  <2>18. CASE Evaluates
    BY <2>18 DEF Evaluates
  <2>19. CASE SeesExpected
    BY <2>19 DEF SeesExpected
  <2>20. CASE Compares
    BY <2>20 DEF Compares
  <2>21. CASE Adds
    BY <2>21 DEF Adds
  <2>22. CASE Stops
    BY <2>22 DEF Stops
  <2>23. CASE JenkinsMoves
    BY <2>23 DEF JenkinsMoves
  <2>24. CASE UNCHANGED vars
    BY <2>24 DEF vars
  <2> QED
    BY <2>1, <2>2, <2>3, <2>4, <2>5, <2>6, <2>7, <2>8, <2>9, <2>10, <2>11, <2>12,
       <2>13, <2>14, <2>15, <2>16, <2>17, <2>18, <2>19, <2>20, <2>21, <2>22,
       <2>23, <2>24, <2>25
    DEF Next, MainStep, ProberStep, EvaluatorStep
<1>4. TypeOK /\ SetupInv /\ [Next]_vars => SetupInv'
  <2> SUFFICES ASSUME TypeOK, SetupInv, [Next]_vars PROVE SetupInv'
    OBVIOUS
  <2> USE DEF SetupInv, Whole, Bare, Tunnel, MainAt, setup
  <2>1. CASE ParsesURI
    BY <2>1 DEF ParsesURI, TypeOK
  <2>25. CASE RejectsURI
    BY <2>25 DEF RejectsURI
  <2>2. CASE Dials
    BY <2>2 DEF Dials
  <2>3. CASE FetchesPort
    BY <2>3 DEF FetchesPort
  <2>4. CASE Listens
    <3> PICK opened \in SUBSET {"http", "jnlp"} :
          /\ main = "listening"
          /\ main' = IF opened = {"http", "jnlp"} THEN "applying" ELSE "disconnecting"
          /\ closables' = closables \cup opened
          /\ UNCHANGED <<ciHostURL, uri, jnlpArgs, tunnelConnected>>
      BY <2>4 DEF Listens
    <3> QED
      OBVIOUS
  <2>5. CASE Applies
    BY <2>5 DEF Applies
  <2>6. CASE Marks
    BY <2>6 DEF Marks
  <2>7. CASE Disconnects
    BY <2>7 DEF Disconnects
  <2>8. CASE ResetsLast \/ ResetsExpected
    BY <2>8 DEF ResetsLast, ResetsExpected
  <2>9. CASE Restores
    BY <2>9 DEF Restores
  <2>10. CASE ClosesAll
    BY <2>10 DEF ClosesAll, TypeOK
  <2>11. CASE HearsStopped \/ ModeEnds
    BY <2>11 DEF HearsStopped, ModeEnds
  <2>12. CASE MainIsStill
    BY <2>12 DEF MainIsStill
  <2> QED
    BY <2>1, <2>2, <2>3, <2>4, <2>5, <2>6, <2>7, <2>8, <2>9, <2>10, <2>11, <2>12,
       <2>25, WatchersLeaveMain DEF Next, MainStep
<1> QED
  BY <1>1, <1>2, <1>3, <1>4, PTL DEF Spec

(* Type correctness.                                                       *)
THEOREM TypeCorrect == Spec => []TypeOK
BY SetupInductive, PTL

(* The client runs with all of the tunnel or with nothing of it, whichever *)
(* step of the setup failed, and who sees tunnelConnected may rely on the  *)
(* rest (sshtunnel.go:132, 184-223).                                       *)
THEOREM TunnelIsWholeOrNone == Spec => []AllOrNothing
<1>1. TypeOK /\ SetupInv => AllOrNothing
  <2> SUFFICES ASSUME TypeOK, SetupInv PROVE AllOrNothing
    OBVIOUS
  <2>1. ~(Tunnel \subseteq {"ssh"})
    BY DEF Tunnel
  <2>2. jnlpArgs \in BOOLEAN /\ tunnelConnected \in BOOLEAN
    BY DEF TypeOK
  <2>3. CASE main # "running"
    BY <2>3 DEF AllOrNothing, SetupInv, Whole
  <2>4. CASE Whole /\ tunnelConnected
    BY <2>2, <2>4 DEF AllOrNothing, Whole
  <2>5. CASE Bare /\ ~tunnelConnected /\ closables \subseteq {"ssh"}
    BY <2>1, <2>2, <2>5 DEF AllOrNothing, Bare
  <2> QED
    BY <2>3, <2>4, <2>5 DEF SetupInv
<1> QED
  BY <1>1, SetupInductive, PTL

(* No restart dials with sockets left open, or leads the tunnel to itself  *)
(* (sshtunnel.go:56, 135, 159).                                            *)
THEOREM SetupStartsAfresh == Spec => []StartsAfresh
<1>1. SetupInv => StartsAfresh
  BY DEF SetupInv, StartsAfresh, Bare
<1> QED
  BY <1>1, SetupInductive, PTL

-----------------------------------------------------------------------------
(* How many evaluations may still add to expected, when it has the value e *)
(* and neither a success nor a reset comes in between: those that find it  *)
(* at most one away from last, now or after last was reset to 0.           *)
Near(e, l) == IF e <= l + 1 /\ l <= e + 1 THEN l + 2 - e ELSE 0
Larger(a, b) == IF a < b THEN b ELSE a
Room(e) == Larger(Near(e, last), Near(e, 0))

(* One more if the comparison is over, or is made with an old value.       *)
Left ==
    IF evaluator = "adding" \/ (evaluator = "comparing" /\ seen # expected)
    THEN Larger(Room(expected), 1 + Room(expected + 1))
    ELSE Room(expected)

SilenceInv == silent + Left <= 4

LEMMA RoomIsSmall == \A e, l \in Nat : Near(e, l) \in 0..3
BY DEF Near

(* An evaluation that compares with the present value uses room up.        *)
LEMMA RoomIsUsedUp ==
    ASSUME last \in Nat, NEW e \in Nat, Distance(e, last) <= 1
    PROVE  1 + Room(e + 1) <= Room(e)
BY DEF Room, Near, Larger, Distance

LEMMA LeftIsBounded == TypeOK => Left \in 0..4
<1> SUFFICES ASSUME TypeOK PROVE Left \in 0..4
  OBVIOUS
<1>1. \A e \in Nat : Room(e) \in 0..3
  BY RoomIsSmall DEF TypeOK, Room, Larger
<1>2. Room(expected) \in 0..3 /\ Room(expected + 1) \in 0..3
  BY <1>1 DEF TypeOK
<1> QED
  BY <1>2 DEF Left, Larger

(* A tunnel that is silent is noticed after four evaluations, for any      *)
(* number of probes and resets in any order (sshtunnel.go:94-124).         *)
THEOREM SilenceIsNoticed == Spec => []SilenceIsBounded
<1>2. Init => SilenceInv
  BY DEF Init, SilenceInv, Left, Room, Near, Larger
<1>3. TypeOK /\ TypeOK' /\ SilenceInv /\ [Next]_vars => SilenceInv'
  <2> SUFFICES ASSUME TypeOK, TypeOK', SilenceInv, [Next]_vars PROVE SilenceInv'
    OBVIOUS
  <2>1. \A e \in Nat : Room(e) \in 0..3 /\ Room(e)' \in 0..3
    BY RoomIsSmall DEF TypeOK, Room, Larger
  <2>2. expected \in Nat /\ expected + 1 \in Nat /\ silent \in Nat
    BY DEF TypeOK
  <2>3. CASE UNCHANGED <<counters, evaluator, seen>>
    BY <2>3 DEF SilenceInv, Left, Room, counters
  <2>4. CASE ResetsLast
    <3>1. \A e \in Nat : Room(e)' <= Room(e)
      BY <2>4 DEF ResetsLast, Room, Near, Larger, TypeOK
    <3> QED
      BY <2>1, <2>2, <2>4, <3>1 DEF SilenceInv, Left, ResetsLast, watchers, Larger
  <2>5. CASE silent' = 0
    <3>1. Left' \in 0..4
      <4>1. expected' \in Nat
        BY DEF TypeOK
      <4>2. expected' + 1 \in Nat
        <5>1. \A n \in Nat : n + 1 \in Nat
          OBVIOUS
        <5> QED
          BY <4>1, <5>1, Zenon
      <4>3. Room(expected)' \in 0..3 /\ Room(expected + 1)' \in 0..3
        BY <2>1, <4>1, <4>2
      <4> QED
        BY <4>3 DEF Left, Larger
    <3>2. \A n \in 0..4 : 0 + n <= 4
      OBVIOUS
    <3>3. silent' + Left' <= 4
      BY <2>5, <3>1, <3>2, Zenon
    <3> QED
      BY <3>3 DEF SilenceInv
  <2>6. CASE Evaluates
    BY <2>6 DEF SilenceInv, Left, Room, Evaluates, EvaluatorAt, counters
  <2>7. CASE SeesExpected
    BY <2>7 DEF SilenceInv, Left, Room, SeesExpected, EvaluatorAt, counters
  <2>8. CASE Compares
    <3>1. UNCHANGED <<expected, last, silent, seen>> /\ evaluator = "comparing"
      BY <2>8 DEF Compares, EvaluatorAt, counters
    <3>2. CASE Distance(seen, last) > 1
      BY <2>1, <2>2, <2>8, <3>1, <3>2 DEF Compares, EvaluatorAt, SilenceInv, Left, Room, Larger
    <3>3. CASE ~(Distance(seen, last) > 1)
      <4>1. evaluator' = "adding"
        BY <2>8, <3>3 DEF Compares, EvaluatorAt
      <4>2. CASE seen # expected
        BY <3>1, <4>1, <4>2 DEF SilenceInv, Left, Room
      <4>3. CASE seen = expected
        <5>1. 1 + Room(expected + 1) <= Room(expected)
          BY <3>3, <4>3, RoomIsUsedUp DEF TypeOK, Distance
        <5> QED
          BY <2>1, <2>2, <3>1, <4>1, <5>1 DEF SilenceInv, Left, Room, Larger
      <4> QED
        BY <4>2, <4>3
    <3> QED
      BY <3>2, <3>3
  <2>9. CASE Adds
    <3>1. /\ evaluator = "adding" /\ evaluator' = "waiting"
          /\ expected' = expected + 1 /\ silent' = silent + 1 /\ last' = last
      BY <2>9 DEF Adds, EvaluatorAt
    <3>2. Left' = Room(expected + 1)
      BY <3>1 DEF Left, Room
    <3>3. 1 + Room(expected + 1) <= Left
      BY <2>1, <2>2, <3>1 DEF Left, Larger
    <3> QED
      BY <2>1, <2>2, <3>1, <3>2, <3>3, LeftIsBounded DEF SilenceInv
  <2>10. CASE Stops
    BY <2>10 DEF SilenceInv, Left, Room, Stops, EvaluatorAt, counters
  <2>11. CASE ParsesURI \/ RejectsURI \/ Dials \/ FetchesPort \/ Applies \/ Marks \/ Disconnects
    BY <2>3, <2>11 DEF ParsesURI, RejectsURI, Dials, FetchesPort, Applies, Marks, Disconnects, watchers
  <2>12. CASE Listens
    BY <2>3, <2>12 DEF Listens, watchers
  <2>13. CASE Restores \/ ClosesAll \/ HearsStopped \/ ModeEnds \/ JenkinsMoves
    BY <2>3, <2>13 DEF Restores, ClosesAll, HearsStopped, ModeEnds, JenkinsMoves, watchers
  <2>14. CASE Asks \/ IsAnswered \/ ReadsExpected
    BY <2>3, <2>14 DEF Asks, IsAnswered, ReadsExpected
  <2>15. CASE UNCHANGED vars
    BY <2>3, <2>15 DEF vars, watchers
  <2>16. CASE ResetsExpected \/ SetsLast
    BY <2>5, <2>16 DEF ResetsExpected, SetsLast
  <2> QED
    BY <2>4, <2>6, <2>7, <2>8, <2>9, <2>10, <2>11, <2>12, <2>13, <2>14, <2>15, <2>16
    DEF Next, MainStep, ProberStep, EvaluatorStep
<1>4. TypeOK /\ SilenceInv => SilenceIsBounded
  BY LeftIsBounded DEF SilenceInv, SilenceIsBounded, TypeOK
<1> QED
  BY <1>2, <1>3, <1>4, TypeCorrect, PTL DEF Spec
=============================================================================
