------------------------------ MODULE MCRunModes ------------------------------
(***************************************************************************)
(* What goes on beside the life cycle of the two modes. These components   *)
(* share no variable, so that interleaving one with another shows nothing: *)
(* a behaviour is one of a single component, beside the initial states of  *)
(* the others.                                                             *)
(***************************************************************************)
EXTENDS ClientJar, JnlpDocument, ConsoleOutput, ServerMode, FullGC

VARIABLE part  \* the component at work

Init ==
    /\ part \in {"jar", "document", "console", "server", "gc"}
    /\ JarInit /\ DocumentInit /\ ConsoleInit /\ ServerInit /\ GcInit

JarMoves ==
    /\ part = "jar" /\ JarNext
    /\ UNCHANGED <<part, documentVars, consoleVars, serverVars, gcVars>>

DocumentMoves ==
    /\ part = "document" /\ DocumentNext
    /\ UNCHANGED <<part, jarVars, consoleVars, serverVars, gcVars>>

ConsoleMoves ==
    /\ part = "console" /\ ConsoleNext
    /\ UNCHANGED <<part, jarVars, documentVars, serverVars, gcVars>>

ServerMoves ==
    /\ part = "server" /\ ServerNext
    /\ UNCHANGED <<part, jarVars, documentVars, consoleVars, gcVars>>

GcMoves ==
    /\ part = "gc" /\ GcNext
    /\ UNCHANGED <<part, jarVars, documentVars, consoleVars, serverVars>>

Next == JarMoves \/ DocumentMoves \/ ConsoleMoves \/ ServerMoves \/ GcMoves

Spec == Init /\ [][Next]_<<part, jarVars, documentVars, consoleVars, serverVars, gcVars>>

(* A component that is not at work stays where nothing of it is owed.      *)
FairSpec == Spec /\ ConsoleFairness /\ ServerFairness /\ GcFairness

FewNames == {"-url", "-tunnel"}
FewWords == {"key", "-other"}
=============================================================================
