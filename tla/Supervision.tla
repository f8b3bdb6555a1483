----------------------------- MODULE Supervision -----------------------------
(***************************************************************************)
(* What the restart loop promises, without its channels: every run of the  *)
(* client is closed by ONE decision, to restart or to exit; exit needs an  *)
(* interrupt; the next run begins only after the decision to restart; and  *)
(* each run has at most one client process, which begins while that run or *)
(* a later one is current.                                                 *)
(* ClientLifecycle implements this with two channels and four goroutines.  *)
(***************************************************************************)
EXTENDS Integers

CONSTANT MaxRuns  \* bound: how many runs the loop makes

VARIABLES
    run,          \* the current run
    decision,     \* what was decided for it
    interrupted,  \* whether the user asked the launcher to end
    client,       \* the client process of every run
    up            \* whether the launcher is there

svars == <<run, decision, interrupted, client, up>>

SupervisionInit ==
    /\ run = 1
    /\ decision = "open"
    /\ interrupted = FALSE
    /\ client = [r \in 1..MaxRuns |-> "none"]
    /\ up = TRUE

BeInterrupted ==
    /\ up /\ interrupted' = TRUE
    /\ up' \in BOOLEAN
    /\ UNCHANGED <<run, decision, client>>

DecideRestart ==
    /\ up /\ decision = "open"
    /\ decision' = "restart"
    /\ UNCHANGED <<run, interrupted, client, up>>

DecideExit ==
    /\ up /\ decision = "open" /\ interrupted
    /\ decision' = "exit"
    /\ UNCHANGED <<run, interrupted, client, up>>

NextRun ==
    /\ up /\ decision = "restart" /\ run < MaxRuns
    /\ run' = run + 1
    /\ decision' = "open"
    /\ UNCHANGED <<interrupted, client, up>>

Leave ==
    /\ up /\ decision = "exit"
    /\ up' = FALSE
    /\ UNCHANGED <<run, decision, interrupted, client>>

(* Start() panics. *)
Abort ==
    /\ up /\ decision = "open"
    /\ up' = FALSE
    /\ UNCHANGED <<run, decision, interrupted, client>>

ClientBegins(r) ==
    /\ up /\ r <= run /\ client[r] = "none"
    /\ client' = [client EXCEPT ![r] = "running"]
    /\ UNCHANGED <<run, decision, interrupted, up>>

ClientEnds(r) ==
    /\ client[r] = "running"
    /\ client' = [client EXCEPT ![r] = "dead"]
    /\ UNCHANGED <<run, decision, interrupted, up>>

SupervisionNext ==
    \/ BeInterrupted \/ DecideRestart \/ DecideExit \/ NextRun \/ Leave \/ Abort
    \/ \E r \in 1..MaxRuns : ClientBegins(r) \/ ClientEnds(r)

SupervisionSpec == SupervisionInit /\ [][SupervisionNext]_svars
=============================================================================
