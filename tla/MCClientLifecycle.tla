-------------------------- MODULE MCClientLifecycle --------------------------
(* Instances of ClientLifecycle for TLC.                                   *)
EXTENDS ClientLifecycle

\* One goroutine that calls Stop() again and again, and nobody who does.
OneCaller == {"caller"}
Nobody == {}
=============================================================================
