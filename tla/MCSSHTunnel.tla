----------------------------- MODULE MCSSHTunnel -----------------------------
(* The instance of SSHTunnel for TLC: MaxTick is given in ssh_tunnel.cfg.  *)
EXTENDS SSHTunnel
=============================================================================
