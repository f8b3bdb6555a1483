----------------------------- MODULE MCRestarters -----------------------------
(* Instances of Restarters for TLC: an integer type of 4 bits holds        *)
(* 3 * MaxOffline, as int16 does for the thresholds up to 10922.           *)
EXTENDS Restarters

ASSUME SensibleThreshold
=============================================================================
