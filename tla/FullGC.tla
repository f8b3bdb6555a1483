-------------------------------- MODULE FullGC --------------------------------
(***************************************************************************)
(* environment/gc.go: two goroutines, one for a busy and one for an idle   *)
(* node, that post a script to Jenkins at every tick; and CIRequest of     *)
(* util/config.go, which adds the crumb that a protected Jenkins wants and *)
(* keeps it in two strings of the configuration that no lock protects.     *)
(*                                                                         *)
(* A string is two words. Two goroutines that write it together (data race)*)
(* may leave one word of each. A torn read of a single write never gives "",*)
(* and is over with the request; it is left out, as is a crash of it.      *)
(***************************************************************************)
EXTENDS Naturals

VARIABLES
    nodeIsIdle,  \* util.NodeIsIdle, which NodeMonitor keeps
    header,      \* JenkinsConnection.ciCrumbHeader
    value,       \* JenkinsConnection.ciCrumbValue
    invoker,     \* where the goroutine is that expects an idle node, or a busy one
    carries,     \* whether its request carries the crumb
    denied       \* history: whether the crumb issuer ever failed to answer

gcVars == <<nodeIsIdle, header, value, invoker, carries, denied>>

GcTypeOK ==
    /\ nodeIsIdle \in BOOLEAN
    /\ header \in {"", "-", "crumb", "mixed"}
    /\ value \in {"", "crumb"}
    /\ invoker \in [BOOLEAN -> {"waiting", "requesting", "disabling", "fetching", "storing",
                                "completing", "adding", "naming", "sending"}]
    /\ carries \in [BOOLEAN -> BOOLEAN]
    /\ denied \in BOOLEAN

GcInit ==
    /\ nodeIsIdle = FALSE
    /\ header = "" /\ value = ""
    /\ invoker = [expected \in BOOLEAN |-> "waiting"]
    /\ carries = [expected \in BOOLEAN |-> FALSE]
    /\ denied = FALSE

NodeChanges ==
    /\ nodeIsIdle' = ~nodeIsIdle
    /\ UNCHANGED <<header, value, invoker, carries, denied>>

-----------------------------------------------------------------------------
Invokes(expected, from, to) ==
    /\ invoker[expected] = from
    /\ invoker' = [invoker EXCEPT ![expected] = to]

Ticks(expected) ==
    /\ nodeIsIdle = expected
    /\ Invokes(expected, "waiting", "requesting")
    /\ UNCHANGED <<nodeIsIdle, header, value, carries, denied>>

(* Mutant: the crumb is fetched with every request. *)
AlwaysFetches(expected) ==
    /\ Invokes(expected, "requesting", "disabling")
    /\ UNCHANGED <<nodeIsIdle, header, value, carries, denied>>

LooksForCrumb(expected) ==
    /\ Invokes(expected, "requesting", IF header = "" THEN "disabling" ELSE "adding")
    /\ UNCHANGED <<nodeIsIdle, header, value, carries, denied>>

(* The header is "-" while the crumb is fetched, and stays so without one. *)
Disables(expected) ==
    /\ Invokes(expected, "disabling", "fetching")
    /\ header' = "-"
    /\ UNCHANGED <<nodeIsIdle, value, carries, denied>>

IsDenied(expected) ==
    /\ Invokes(expected, "fetching", "adding")
    /\ denied' = TRUE
    /\ UNCHANGED <<nodeIsIdle, header, value, carries>>

GetsCrumb(expected) ==
    /\ Invokes(expected, "fetching", "storing")
    /\ UNCHANGED <<nodeIsIdle, header, value, carries, denied>>

StoresHeader(expected) ==
    /\ Invokes(expected, "storing", "completing")
    /\ header' = "crumb"
    /\ UNCHANGED <<nodeIsIdle, value, carries, denied>>

StoresTogether(expected) ==
    /\ invoker[expected] = "storing" /\ invoker[~expected] = "disabling"
    /\ invoker' = [invoker EXCEPT ![expected] = "completing", ![~expected] = "fetching"]
    /\ header' = "mixed"
    /\ UNCHANGED <<nodeIsIdle, value, carries, denied>>

StoresValue(expected) ==
    /\ Invokes(expected, "completing", "adding")
    /\ value' = "crumb"
    /\ UNCHANGED <<nodeIsIdle, header, carries, denied>>

(* The header is read once to see whether there is one, and once to set it.*)
ChecksHeader(expected) ==
    /\ Invokes(expected, "adding", IF header = "-" THEN "sending" ELSE "naming")
    /\ carries' = [carries EXCEPT ![expected] = FALSE]
    /\ UNCHANGED <<nodeIsIdle, header, value, denied>>

AddsHeader(expected) ==
    /\ Invokes(expected, "naming", "sending")
    /\ carries' = [carries EXCEPT ![expected] = header = "crumb" /\ value = "crumb"]
    /\ UNCHANGED <<nodeIsIdle, header, value, denied>>

(* Whatever Jenkins answers is only printed. *)
Sends(expected) ==
    /\ Invokes(expected, "sending", "waiting")
    /\ UNCHANGED <<nodeIsIdle, header, value, carries, denied>>

Requests(expected) ==
    \/ LooksForCrumb(expected) \/ Disables(expected) \/ IsDenied(expected)
    \/ GetsCrumb(expected) \/ StoresHeader(expected) \/ StoresTogether(expected)
    \/ StoresValue(expected) \/ ChecksHeader(expected) \/ AddsHeader(expected)
    \/ Sends(expected)

GcNext == NodeChanges \/ \E expected \in BOOLEAN : Ticks(expected) \/ Requests(expected)

GcSpec == GcInit /\ [][GcNext]_gcVars

(* The goroutines run, and a request is answered or fails after a minute.  *)
GcFairness == \A expected \in BOOLEAN : WF_gcVars(Requests(expected))

-----------------------------------------------------------------------------
(* "Add support for cross site forgery protected Jenkins instances"        *)
(* (util/config.go:124): if Jenkins gives a crumb whenever it is asked, and*)
(* the two goroutines do not mix their writes, there is a time from which  *)
(* on every request carries the crumb, although until then both may fetch  *)
(* it, disable it for each other and send half of it.                      *)
CrumbIsUsed ==
    [](~denied /\ header # "mixed") =>
        <>[](\A expected \in BOOLEAN : invoker[expected] = "sending" => carries[expected])
=============================================================================
