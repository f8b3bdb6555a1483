------------------------------ MODULE Preparers -------------------------------
(***************************************************************************)
(* environment/environment.go: the preparers, each in a goroutine of its   *)
(* own, and the goroutine that waits for them. They share the              *)
(* configuration and the slice of mode listeners (modes/mode.go) without a *)
(* lock. Startup extends this module and gives it its place in Run().      *)
(*                                                                         *)
(* Of the ten preparers these five touch what is shared or may refuse the  *)
(* configuration: naming.go, cleanup.go, clientjar.go, outofmemory.go and  *)
(* monitor.go, which stands for gc.go and sshtunnel.go as well. A missing  *)
(* Java makes java.go panic, which ends the process as any crash does.     *)
(***************************************************************************)
EXTENDS Config, FiniteSets

VARIABLES
    config,     \* *util.Config
    nodes,      \* the names of the nodes that Jenkins knows
    prep,       \* where each preparer is
    work,       \* the WaitGroup
    listeners,  \* allModeListeners
    loaded,     \* the slice that RegisterModeListener is appending to
    requested,  \* history: the name that was to be verified
    verified,   \* foundNode of NodeNameHandler.Prepare
    askedFor    \* the node whose directory LocationCleaner.workspacePath is in

prepVars == <<config, nodes, prep, work, listeners, loaded, requested, verified, askedFor>>

AllPreparers == {"naming", "cleaner", "jar", "oom", "monitor"}

(* The tunnel registers its listener before main() starts.                 *)
RegisteredAtInit == <<"tunnel">>

(* "garbage" is what lies behind the end of an array.                      *)
ListenerNames == {"tunnel", "jar", "oom", "garbage"}

PrepTypeOK ==
    /\ config \in Configs
    /\ nodes \subseteq Names
    /\ prep \in [AllPreparers -> {"idle", "ready", "verifying", "creating", "reverifying",
                                  "storing", "done"}]
    /\ work \in Nat
    /\ listeners \in Seq(ListenerNames)
    /\ loaded \in [{"jar", "oom"} -> Seq(ListenerNames)]
    /\ requested \in Names /\ askedFor \in Names
    /\ verified \in BOOLEAN

Idle == [p \in AllPreparers |-> "idle"]
NothingLoaded == [p \in {"jar", "oom"} |-> <<>>]

PrepInit ==
    /\ config = Default
    /\ prep = Idle /\ work = 0
    /\ listeners = RegisteredAtInit /\ loaded = NothingLoaded
    /\ requested = NoName /\ verified = FALSE /\ askedFor = NoName

(* The end of the process. *)
PrepEnds ==
    /\ config' = Default
    /\ prep' = Idle /\ work' = 0
    /\ listeners' = RegisteredAtInit /\ loaded' = NothingLoaded
    /\ requested' = NoName /\ verified' = FALSE /\ askedFor' = NoName

-----------------------------------------------------------------------------
(* RunPreparers.                                                           *)

Accepts(p) == p = "monitor" => HasCIConnection(config)

(* All are counted, and those that do not accept the configuration are     *)
(* done at once.                                                           *)
(* Mutant: those that are skipped are never done.                          *)
SpawnsWithoutDone ==
    /\ prep' = [p \in AllPreparers |-> IF Accepts(p) THEN "ready" ELSE "done"]
    /\ work' = Cardinality(AllPreparers)
    /\ requested' = config.name
    /\ UNCHANGED <<config, nodes, listeners, loaded, verified, askedFor>>

Spawns ==
    /\ prep' = [p \in AllPreparers |-> IF Accepts(p) THEN "ready" ELSE "done"]
    /\ work' = Cardinality({p \in AllPreparers : Accepts(p)})
    /\ requested' = config.name
    /\ UNCHANGED <<config, nodes, listeners, loaded, verified, askedFor>>

Moves(p, from, to) == prep[p] = from /\ prep' = [prep EXCEPT ![p] = to] /\ UNCHANGED work

(* The deferred work.Done().                                               *)
Ends(p) == prep' = [prep EXCEPT ![p] = "done"] /\ work' = work - 1

(* It starts goroutines and tickers; NodeMonitor has what they do.         *)
MonitorStarts ==
    /\ prep["monitor"] = "ready"
    /\ Ends("monitor")
    /\ UNCHANGED <<config, nodes, listeners, loaded, requested, verified, askedFor>>

-----------------------------------------------------------------------------
(* RegisterModeListener, called by clientjar.go and outofmemory.go.        *)

LoadsSlice(p) ==
    /\ Moves(p, "ready", "storing")
    /\ loaded' = [loaded EXCEPT ![p] = listeners]
    /\ UNCHANGED <<config, nodes, listeners, requested, verified, askedFor>>

(* The slice is three words: while another goroutine stores it, its new    *)
(* length may be read with its old array.                                  *)
LoadsTornSlice(p) ==
    /\ \E other \in {"jar", "oom"} \ {p} : prep[other] = "storing"
    /\ Moves(p, "ready", "storing")
    /\ loaded' = [loaded EXCEPT ![p] = Append(listeners, "garbage")]
    /\ UNCHANGED <<config, nodes, listeners, requested, verified, askedFor>>

StoresSlice(p) ==
    /\ prep[p] = "storing"
    /\ listeners' = Append(loaded[p], p)
    /\ loaded' = [loaded EXCEPT ![p] = <<>>]
    /\ Ends(p)
    /\ UNCHANGED <<config, nodes, requested, verified, askedFor>>

Registers(p) == p \in {"jar", "oom"} /\ (LoadsSlice(p) \/ LoadsTornSlice(p) \/ StoresSlice(p))

-----------------------------------------------------------------------------
(* naming.go.                                                              *)

(* strings.ToLower on both sides.                                          *)
SameName(a, b) == a.host = b.host /\ a.domain = b.domain

(* The node's name starts with this name and a dot.                        *)
IsQualified(node, name) ==
    LET n == Len(name.domain)
    IN  /\ name.host # "" \/ name.domain # <<>>
        /\ node.host = name.host
        /\ Len(node.domain) > n /\ SubSeq(node.domain, 1, n) = name.domain

(* The names that verifyNodeName may settle for, as Jenkins lists its      *)
(* nodes in any order.                                                     *)
(* Mutant: any that fits.                                                  *)
FirstMatch(name) == {n \in nodes : SameName(n, name) \/ IsQualified(n, name)}

Matches(name) ==
    LET same == {n \in nodes : SameName(n, name)}
    IN  IF same # {} THEN same ELSE {n \in nodes : IsQualified(n, name)}

NamingStarts ==
    /\ prep["naming"] = "ready"
    /\ IF HasCIConnection(config)
       THEN /\ Moves("naming", "ready", "verifying")
            /\ config' = [config EXCEPT !.name = IF @ = NoName THEN Hostname ELSE @]
       ELSE Ends("naming") /\ UNCHANGED config
    /\ UNCHANGED <<nodes, listeners, loaded, requested, verified, askedFor>>

NamingFinds ==
    /\ prep["naming"] \in {"verifying", "reverifying"}
    /\ \E name \in Matches(config.name) : config' = [config EXCEPT !.name = name]
    /\ verified' = TRUE
    /\ Ends("naming")
    /\ UNCHANGED <<nodes, listeners, loaded, requested, askedFor>>

(* Without a match a node is created, when this is asked for and was not   *)
(* tried before.                                                           *)
NamingFindsNothing ==
    /\ prep["naming"] \in {"verifying", "reverifying"}
    /\ Matches(config.name) = {}
    /\ IF config.create /\ prep["naming"] = "verifying"
       THEN Moves("naming", "verifying", "creating")
       ELSE Ends("naming")
    /\ UNCHANGED <<config, nodes, listeners, loaded, requested, verified, askedFor>>

NamingFails ==
    /\ prep["naming"] \in {"verifying", "reverifying"}
    /\ Ends("naming")
    /\ UNCHANGED <<config, nodes, listeners, loaded, requested, verified, askedFor>>

(* Jenkins creates the node or refuses to, whatever answer arrives.        *)
NamingCreates ==
    /\ Moves("naming", "creating", "reverifying")
    /\ nodes' \in {nodes, nodes \cup ({config.name} \ {NoName})}
    /\ UNCHANGED <<config, listeners, loaded, requested, verified, askedFor>>

-----------------------------------------------------------------------------
(* LocationCleaner.Prepare (cleanup.go).                                   *)

(* The name goes into one request; when it fails the working directory is  *)
(* taken instead.                                                          *)
CleanerAsks ==
    /\ prep["cleaner"] = "ready"
    /\ askedFor' = config.name
    /\ Ends("cleaner")
    /\ UNCHANGED <<config, nodes, listeners, loaded, requested, verified>>

PreparerStep(p) ==
    \/ p = "monitor" /\ MonitorStarts
    \/ Registers(p)
    \/ p = "naming" /\ (NamingStarts \/ NamingFinds \/ NamingFindsNothing
                        \/ NamingFails \/ NamingCreates)
    \/ p = "cleaner" /\ CleanerAsks
=============================================================================
