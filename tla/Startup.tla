------------------------------- MODULE Startup --------------------------------
(***************************************************************************)
(* launcher.go: Run() from the command line to the first client, over any  *)
(* number of starts. Each loads launcher.config, may fetch an initial one, *)
(* merges the command line, lets the preparers of module Preparers change  *)
(* the configuration, saves it when needed, and launches.                  *)
(*                                                                         *)
(* RunOnce shows that two launchers do not start in one directory at the   *)
(* same time; here they start one after the other. A start that cannot     *)
(* enter its directory or is refused by the pid file changes nothing.      *)
(***************************************************************************)
EXTENDS Preparers

CONSTANTS
    CommandLines,  \* [mode, url, name, secret, create, persist, help, overwrite, initial]
    InitialFiles,  \* what launcher.config may be at first
    InitialDocs,   \* what -defaultConfig may yield, whole or not
    NodeSets       \* the nodes that Jenkins may know at first

(* "persist" stands for -autostart as well. "initial" is "", "remote" for  *)
(* a URL or another file, "self" for a path that is launcher.config itself *)
(* (so is "." for a launcher in its own directory).                        *)
ASSUME CommandLineAssumption ==
    CommandLines \subseteq
        [mode : Modes, url : Urls, name : Names,
         secret : {"", "key"}, create : BOOLEAN, persist : BOOLEAN, help : BOOLEAN,
         overwrite : BOOLEAN, initial : {"", "remote", "self"}]

(* A file holds settings of the right types, and some or all of them.      *)
ASSUME FileAssumption ==
    /\ \A f \in InitialFiles \cup InitialDocs :
           /\ f \in [exists : BOOLEAN, complete : BOOLEAN, settings : {f.settings}]
           /\ f.complete => f.exists
           /\ Loaded(f) \in Configs /\ Loaded(f).url # LocalUrl
    /\ \A f \in InitialDocs : f.exists

ASSUME NodeAssumption == \A known \in NodeSets : known \subseteq Names

VARIABLES
    pc,         \* where main() is; "down" when no launcher runs
    file,       \* launcher.config
    flags,      \* the command line
    needsSave,  \* config.NeedsSave
    intact,     \* history: the file was complete when this start found it
    saved       \* history: what this start did to the file: "no", "yes" or "failed"

vars == <<prepVars, pc, file, flags, needsSave, intact, saved>>

startVars == <<pc, file, flags, needsSave, intact, saved>>

NoFlags == [mode |-> "client", url |-> "", name |-> NoName, secret |-> "", create |-> FALSE,
            persist |-> FALSE, help |-> FALSE, overwrite |-> FALSE, initial |-> ""]

TypeOK ==
    /\ PrepTypeOK
    /\ pc \in {"down", "loading", "opening", "creating", "copying", "merging", "preparing", "waiting",
               "accepting", "saving", "encoding", "launching", "running", "stopping"}
    /\ file.exists \in BOOLEAN /\ file.complete \in BOOLEAN
    /\ file.complete => file.exists
    /\ Loaded(file) \in Configs
    /\ flags \in CommandLines \cup {NoFlags}
    /\ needsSave \in BOOLEAN /\ intact \in BOOLEAN
    /\ saved \in {"no", "yes", "failed"}

Init ==
    /\ pc = "down"
    /\ PrepInit
    /\ flags = NoFlags
    /\ needsSave = FALSE /\ intact = TRUE /\ saved = "no"
    /\ file \in InitialFiles
    /\ nodes \in NodeSets

(* The end of the process: its memory is gone. *)
GoesDown ==
    /\ pc' = "down"
    /\ PrepEnds
    /\ flags' = NoFlags
    /\ needsSave' = FALSE /\ intact' = TRUE /\ saved' = "no"

-----------------------------------------------------------------------------
(* Loading (Run, loadConfig).                                              *)

Goes(from, to) == pc = from /\ pc' = to

Starts ==
    /\ Goes("down", "loading")
    /\ flags' \in CommandLines
    /\ UNCHANGED <<prepVars, file, needsSave, intact, saved>>

Loads ==
    /\ Goes("loading", IF flags.initial # "" /\ (NeedsSave(file) \/ flags.overwrite)
                       THEN "opening" ELSE "merging")
    /\ config' = Loaded(file)
    /\ needsSave' = NeedsSave(file)
    /\ intact' = file.complete
    /\ UNCHANGED <<nodes, prep, work, listeners, loaded, requested, verified, askedFor,
                   file, flags, saved>>

(* Without a source the launcher panics: Crashes. *)
OpensSource ==
    /\ Goes("opening", "creating")
    /\ flags.initial = "self" => file.exists
    /\ UNCHANGED <<prepVars, file, flags, needsSave, intact, saved>>

CreatesFile ==
    /\ Goes("creating", "copying")
    /\ file' = Emptied
    /\ UNCHANGED <<prepVars, flags, needsSave, intact, saved>>

(* A source that is launcher.config itself has just been emptied.          *)
Copies ==
    /\ Goes("copying", "merging")
    /\ file' \in IF flags.initial = "self" THEN {file} ELSE InitialDocs
    /\ config' = Loaded(file')
    /\ needsSave' = NeedsSave(file')
    /\ UNCHANGED <<nodes, prep, work, listeners, loaded, requested, verified, askedFor,
                   flags, intact, saved>>

(* An error of io.Copy is dropped: what was loaded first stays in force.   *)
CopyBreaks ==
    /\ Goes("copying", "merging")
    /\ flags.initial = "remote"
    /\ \E doc \in InitialDocs : file' \in Cut(doc)
    /\ UNCHANGED <<prepVars, flags, needsSave, intact, saved>>

(* The run mode is always overridden, as its flag has a default.           *)
Merges ==
    /\ Goes("merging", IF flags.help THEN "saving" ELSE "preparing")
    /\ config' = [config EXCEPT
                     !.mode = flags.mode,
                     !.url = IF flags.url # "" THEN flags.url ELSE @,
                     !.secret = IF flags.secret # "" THEN flags.secret ELSE @,
                     !.name = IF flags.name # NoName THEN flags.name ELSE @,
                     !.create = flags.create \/ @]
    /\ UNCHANGED <<nodes, prep, work, listeners, loaded, requested, verified, askedFor,
                   file, flags, needsSave, intact, saved>>

-----------------------------------------------------------------------------
(* Preparing (RunPreparers).                                               *)

StartsPreparers ==
    /\ Goes("preparing", "waiting")
    /\ Spawns
    /\ UNCHANGED <<file, flags, needsSave, intact, saved>>

Prepares(p) ==
    /\ pc = "waiting"
    /\ PreparerStep(p)
    /\ UNCHANGED startVars

(* Mutant: one preparer too few is waited for. *)
WaitsForAllButOne ==
    /\ Goes("waiting", "accepting")
    /\ work <= 1
    /\ UNCHANGED <<prepVars, file, flags, needsSave, intact, saved>>

Waits ==
    /\ Goes("waiting", "accepting")
    /\ work = 0
    /\ UNCHANGED <<prepVars, file, flags, needsSave, intact, saved>>

-----------------------------------------------------------------------------
(* Accepting, saving and launching.                                        *)

SaveRequired == needsSave \/ flags.persist \/ flags.overwrite

(* A secret is not asked for where the credentials are passed to Java.     *)
Acceptable == config.mode = "client" => HasCIConnection(config) /\ (config.secret # "" \/ config.auth)

(* After the file was saved or not. *)
AfterSaving == IF flags.help \/ ~Acceptable THEN "stopping" ELSE "launching"

(* The client mode fetches a missing secret from the page of the node; an  *)
(* unknown mode panics: Crashes.                                           *)
ModeAccepts ==
    /\ Goes("accepting", "saving")
    /\ config.mode # "unknown"
    /\ \/ UNCHANGED config
       \/ /\ config.mode = "client" /\ HasCIConnection(config) /\ config.secret = "" /\ ~config.auth
          /\ \E n \in nodes : SameName(n, config.name)
          /\ config' = [config EXCEPT !.secret = "key"]
    /\ UNCHANGED <<nodes, prep, work, listeners, loaded, requested, verified, askedFor,
                   file, flags, needsSave, intact, saved>>

SkipsSaving ==
    /\ Goes("saving", AfterSaving)
    /\ ~SaveRequired
    /\ UNCHANGED <<prepVars, file, flags, needsSave, intact, saved>>

(* os.Create empties the file; when it fails nothing is said.              *)
Truncates ==
    /\ SaveRequired
    /\ \/ /\ Goes("saving", "encoding")
          /\ file' = Emptied
          /\ UNCHANGED saved
       \/ /\ Goes("saving", AfterSaving)
          /\ saved' = "failed"
          /\ UNCHANGED file
    /\ UNCHANGED <<prepVars, flags, needsSave, intact>>

Encodes ==
    /\ Goes("encoding", AfterSaving)
    /\ file' = Encoded(config)
    /\ saved' = "yes"
    /\ UNCHANGED <<prepVars, flags, needsSave, intact>>

EncodingBreaks ==
    /\ Goes("encoding", AfterSaving)
    /\ file' \in Cut(Encoded(config))
    /\ saved' = "failed"
    /\ UNCHANGED <<prepVars, flags, needsSave, intact>>

(* The condition of the tunnel's listener. *)
IsTunnelled(c) == c.tunnel /\ c.mode = "client" /\ HasCIConnection(c)

(* RunConfiguredMode calls the listeners; garbage among them ends it. That *)
(* of the tunnel passes the credentials to Java instead of the secret and, *)
(* when the tunnel can be opened, leads Java to it (SSHTunnel has the steps*)
(* and the runs that follow).                                              *)
Launches ==
    /\ Goes("launching", "running")
    /\ \A i \in 1..Len(listeners) : listeners[i] # "garbage"
    /\ IF IsTunnelled(config)
       THEN \E url \in {config.url, LocalUrl} :
               config' = [config EXCEPT !.url = url, !.auth = @ \/ config.secret # ""]
       ELSE UNCHANGED config
    /\ UNCHANGED <<nodes, prep, work, listeners, loaded, requested, verified, askedFor,
                   file, flags, needsSave, intact, saved>>

(* Run() returns, now or after the loop of ClientLifecycle.                *)
Stops ==
    /\ pc \in {"stopping", "running"}
    /\ GoesDown
    /\ UNCHANGED <<nodes, file>>

(* A panic of any goroutine or a kill; a write under way is cut short.     *)
Crashes ==
    /\ pc # "down"
    /\ GoesDown
    /\ \/ UNCHANGED file
       \/ pc = "copying" /\ flags.initial = "remote" /\ \E doc \in InitialDocs : file' \in Cut(doc)
       \/ pc = "encoding" /\ file' \in Cut(Encoded(config))
    /\ UNCHANGED nodes

Main ==
    \/ Loads \/ OpensSource \/ CreatesFile \/ Copies \/ CopyBreaks \/ Merges
    \/ StartsPreparers \/ Waits
    \/ ModeAccepts \/ SkipsSaving \/ Truncates \/ Encodes \/ EncodingBreaks \/ Launches \/ Stops

Next == Starts \/ Main \/ Crashes \/ \E p \in AllPreparers : Prepares(p)

Spec == Init /\ [][Next]_vars

(* Some goroutine that can run does. *)
FairSpec == Spec /\ WF_vars(Waits \/ \E p \in AllPreparers : Prepares(p))

-----------------------------------------------------------------------------
(* A complete launcher.config is the user's: a start changes it only when  *)
(* it is told to store or to overwrite the configuration, and never because*)
(* of what the preparers, the secret or the tunnel put into the            *)
(* configuration (launcher.go:58-63, 87-91). A file that cannot be loaded  *)
(* completely is excepted: the initial one replaces it, although that      *)
(* "does nothing when '...' exists already", and so does the next save.    *)
KeptUnlessAsked ==
    [][file' # file /\ intact => flags.persist \/ flags.overwrite]_vars

(* A file that a crash or a failed write has cut off is repaired by the    *)
(* next start that runs, as what cannot be loaded needs saving             *)
(* (config.go:425-427, launcher.go:87-91).                                 *)
RunsWithCompleteFile == pc = "running" /\ saved # "failed" => file.complete

(* What a start saved is what it runs with, the verified name, the fetched *)
(* secret and lists that were cut off included, and what the next start    *)
(* will load (launcher.go:100-103, config.go:413-486). Only a tunnel makes *)
(* a difference afterwards, of two settings, and its local address, of no  *)
(* use to the next start, is not in the file (sshtunnel.go:153-156, 218).  *)
SavedIsUsed ==
    LET stored == Loaded(file)
    IN  pc = "running" /\ saved = "yes" =>
            /\ config = [stored EXCEPT !.url = config.url, !.auth = config.auth]
            /\ ~IsTunnelled(stored) => config = stored
            /\ stored.url # LocalUrl

(* The configuration is accepted, saved and used only after every preparer *)
(* has returned (environment.go:38-67). The five of Preparers stand for    *)
(* all ten.                                                                *)
UsedWhenPrepared ==
    pc \in {"accepting", "encoding", "launching", "running"} /\ ~flags.help =>
        \A p \in AllPreparers : prep[p] = "done"

(* A launcher uses the name of a node that stands for this machine: the one*)
(* it was given, and only without such a node one that adds a domain       *)
(* (naming.go:97-111).                                                     *)
NameIsThisMachines ==
    LET given == IF requested = NoName THEN Hostname ELSE requested
    IN  pc = "running" /\ verified =>
            /\ config.name \in nodes
            /\ \/ SameName(config.name, given)
               \/ /\ IsQualified(config.name, given)
                  /\ \A n \in nodes : ~SameName(n, given)

(* Every preparer that returns or was skipped is counted off, so that the  *)
(* launcher is not left waiting for them (environment.go:39, 55-64). This  *)
(* presumes that what they ask of Jenkins ends, with an answer or not.     *)
PreparersEnd == pc = "waiting" ~> pc # "waiting"

(* The client "is downloaded before the client mode starts"                *)
(* (clientjar.go:23-24): its listener is among those that were called.     *)
DownloadsBeforeStart ==
    pc = "running" /\ config.mode = "client" => \E i \in 1..Len(listeners) : listeners[i] = "jar"

(* "${workspace}" "references the workspace folder of this Jenkins node"   *)
(* (config.go:255): the cleaner asks for the node whose name is used.      *)
WorkspaceOfThisNode == pc = "running" /\ verified => SameName(askedFor, config.name)
=============================================================================
