---------------------------- MODULE StartupProofs -----------------------------
(***************************************************************************)
(* What holds of Startup for all command lines, files, names and nodes.    *)
(***************************************************************************)
EXTENDS Startup, FiniteSetTheorems, TLAPS

(* A complete file is replaced or saved over only when this is asked for.  *)
StoreInv ==
    /\ pc \in {"opening", "creating", "copying"} /\ intact => flags.overwrite
    /\ needsSave /\ intact => flags.overwrite
    /\ pc \in {"down", "loading"} => ~needsSave
    /\ pc = "encoding" => SaveRequired

LEMMA StoreInductive == Spec => []StoreInv
<1>1. Init => StoreInv
  BY DEF Init, StoreInv
<1>2. StoreInv /\ [Next]_vars => StoreInv'
  <2> SUFFICES ASSUME StoreInv, [Next]_vars PROVE StoreInv'
    OBVIOUS
  <2> USE DEF StoreInv, Goes, SaveRequired
  <2>1. CASE Starts
    BY <2>1 DEF Starts
  <2>2. CASE Loads
    BY <2>2 DEF Loads, NeedsSave
  <2>3. CASE OpensSource
    BY <2>3 DEF OpensSource
  <2>4. CASE CreatesFile
    BY <2>4 DEF CreatesFile
  <2>5. CASE Copies
    BY <2>5 DEF Copies
  <2>6. CASE CopyBreaks
    BY <2>6 DEF CopyBreaks
  <2>7. CASE Merges
    BY <2>7 DEF Merges
  <2>8. CASE StartsPreparers \/ Waits
    BY <2>8 DEF StartsPreparers, Waits
  <2>9. CASE ModeAccepts
    BY <2>9 DEF ModeAccepts
  <2>10. CASE SkipsSaving \/ Truncates \/ Encodes \/ EncodingBreaks
    BY <2>10 DEF SkipsSaving, Truncates, Encodes, EncodingBreaks, AfterSaving
  <2>11. CASE Launches
    BY <2>11 DEF Launches
  <2>12. CASE Stops \/ Crashes
    BY <2>12 DEF Stops, Crashes, GoesDown
  <2>13. CASE \E p \in AllPreparers : Prepares(p)
    BY <2>13 DEF Prepares, startVars
  <2>14. CASE UNCHANGED vars
    BY <2>14 DEF vars
  <2> QED
    BY <2>1, <2>2, <2>3, <2>4, <2>5, <2>6, <2>7, <2>8, <2>9, <2>10, <2>11, <2>12, <2>13,
       <2>14 DEF Next, Main
<1> QED
  BY <1>1, <1>2, PTL DEF Spec

(* However often the launcher starts, crashes and fails to write, a        *)
(* complete launcher.config changes only on request (launcher.go:58-63,    *)
(* 87-91).                                                                 *)
THEOREM UserFileIsKept == Spec => KeptUnlessAsked
<1>1. StoreInv /\ [Next]_vars => [file' # file /\ intact => flags.persist \/ flags.overwrite]_vars
  <2> SUFFICES ASSUME StoreInv, Next, file' # file, intact
               PROVE  flags.persist \/ flags.overwrite
    OBVIOUS
  <2>1. \/ pc \in {"creating", "copying", "encoding"}
        \/ pc = "saving" /\ SaveRequired
    <3>1. CASE Starts \/ Loads \/ OpensSource \/ Merges \/ StartsPreparers \/ Waits
      BY <3>1 DEF Starts, Loads, OpensSource, Merges, StartsPreparers, Waits
    <3>2. CASE ModeAccepts \/ SkipsSaving \/ Launches \/ Stops
      BY <3>2 DEF ModeAccepts, SkipsSaving, Launches, Stops
    <3>3. CASE CreatesFile \/ Copies \/ CopyBreaks \/ Truncates \/ Encodes \/ EncodingBreaks
      BY <3>3 DEF CreatesFile, Copies, CopyBreaks, Truncates, Encodes, EncodingBreaks, Goes
    <3>4. CASE Crashes
      BY <3>4 DEF Crashes
    <3>5. CASE \E p \in AllPreparers : Prepares(p)
      BY <3>5 DEF Prepares, startVars
    <3> QED
      BY <3>1, <3>2, <3>3, <3>4, <3>5 DEF Next, Main
  <2> QED
    BY <2>1 DEF StoreInv, SaveRequired
<1> QED
  BY <1>1, StoreInductive, PTL DEF Spec, KeptUnlessAsked

-----------------------------------------------------------------------------
(* What cannot be loaded is going to be saved, until it was.               *)
FileInv ==
    /\ pc \in {"opening", "creating", "copying"} => needsSave \/ flags.overwrite
    /\ pc \in {"merging", "preparing", "waiting", "accepting", "saving"} =>
           file.complete \/ SaveRequired
    /\ pc \in {"launching", "running"} => file.complete \/ saved = "failed"

(* No incomplete file outlives a start that was able to write, whatever    *)
(* the starts before have left (config.go:425-427, launcher.go:87-91).     *)
THEOREM IncompleteFileIsRepaired == Spec => []RunsWithCompleteFile
<1>1. Init => FileInv
  BY DEF Init, FileInv
<1>2. FileInv /\ [Next]_vars => FileInv'
  <2> SUFFICES ASSUME FileInv, [Next]_vars PROVE FileInv'
    OBVIOUS
  <2> USE DEF FileInv, Goes, SaveRequired
  <2>1. CASE Starts
    BY <2>1 DEF Starts
  <2>2. CASE Loads
    BY <2>2 DEF Loads, NeedsSave
  <2>3. CASE OpensSource \/ CreatesFile
    BY <2>3 DEF OpensSource, CreatesFile
  <2>4. CASE Copies
    BY <2>4 DEF Copies, NeedsSave
  <2>5. CASE CopyBreaks
    BY <2>5 DEF CopyBreaks
  <2>6. CASE Merges
    BY <2>6 DEF Merges
  <2>7. CASE StartsPreparers \/ Waits
    BY <2>7 DEF StartsPreparers, Waits
  <2>8. CASE ModeAccepts
    BY <2>8 DEF ModeAccepts
  <2>9. CASE SkipsSaving \/ Truncates
    BY <2>9 DEF SkipsSaving, Truncates, AfterSaving
  <2>10. CASE Encodes \/ EncodingBreaks
    BY <2>10 DEF Encodes, EncodingBreaks, AfterSaving, Encoded, Complete
  <2>11. CASE Launches
    BY <2>11 DEF Launches
  <2>12. CASE Stops \/ Crashes
    BY <2>12 DEF Stops, Crashes, GoesDown
  <2>13. CASE \E p \in AllPreparers : Prepares(p)
    BY <2>13 DEF Prepares, startVars
  <2>14. CASE UNCHANGED vars
    BY <2>14 DEF vars
  <2> QED
    BY <2>1, <2>2, <2>3, <2>4, <2>5, <2>6, <2>7, <2>8, <2>9, <2>10, <2>11, <2>12, <2>13,
       <2>14 DEF Next, Main
<1>3. FileInv => RunsWithCompleteFile
  BY DEF FileInv, RunsWithCompleteFile
<1> QED
  BY <1>1, <1>2, <1>3, PTL DEF Spec

-----------------------------------------------------------------------------
(* Where a preparer can be.                                                *)
Stages == {"idle", "ready", "verifying", "creating", "reverifying", "storing", "done"}

(* The WaitGroup counts the preparers that have not returned.              *)
Pending == {p \in AllPreparers : prep[p] # "done"}

WaitInv ==
    /\ prep \in [AllPreparers -> Stages]
    /\ pc = "waiting" => work = Cardinality(Pending)
    /\ pc \in {"accepting", "saving", "encoding", "launching", "running"} /\ ~flags.help =>
           Pending = {}

LEMMA PreparersAreFinite ==
    \A S \in SUBSET AllPreparers : IsFiniteSet(S) /\ Cardinality(S) \in Nat
<1>1. IsFiniteSet(AllPreparers)
  <2>1. IsFiniteSet({"naming"})
    BY FS_Singleton
  <2>2. IsFiniteSet({"naming", "cleaner"})
    BY <2>1, FS_AddElement, {"naming", "cleaner"} = {"naming"} \cup {"cleaner"}
  <2>3. IsFiniteSet({"naming", "cleaner", "jar"})
    BY <2>2, FS_AddElement, {"naming", "cleaner", "jar"} = {"naming", "cleaner"} \cup {"jar"}
  <2>4. IsFiniteSet({"naming", "cleaner", "jar", "oom"})
    BY <2>3, FS_AddElement,
       {"naming", "cleaner", "jar", "oom"} = {"naming", "cleaner", "jar"} \cup {"oom"}
  <2>5. AllPreparers = {"naming", "cleaner", "jar", "oom"} \cup {"monitor"}
    BY DEF AllPreparers
  <2> QED
    BY <2>4, <2>5, FS_AddElement
<1> QED
  BY <1>1, FS_Subset, FS_CardinalityType

LEMMA PendingIsFinite == IsFiniteSet(Pending) /\ Cardinality(Pending) \in Nat
<1>1. Pending \in SUBSET AllPreparers
  BY DEF Pending
<1> QED
  BY <1>1, PreparersAreFinite

(* A step of a preparer either leaves it pending or takes it out of the    *)
(* count.                                                                  *)
LEMMA PreparerCounts ==
    ASSUME WaitInv, pc = "waiting", NEW p \in AllPreparers, PreparerStep(p)
    PROVE  prep' \in [AllPreparers -> Stages] /\ work' = Cardinality(Pending')
<1>1. \/ \E from, to \in Stages \ {"done"} : Moves(p, from, to)
      \/ prep[p] # "done" /\ Ends(p)
  <2>1. CASE p = "monitor" /\ MonitorStarts
    BY <2>1 DEF MonitorStarts
  <2>2. CASE Registers(p)
    <3>1. CASE LoadsSlice(p) \/ LoadsTornSlice(p)
      <4>1. Moves(p, "ready", "storing")
        BY <3>1 DEF LoadsSlice, LoadsTornSlice
      <4>2. "ready" \in Stages \ {"done"} /\ "storing" \in Stages \ {"done"}
        BY DEF Stages
      <4> QED
        BY <4>1, <4>2, Zenon
    <3>2. CASE StoresSlice(p)
      BY <3>2 DEF StoresSlice
    <3> QED
      BY <2>2, <3>1, <3>2 DEF Registers
  <2>3. CASE p = "naming" /\ NamingStarts
    BY <2>3 DEF NamingStarts, Stages
  <2>4. CASE p = "naming" /\ (NamingFinds \/ NamingFindsNothing \/ NamingFails)
    BY <2>4 DEF NamingFinds, NamingFindsNothing, NamingFails, Stages
  <2>5. CASE p = "naming" /\ NamingCreates
    BY <2>5 DEF NamingCreates, Stages
  <2>6. CASE p = "cleaner" /\ CleanerAsks
    BY <2>6 DEF CleanerAsks
  <2> QED
    BY <2>1, <2>2, <2>3, <2>4, <2>5, <2>6 DEF PreparerStep
<1>2. CASE \E from, to \in Stages \ {"done"} : Moves(p, from, to)
  <2>1. prep' \in [AllPreparers -> Stages] /\ Pending' = Pending /\ work' = work
    BY <1>2 DEF Moves, WaitInv, Pending, Stages
  <2> QED
    BY <2>1 DEF WaitInv
<1>3. CASE prep[p] # "done" /\ Ends(p)
  <2>1. /\ prep' \in [AllPreparers -> Stages]
        /\ Pending' = Pending \ {p} /\ p \in Pending /\ work' = work - 1
    BY <1>3 DEF Ends, WaitInv, Pending, Stages
  <2>2. Cardinality(Pending \ {p}) = Cardinality(Pending) - 1
    BY <2>1, PendingIsFinite, FS_RemoveElement
  <2> QED
    BY <2>1, <2>2 DEF WaitInv
<1> QED
  BY <1>1, <1>2, <1>3

(* Until then every one that was started is waited for. *)
LEMMA Waiting == Spec => []WaitInv
<1>1. Init => WaitInv
  BY DEF Init, PrepInit, Idle, WaitInv, Stages
<1>2. WaitInv /\ [Next]_vars => WaitInv'
  <2> SUFFICES ASSUME WaitInv, [Next]_vars PROVE WaitInv'
    OBVIOUS
  <2> USE DEF Goes
  <2>1. CASE /\ UNCHANGED <<prep, work>> /\ pc' \notin {"waiting", "accepting"}
             /\ pc' \in {"saving", "encoding", "launching", "running"} =>
                    /\ flags' = flags
                    /\ flags.help \/ pc \in {"accepting", "saving", "encoding", "launching"}
    BY <2>1 DEF WaitInv, Pending
  <2>2. CASE Starts \/ Loads \/ OpensSource \/ CreatesFile \/ Copies \/ CopyBreaks
    BY <2>1, <2>2 DEF Starts, Loads, OpensSource, CreatesFile, Copies, CopyBreaks, prepVars
  <2>3. CASE Merges
    BY <2>1, <2>3 DEF Merges
  <2>4. CASE StartsPreparers
    <3>1. prep' = [p \in AllPreparers |-> IF Accepts(p) THEN "ready" ELSE "done"]
      BY <2>4 DEF StartsPreparers, Spawns
    <3>2. Pending' = {p \in AllPreparers : Accepts(p)}
      BY <3>1 DEF Pending
    <3> QED
      BY <2>4, <3>1, <3>2 DEF StartsPreparers, Spawns, WaitInv, Stages
  <2>5. CASE Waits
    <3>1. Pending = {}
      BY <2>5, PendingIsFinite, FS_EmptySet DEF Waits, WaitInv
    <3> QED
      BY <2>5, <3>1 DEF Waits, WaitInv, Pending, prepVars
  <2>6. CASE ModeAccepts \/ SkipsSaving \/ Launches
    BY <2>1, <2>6 DEF ModeAccepts, SkipsSaving, Launches, AfterSaving, prepVars
  <2>7. CASE Truncates \/ Encodes \/ EncodingBreaks
    BY <2>1, <2>7 DEF Truncates, Encodes, EncodingBreaks, AfterSaving, prepVars
  <2>8. CASE Stops \/ Crashes
    BY <2>8 DEF Stops, Crashes, GoesDown, PrepEnds, Idle, WaitInv, Stages
  <2>9. CASE \E p \in AllPreparers : Prepares(p)
    BY <2>9, PreparerCounts DEF Prepares, startVars, WaitInv
  <2>10. CASE UNCHANGED vars
    BY <2>10 DEF vars, prepVars, WaitInv, Pending
  <2> QED
    BY <2>2, <2>3, <2>4, <2>5, <2>6, <2>7, <2>8, <2>9, <2>10 DEF Next, Main
<1> QED
  BY <1>1, <1>2, PTL DEF Spec

(* No preparer is left when the configuration is accepted, saved and used, *)
(* in whatever order they return (environment.go:38-67).                   *)
THEOREM PreparedBeforeUse == Spec => []UsedWhenPrepared
<1>1. WaitInv => UsedWhenPrepared
  BY DEF WaitInv, UsedWhenPrepared, Pending
<1> QED
  BY <1>1, Waiting, PTL

-----------------------------------------------------------------------------
(* What is loaded from a file, and types.                                  *)

(* The elements of a document by their names. *)
LEMMA ElementNames ==
    Elements = {"mode", "url", "tunnel", "name", "secret", "auth", "create", "head", "tail"}
<1>1. Len(Document) = 9
  BY DEF Document
<1>2. /\ Document[1] = "mode" /\ Document[2] = "url" /\ Document[3] = "tunnel"
      /\ Document[4] = "name" /\ Document[5] = "secret" /\ Document[6] = "auth"
      /\ Document[7] = "create" /\ Document[8] = "head" /\ Document[9] = "tail"
  BY DEF Document
<1> QED
  BY <1>1, <1>2 DEF Elements

LEMMA SettingNames ==
    /\ Plain = {"mode", "url", "tunnel", "name", "secret", "auth", "create"}
    /\ Settings = {"mode", "url", "tunnel", "name", "secret", "auth", "create", "lists"}
BY ElementNames DEF Plain, Settings

LEMMA DefaultIsConfig == Default \in Configs /\ Default.url # LocalUrl
BY NameAssumption DEF Default, Configs, Modes, Urls, Lists, LocalUrl

(* Where each setting may be from one of two configurations, and the lists *)
(* are some, there is a configuration.                                     *)
LEMMA MixIsConfig ==
    ASSUME NEW a \in Configs, NEW b \in Configs, NEW g,
           a.url # LocalUrl, b.url # LocalUrl,
           \A s \in Plain : Loaded(g)[s] \in {a[s], b[s]},
           LoadedLists(g.settings) \in Lists
    PROVE  Loaded(g) \in Configs /\ Loaded(g).url # LocalUrl
<1> DEFINE c == Loaded(g)
<1>1. c = [s \in Settings |-> c[s]]
  BY DEF Loaded
<1>2. /\ c["mode"] \in Modes /\ c["url"] \in Urls /\ c["tunnel"] \in BOOLEAN
      /\ c["name"] \in Names /\ c["secret"] \in {"", "key"} /\ c["auth"] \in BOOLEAN
      /\ c["create"] \in BOOLEAN /\ c["lists"] \in Lists
  <2>1. \A s \in {"mode", "url", "tunnel", "name", "secret", "auth", "create"} : c[s] \in {a[s], b[s]}
    BY SettingNames
  <2>2. c["mode"] \in Modes /\ c["url"] \in Urls /\ c["name"] \in Names
    BY <2>1 DEF Configs
  <2>3. c["secret"] \in {"", "key"}
    BY <2>1 DEF Configs
  <2>4. c["tunnel"] \in BOOLEAN /\ c["auth"] \in BOOLEAN /\ c["create"] \in BOOLEAN
    BY <2>1 DEF Configs
  <2>5. c["lists"] = LoadedLists(g.settings)
    BY SettingNames DEF Loaded
  <2> QED
    BY <2>2, <2>3, <2>4, <2>5
<1>3. c = [mode |-> c["mode"], url |-> c["url"], tunnel |-> c["tunnel"], name |-> c["name"],
           secret |-> c["secret"], auth |-> c["auth"], create |-> c["create"],
           lists |-> c["lists"]]
  BY <1>1, SettingNames
<1> HIDE DEF c
<1>4. c \in Configs /\ c.url \in Urls
  BY <1>2, <1>3 DEF Configs
<1> QED
  BY <1>4 DEF c, Urls, LocalUrl

(* What is written whole is loaded as it was, item by item. *)
LEMMA EncodedIsLoaded ==
    ASSUME NEW c \in Configs
    PROVE  Loaded(Encoded(c)) = c
<1> DEFINE d == ElementsOf(c)
<1>1. Encoded(c).settings = d
  BY DEF Encoded, Complete
<1>2. /\ DOMAIN d = Plain \cup {"head"} \cup (IF c.lists.whole THEN {"tail"} ELSE {})
      /\ \A e \in Plain : d[e] = c[e]
      /\ "head" \notin Plain /\ "lists" \notin Plain
      /\ d["head"] = c.lists.of
  BY SettingNames DEF ElementsOf
<1>3. c.lists \in Lists /\ c.lists.whole \in BOOLEAN
  BY DEF Configs, Lists
<1>4. LoadedLists(d) = c.lists
  <2>1. "tail" \in DOMAIN d <=> c.lists.whole
    BY <1>2, <1>3, SettingNames
  <2>2. LoadedLists(d) = [of |-> c.lists.of, whole |-> "tail" \in DOMAIN d]
    BY <1>2 DEF LoadedLists
  <2>3. ("tail" \in DOMAIN d) = c.lists.whole
    BY <1>3, <2>1
  <2>4. c.lists = [of |-> c.lists.of, whole |-> c.lists.whole]
    BY <1>3 DEF Lists
  <2> HIDE DEF d
  <2> QED
    BY <2>2, <2>3, <2>4
<1>5. Loaded(Encoded(c)) = [s \in Settings |-> c[s]]
  <2>1. \A s \in Settings : s = "lists" \/ (s \in Plain /\ s # "lists")
    BY SettingNames
  <2> HIDE DEF d
  <2>2. \A s \in Settings : Loaded(Encoded(c))[s] = c[s]
    <3> TAKE s \in Settings
    <3>1. CASE s = "lists"
      BY <1>1, <1>4, <3>1 DEF Loaded
    <3>2. CASE s \in Plain /\ s # "lists"
      BY <1>1, <1>2, <3>2 DEF Loaded
    <3> QED
      BY <2>1, <3>1, <3>2
  <2>3. Loaded(Encoded(c)) = [s \in Settings |-> Loaded(Encoded(c))[s]]
    BY DEF Loaded
  <2> QED
    BY <2>2, <2>3
<1>6. c = [s \in Settings |-> c[s]]
  BY SettingNames DEF Configs
<1> QED
  BY <1>5, <1>6

(* What is left of a file that was cut off is loaded as a configuration.   *)
LEMMA CutIsLoaded ==
    ASSUME NEW f, Loaded(f) \in Configs, Loaded(f).url # LocalUrl,
           f \in [exists : BOOLEAN, complete : BOOLEAN, settings : {f.settings}],
           NEW g \in Cut(f)
    PROVE  /\ g.exists = f.exists /\ g.complete = FALSE
           /\ Loaded(g) \in Configs /\ Loaded(g).url # LocalUrl
<1>1. PICK n \in 0..Len(Document) :
          g = [f EXCEPT !.complete = FALSE,
                        !.settings = Restrict(@, DOMAIN @ \cap {Document[i] : i \in 1..n})]
  BY DEF Cut
<1>2. /\ g.exists = f.exists /\ g.complete = FALSE
      /\ g.settings = Restrict(f.settings, DOMAIN f.settings \cap {Document[i] : i \in 1..n})
  BY <1>1
<1>3. /\ DOMAIN g.settings \subseteq DOMAIN f.settings
      /\ \A s \in DOMAIN g.settings : g.settings[s] = f.settings[s]
  BY <1>2 DEF Restrict
<1>4. \A s \in Plain : Loaded(g)[s] \in {Loaded(f)[s], Default[s]}
  BY <1>3, SettingNames DEF Loaded
<1>5. LoadedLists(g.settings) \in Lists
  <2>1. LoadedLists(f.settings) \in Lists /\ Default.lists \in Lists
    <3>1. Loaded(f)["lists"] = LoadedLists(f.settings)
      BY SettingNames DEF Loaded
    <3> QED
      BY <3>1, DefaultIsConfig DEF Configs
  <2>2. CASE "head" \in DOMAIN g.settings
    <3>1. LoadedLists(f.settings).of = g.settings["head"]
      BY <1>3, <2>2 DEF LoadedLists
    <3>2. LoadedLists(g.settings) =
              [of |-> g.settings["head"], whole |-> "tail" \in DOMAIN g.settings]
      BY <2>2 DEF LoadedLists
    <3>3. g.settings["head"] \in {"default", "custom"}
      BY <2>1, <3>1 DEF Lists
    <3>4. ("tail" \in DOMAIN g.settings) \in BOOLEAN
      OBVIOUS
    <3> QED
      BY <3>2, <3>3, <3>4 DEF Lists
  <2>3. CASE "head" \notin DOMAIN g.settings
    BY <2>1, <2>3 DEF LoadedLists
  <2> QED
    BY <2>2, <2>3
<1> QED
  BY <1>2, <1>4, <1>5, DefaultIsConfig, MixIsConfig

LEMMA EmptiedIsLoaded == Loaded(Emptied) \in Configs /\ Loaded(Emptied).url # LocalUrl
<1>1. DOMAIN Emptied.settings = {}
  BY DEF Emptied
<1>2. \A s \in Plain : Loaded(Emptied)[s] \in {Default[s], Default[s]}
  BY <1>1, SettingNames DEF Loaded
<1>3. LoadedLists(Emptied.settings) \in Lists
  BY <1>1, DefaultIsConfig DEF LoadedLists, Configs
<1> QED
  BY <1>2, <1>3, DefaultIsConfig, MixIsConfig

LEMMA ConfigUpdates ==
    ASSUME NEW c \in Configs
    PROVE  /\ \A x \in Modes : [c EXCEPT !.mode = x] \in Configs
           /\ \A x \in Names : [c EXCEPT !.name = x] \in Configs
           /\ [c EXCEPT !.secret = "key"] \in Configs
           /\ [c EXCEPT !.secret = "key"].name = c.name
           /\ [c EXCEPT !.secret = "key"].url = c.url
           /\ \A x \in Urls \cup {LocalUrl}, y \in BOOLEAN :
                  /\ [c EXCEPT !.url = x, !.auth = y] \in Configs
                  /\ [c EXCEPT !.url = x, !.auth = y].name = c.name
           /\ \A x \in Names : [c EXCEPT !.name = x].name = x
           /\ \A x \in Names : [c EXCEPT !.name = x].url = c.url
BY DEF Configs

(* The configuration and the nodes. *)
ConfigPart ==
    /\ config \in Configs /\ nodes \subseteq Names
    /\ pc # "running" => config.url # LocalUrl

(* A name alone makes no difference to the rest. *)
LEMMA RenamedIsTyped ==
    ASSUME ConfigPart, UNCHANGED <<nodes, pc>>,
           config' = config \/ \E x \in Names : config' = [config EXCEPT !.name = x]
    PROVE  ConfigPart'
<1>1. config' \in Configs /\ config'.url = config.url
  BY ConfigUpdates, ZenonT(40) DEF ConfigPart
<1> QED
  BY <1>1 DEF ConfigPart

(* What the listeners of the modes make of the configuration. *)
LEMMA TunnelChanges ==
    ASSUME config \in Configs, Launches
    PROVE  /\ config' \in Configs
           /\ config' = [config EXCEPT !.url = config'.url, !.auth = config'.auth]
           /\ ~IsTunnelled(config) => config' = config
<1>1. CASE IsTunnelled(config)
  <2>1. PICK url \in {config.url, LocalUrl} :
            config' = [config EXCEPT !.url = url, !.auth = @ \/ config.secret # ""]
    BY <1>1 DEF Launches
  <2>2. url \in Urls \cup {LocalUrl} /\ (config.auth \/ config.secret # "") \in BOOLEAN
    BY DEF Configs
  <2>3. config' = [config EXCEPT !.url = url, !.auth = (config.auth \/ config.secret # "")]
    BY <2>1
  <2> QED
    BY <1>1, <2>2, <2>3 DEF Configs
<1>2. CASE ~IsTunnelled(config)
  <2>1. config' = config
    BY <1>2 DEF Launches
  <2> QED
    BY <2>1 DEF Configs
<1> QED
  BY <1>1, <1>2

LEMMA MatchesAreNodes == \A name : Matches(name) \subseteq nodes
BY DEF Matches

(* The address of a tunnel is not in the file, nor in the configuration    *)
(* before the client runs.                                                 *)
LocalInv ==
    /\ Loaded(file).url # LocalUrl
    /\ pc # "running" => config.url # LocalUrl

(* The file. *)
FilePart ==
    /\ file.exists \in BOOLEAN /\ file.complete \in BOOLEAN
    /\ file.complete => file.exists
    /\ Loaded(file) \in Configs /\ Loaded(file).url # LocalUrl

LEMMA FileTyped == ASSUME TypeOK, LocalInv, [Next]_vars PROVE FilePart'
<1> USE DEF FilePart
<1>1. CASE UNCHANGED file
  BY <1>1 DEF TypeOK, LocalInv
<1>2. CASE \E doc \in InitialDocs : file' \in Cut(doc)
  BY <1>2, FileAssumption, CutIsLoaded
<1>3. CASE pc = "encoding" /\ file' \in Cut(Encoded(config))
  <2>1. config \in Configs /\ config.url # LocalUrl
    BY <1>3 DEF TypeOK, PrepTypeOK, LocalInv
  <2>2. /\ Encoded(config) \in
               [exists : BOOLEAN, complete : BOOLEAN, settings : {Encoded(config).settings}]
        /\ Encoded(config).exists
    BY DEF Encoded, Complete
  <2> QED
    BY <1>3, <2>1, <2>2, EncodedIsLoaded, CutIsLoaded
<1>4. CASE file' = Emptied
  BY <1>4, EmptiedIsLoaded DEF Emptied
<1>5. CASE file' \in InitialDocs
  BY <1>5, FileAssumption
<1>6. CASE pc = "encoding" /\ file' = Encoded(config)
  <2>1. config \in Configs /\ config.url # LocalUrl
    BY <1>6 DEF TypeOK, PrepTypeOK, LocalInv
  <2>2. Loaded(file)' = config
    BY <1>6, <2>1, EncodedIsLoaded
  <2> QED
    BY <1>6, <2>1, <2>2 DEF Encoded, Complete
<1>7. CASE Starts \/ Loads \/ OpensSource \/ Merges \/ StartsPreparers \/ Waits
  BY <1>1, <1>7 DEF Starts, Loads, OpensSource, Merges, StartsPreparers, Waits
<1>8. CASE ModeAccepts \/ SkipsSaving \/ Launches \/ Stops
  BY <1>1, <1>8 DEF ModeAccepts, SkipsSaving, Launches, Stops
<1>9. CASE CreatesFile \/ Truncates
  BY <1>1, <1>4, <1>9 DEF CreatesFile, Truncates
<1>10. CASE Copies
  BY <1>1, <1>5, <1>10 DEF Copies
<1>11. CASE CopyBreaks \/ Crashes
  BY <1>1, <1>2, <1>3, <1>11 DEF CopyBreaks, Crashes
<1>12. CASE Encodes \/ EncodingBreaks
  BY <1>3, <1>6, <1>12 DEF Encodes, EncodingBreaks, Goes
<1>13. CASE \E p \in AllPreparers : Prepares(p)
  BY <1>1, <1>13 DEF Prepares, startVars
<1>14. CASE UNCHANGED vars
  BY <1>1, <1>14 DEF vars
<1> QED
  BY <1>7, <1>8, <1>9, <1>10, <1>11, <1>12, <1>13, <1>14 DEF Next, Main

LEMMA ConfigTyped == ASSUME TypeOK, LocalInv, [Next]_vars PROVE ConfigPart'
<1> USE DEF ConfigPart, Goes
<1>0. ConfigPart /\ Loaded(file) \in Configs /\ Loaded(file).url # LocalUrl /\ requested \in Names
  BY DEF TypeOK, PrepTypeOK, LocalInv
<1>1. CASE UNCHANGED <<config, nodes>> /\ (pc = "running" => pc' = "running")
  BY <1>0, <1>1
<1>2. CASE Starts \/ OpensSource \/ CreatesFile \/ CopyBreaks \/ StartsPreparers \/ Waits
  BY <1>1, <1>2 
  DEF Starts, OpensSource, CreatesFile, CopyBreaks, StartsPreparers, Spawns, Waits, prepVars
<1>3. CASE SkipsSaving \/ Truncates \/ Encodes \/ EncodingBreaks
  BY <1>1, <1>3 DEF SkipsSaving, Truncates, Encodes, EncodingBreaks, prepVars
<1>4. CASE Loads
  BY <1>0, <1>4 DEF Loads
<1>5. CASE Copies
  <2>1. config' = Loaded(file)' /\ nodes' = nodes
    BY <1>5 DEF Copies
  <2>2. Loaded(file)' \in Configs /\ (Loaded(file).url # LocalUrl)'
    BY FileTyped DEF FilePart
  <2> QED
    BY <1>0, <2>1, <2>2
<1>6. CASE Merges
  <2>1. flags \in CommandLines \cup {NoFlags}
    BY DEF TypeOK
  <2>2. flags.mode \in Modes /\ flags.url \in Urls /\ flags.name \in Names
        /\ flags.secret \in {"", "key"} /\ flags.create \in BOOLEAN
    <3>1. CASE flags \in CommandLines
      BY <3>1, CommandLineAssumption
    <3>2. CASE flags = NoFlags
      BY <3>2, NameAssumption DEF NoFlags, Modes, Urls
    <3> QED
      BY <2>1, <3>1, <3>2
  <2>3. config \in Configs /\ config.url # LocalUrl /\ nodes' = nodes
    BY <1>0, <1>6 DEF Merges
  <2>4. flags.url # LocalUrl
    BY <2>2 DEF Urls, LocalUrl
  <2> QED
    BY <1>0, <1>6, <2>2, <2>3, <2>4, ZenonT(40) DEF Merges, Configs
<1>7. CASE ModeAccepts
  BY <1>0, <1>7, ConfigUpdates DEF ModeAccepts
<1>11. CASE Launches
  BY <1>0, <1>11, TunnelChanges DEF Launches
<1>8. CASE Stops \/ Crashes
  BY <1>0, <1>8, DefaultIsConfig DEF Stops, Crashes, GoesDown, PrepEnds
<1>9. ASSUME NEW p \in AllPreparers, Prepares(p) PROVE ConfigPart'
  <2>0. config.name \in Names
    BY <1>0 DEF Configs
  <2>1. CASE MonitorStarts \/ Registers(p) \/ CleanerAsks \/ NamingFindsNothing \/ NamingFails
    BY <1>1, <1>9, <2>1 DEF MonitorStarts, Registers, LoadsSlice, LoadsTornSlice, StoresSlice,
                      CleanerAsks, NamingFindsNothing, NamingFails, Prepares, startVars
  <2>2. CASE NamingStarts
    <3>1. /\ UNCHANGED <<nodes, pc>>
          /\ config' = config \/ \E x \in Names : config' = [config EXCEPT !.name = x]
      <4>1. (IF config.name = NoName THEN Hostname ELSE config.name) \in Names
        BY <2>0, NameAssumption
      <4> QED
        BY <1>9, <2>2, <4>1 DEF NamingStarts, Prepares, startVars
    <3> QED
      BY <1>0, <3>1, RenamedIsTyped
  <2>3. CASE NamingFinds
    <3>1. UNCHANGED <<nodes, pc>> /\ \E x \in Names : config' = [config EXCEPT !.name = x]
      BY <1>0, <1>9, <2>3, MatchesAreNodes DEF NamingFinds, Prepares, startVars
    <3> QED
      BY <1>0, <3>1, RenamedIsTyped
  <2>4. CASE NamingCreates
    BY <1>0, <1>9, <2>0, <2>4 DEF NamingCreates, Prepares, startVars
  <2> QED
    BY <1>9, <2>1, <2>2, <2>3, <2>4 DEF Prepares, PreparerStep
<1>10. CASE UNCHANGED vars
  BY <1>1, <1>10 DEF vars, prepVars
<1> QED
  BY <1>2, <1>3, <1>4, <1>5, <1>6, <1>7, <1>8, <1>9, <1>10, <1>11 DEF Next, Main

(* What the preparers share. *)
PreparersPart ==
    /\ listeners \in Seq(ListenerNames)
    /\ loaded \in [{"jar", "oom"} -> Seq(ListenerNames)]
    /\ requested \in Names /\ askedFor \in Names
    /\ verified \in BOOLEAN

LEMMA PreparersTyped == ASSUME TypeOK, [Next]_vars PROVE PreparersPart'
<1> USE DEF PreparersPart
<1>0. PreparersPart /\ config.name \in Names
  BY DEF TypeOK, PrepTypeOK, Configs
<1>1. CASE UNCHANGED <<listeners, loaded, requested, askedFor, verified>>
  BY <1>0, <1>1
<1>2. CASE Starts \/ Loads \/ OpensSource \/ CreatesFile \/ Copies \/ CopyBreaks
  BY <1>1, <1>2 DEF Starts, Loads, OpensSource, CreatesFile, Copies, CopyBreaks, prepVars
<1>3. CASE Merges \/ Waits \/ ModeAccepts \/ SkipsSaving
  BY <1>1, <1>3 DEF Merges, Waits, ModeAccepts, SkipsSaving, prepVars
<1>4. CASE Truncates \/ Encodes \/ EncodingBreaks \/ Launches
  BY <1>1, <1>4 DEF Truncates, Encodes, EncodingBreaks, Launches, prepVars
<1>5. CASE StartsPreparers
  BY <1>0, <1>5 DEF StartsPreparers, Spawns
<1>6. CASE Stops \/ Crashes
  <2>1. RegisteredAtInit \in Seq(ListenerNames)
    BY DEF RegisteredAtInit, ListenerNames
  <2>2. NothingLoaded \in [{"jar", "oom"} -> Seq(ListenerNames)]
    BY DEF NothingLoaded, ListenerNames
  <2>3. PrepEnds
    BY <1>6 DEF Stops, Crashes, GoesDown
  <2> QED
    BY <2>1, <2>2, <2>3, NameAssumption DEF PrepEnds
<1>7. ASSUME NEW p \in AllPreparers, Prepares(p) PROVE PreparersPart'
  <2>1. CASE Registers(p)
    <3>1. p \in {"jar", "oom"}
      BY <2>1 DEF Registers
    <3>2. CASE LoadsSlice(p)
      BY <1>0, <3>1, <3>2 DEF LoadsSlice
    <3>3. CASE LoadsTornSlice(p)
      <4>1. Append(listeners, "garbage") \in Seq(ListenerNames)
        BY <1>0 DEF ListenerNames
      <4> QED
        BY <1>0, <3>1, <3>3, <4>1 DEF LoadsTornSlice
    <3>4. CASE StoresSlice(p)
      <4>1. Append(loaded[p], p) \in Seq(ListenerNames) /\ <<>> \in Seq(ListenerNames)
        BY <1>0, <3>1 DEF ListenerNames
      <4> QED
        BY <1>0, <3>1, <3>4, <4>1 DEF StoresSlice
    <3> QED
      BY <2>1, <3>2, <3>3, <3>4 DEF Registers
  <2>2. CASE MonitorStarts \/ NamingStarts \/ NamingFindsNothing \/ NamingFails \/ NamingCreates
    BY <1>1, <2>2 DEF MonitorStarts, NamingStarts, NamingFindsNothing, NamingFails, NamingCreates
  <2>3. CASE NamingFinds
    BY <1>0, <2>3 DEF NamingFinds
  <2>4. CASE CleanerAsks
    BY <1>0, <2>4 DEF CleanerAsks
  <2> QED
    BY <1>7, <2>1, <2>2, <2>3, <2>4 DEF Prepares, PreparerStep
<1>8. CASE UNCHANGED vars
  BY <1>1, <1>8 DEF vars, prepVars
<1> QED
  BY <1>2, <1>3, <1>4, <1>5, <1>6, <1>7, <1>8 DEF Next, Main

(* The WaitGroup never goes below zero. *)
LEMMA WorkTyped == ASSUME TypeOK, WaitInv, WaitInv', [Next]_vars PROVE work' \in Nat
<1>1. CASE pc' = "waiting"
  <2>1. Pending' \in SUBSET AllPreparers
    BY DEF Pending
  <2> QED
    BY <1>1, <2>1, PreparersAreFinite DEF WaitInv
<1>2. CASE pc' # "waiting"
  <2>0. work \in Nat
    BY DEF TypeOK, PrepTypeOK
  <2>1. CASE UNCHANGED work
    BY <2>0, <2>1
  <2>2. CASE Starts \/ Loads \/ OpensSource \/ CreatesFile \/ Copies \/ CopyBreaks
    BY <2>1, <2>2 DEF Starts, Loads, OpensSource, CreatesFile, Copies, CopyBreaks, prepVars
  <2>3. CASE Merges \/ Waits \/ ModeAccepts \/ SkipsSaving
    BY <2>1, <2>3 DEF Merges, Waits, ModeAccepts, SkipsSaving, prepVars
  <2>4. CASE Truncates \/ Encodes \/ EncodingBreaks \/ Launches
    BY <2>1, <2>4 DEF Truncates, Encodes, EncodingBreaks, Launches, prepVars
  <2>5. CASE StartsPreparers \/ \E p \in AllPreparers : Prepares(p)
    BY <1>2, <2>5 DEF StartsPreparers, Goes, Prepares, startVars
  <2>6. CASE Stops \/ Crashes
    BY <2>6 DEF Stops, Crashes, GoesDown, PrepEnds
  <2>7. CASE UNCHANGED vars
    BY <2>1, <2>7 DEF vars, prepVars
  <2> QED
    BY <2>2, <2>3, <2>4, <2>5, <2>6, <2>7 DEF Next, Main
<1> QED
  BY <1>1, <1>2

(* What main() keeps beside the configuration. *)
MainPart ==
    /\ pc \in {"down", "loading", "opening", "creating", "copying", "merging", "preparing",
               "waiting", "accepting", "saving", "encoding", "launching", "running", "stopping"}
    /\ flags \in CommandLines \cup {NoFlags}
    /\ needsSave \in BOOLEAN /\ intact \in BOOLEAN
    /\ saved \in {"no", "yes", "failed"}

LEMMA MainTyped == ASSUME TypeOK, LocalInv, [Next]_vars PROVE MainPart'
<1>0. MainPart /\ file.complete \in BOOLEAN
  BY DEF TypeOK, MainPart
<1> USE DEF MainPart, Goes, AfterSaving
<1>1. CASE UNCHANGED startVars
  BY <1>0, <1>1 DEF startVars
<1>2. CASE Starts
  BY <1>0, <1>2 DEF Starts
<1>3. CASE Loads
  BY <1>0, <1>3 DEF Loads, NeedsSave
<1>4. CASE OpensSource \/ CreatesFile \/ CopyBreaks
  BY <1>0, <1>4 DEF OpensSource, CreatesFile, CopyBreaks
<1>5. CASE Copies
  BY <1>0, <1>5, FileTyped DEF Copies, NeedsSave, FilePart
<1>6. CASE Merges \/ StartsPreparers \/ Waits \/ ModeAccepts
  BY <1>0, <1>6 DEF Merges, StartsPreparers, Waits, ModeAccepts
<1>7. CASE SkipsSaving
  BY <1>0, <1>7 DEF SkipsSaving
<1>8. CASE Truncates
  BY <1>0, <1>8 DEF Truncates
<1>9. CASE Encodes \/ EncodingBreaks
  BY <1>0, <1>9 DEF Encodes, EncodingBreaks
<1>10. CASE Launches
  BY <1>0, <1>10 DEF Launches
<1>11. CASE Stops \/ Crashes
  BY <1>0, <1>11 DEF Stops, Crashes, GoesDown
<1>12. CASE \E p \in AllPreparers : Prepares(p)
  BY <1>1, <1>12 DEF Prepares
<1>13. CASE UNCHANGED vars
  BY <1>1, <1>13 DEF vars, startVars
<1> QED
  BY <1>2, <1>3, <1>4, <1>5, <1>6, <1>7, <1>8, <1>9, <1>10, <1>11, <1>12, <1>13 DEF Next, Main

LEMMA TypedAndRemote == Spec => [](TypeOK /\ LocalInv)
<1> DEFINE Parts == FilePart /\ ConfigPart /\ PreparersPart /\ MainPart /\ work \in Nat
                    /\ prep \in [AllPreparers -> Stages]
<1>1. Parts => TypeOK /\ LocalInv
  BY DEF FilePart, ConfigPart, PreparersPart, MainPart, TypeOK, PrepTypeOK, Stages, LocalInv
<1>2. Init => TypeOK /\ LocalInv
  <2> SUFFICES ASSUME Init PROVE Parts
    BY <1>1
  <2>1. FilePart
    BY FileAssumption DEF Init, FilePart
  <2>2. ConfigPart
    BY DefaultIsConfig, NodeAssumption DEF Init, PrepInit, ConfigPart
  <2>3. RegisteredAtInit \in Seq(ListenerNames)
    BY DEF RegisteredAtInit, ListenerNames
  <2>4. NothingLoaded \in [{"jar", "oom"} -> Seq(ListenerNames)]
    BY DEF NothingLoaded, ListenerNames
  <2>5. PreparersPart
    BY <2>3, <2>4, NameAssumption DEF Init, PrepInit, PreparersPart
  <2>6. MainPart /\ work \in Nat
    BY DEF Init, PrepInit, MainPart
  <2>7. prep \in [AllPreparers -> Stages]
    BY DEF Init, PrepInit, Idle, Stages
  <2> QED
    BY <2>1, <2>2, <2>5, <2>6, <2>7
<1>3. TypeOK /\ LocalInv /\ WaitInv /\ WaitInv' /\ [Next]_vars => (TypeOK /\ LocalInv)'
  <2> SUFFICES ASSUME TypeOK, LocalInv, WaitInv, WaitInv', [Next]_vars
               PROVE  (TypeOK /\ LocalInv)'
    OBVIOUS
  <2>1. prep' \in [AllPreparers -> Stages]
    BY DEF WaitInv
  <2>2. FilePart' /\ ConfigPart' /\ PreparersPart' /\ MainPart' /\ work' \in Nat
    BY FileTyped, ConfigTyped, PreparersTyped, MainTyped, WorkTyped
  <2> QED
    BY <2>1, <2>2 DEF FilePart, ConfigPart, PreparersPart, MainPart, TypeOK, PrepTypeOK, Stages,
                      LocalInv
<1> QED
  BY <1>2, <1>3, Waiting, PTL DEF Spec

(* Whatever a file holds and wherever it was cut off, what is loaded from  *)
(* it is a configuration, and the name in it one of a node or of the host. *)
THEOREM TypeCorrect == Spec => []TypeOK
BY TypedAndRemote, PTL

-----------------------------------------------------------------------------
(* Nothing but a tunnel changes the configuration after it was written.    *)
SavedInv ==
    /\ pc \notin {"launching", "running", "stopping"} => saved = "no"
    /\ saved = "yes" =>
           LET stored == Loaded(file)
           IN  /\ config = [stored EXCEPT !.url = config.url, !.auth = config.auth]
               /\ pc # "running" \/ ~IsTunnelled(stored) => config = stored

(* What a start saved is what the next one loads and, but for what a tunnel*)
(* changes, what it runs with (launcher.go:100-103, config.go:413-486,     *)
(* sshtunnel.go:153-156, 218).                                             *)
THEOREM WhatIsSavedIsUsed == Spec => []SavedIsUsed
<1>1. Init => SavedInv
  BY DEF Init, SavedInv
<1>2. TypeOK /\ SavedInv /\ [Next]_vars => SavedInv'
  <2> SUFFICES ASSUME TypeOK, SavedInv, [Next]_vars PROVE SavedInv'
    OBVIOUS
  <2>0. config \in Configs
    BY DEF TypeOK, PrepTypeOK
  <2> USE DEF SavedInv, Goes
  <2>1. CASE /\ pc \notin {"launching", "running", "stopping"} /\ UNCHANGED saved
    BY <2>1
  <2>2. CASE Starts \/ Loads \/ OpensSource \/ CreatesFile \/ Copies \/ CopyBreaks
    BY <2>1, <2>2 DEF Starts, Loads, OpensSource, CreatesFile, Copies, CopyBreaks
  <2>3. CASE Merges \/ StartsPreparers \/ Waits \/ ModeAccepts \/ SkipsSaving
    BY <2>1, <2>3 DEF Merges, StartsPreparers, Waits, ModeAccepts, SkipsSaving
  <2>4. CASE Truncates
    BY <2>4 DEF Truncates, AfterSaving
  <2>5. CASE Encodes
    <3>1. Loaded(Encoded(config)) = config
      BY EncodedIsLoaded DEF TypeOK, PrepTypeOK
    <3>2. file' = Encoded(config) /\ config' = config /\ pc' \in {"stopping", "launching"}
      BY <2>5 DEF Encodes, AfterSaving, prepVars
    <3>3. config = [config EXCEPT !.url = config.url, !.auth = config.auth]
      BY <2>0 DEF Configs
    <3>4. Loaded(file)' = config
      BY <3>1, <3>2
    <3> QED
      BY <3>2, <3>3, <3>4
  <2>6. CASE EncodingBreaks
    BY <2>6 DEF EncodingBreaks, AfterSaving
  <2>7. CASE Launches
    <3>1. pc = "launching" /\ pc' = "running" /\ saved' = saved /\ file' = file
      BY <2>7 DEF Launches
    <3>2. saved = "yes" => config = Loaded(file)
      BY <3>1
    <3>3. /\ config' = [config EXCEPT !.url = config'.url, !.auth = config'.auth]
          /\ ~IsTunnelled(config) => config' = config
      BY <2>0, <2>7, TunnelChanges
    <3> QED
      BY <3>1, <3>2, <3>3
  <2>8. CASE Stops \/ Crashes
    BY <2>8 DEF Stops, Crashes, GoesDown
  <2>9. CASE \E p \in AllPreparers : Prepares(p)
    BY <2>1, <2>9 DEF Prepares, startVars
  <2>10. CASE UNCHANGED vars
    BY <2>10 DEF vars, prepVars
  <2> QED
    BY <2>2, <2>3, <2>4, <2>5, <2>6, <2>7, <2>8, <2>9, <2>10 DEF Next, Main
<1>3. LocalInv /\ SavedInv => SavedIsUsed
  BY DEF LocalInv, SavedInv, SavedIsUsed
<1> QED
  BY <1>1, <1>2, <1>3, TypedAndRemote, PTL DEF Spec

-----------------------------------------------------------------------------
(* The name that is verified, and what it may be replaced by.              *)
Given == IF requested = NoName THEN Hostname ELSE requested

StandsForGiven(name) ==
    /\ name \in nodes
    /\ \/ SameName(name, Given)
       \/ IsQualified(name, Given) /\ \A n \in nodes : ~SameName(n, Given)

(* Before the preparers are started. *)
Early == {"down", "loading", "opening", "creating", "copying", "merging", "preparing"}

NamingInv ==
    /\ pc \in Early => ~verified /\ prep["naming"] = "idle"
    /\ pc \notin Early \cup {"waiting"} => prep["naming"] \in {"idle", "done"}
    /\ prep["naming"] = "ready" => config.name = requested
    /\ prep["naming"] \in {"verifying", "creating", "reverifying"} =>
           config.name = Given
    /\ prep["naming"] # "done" => ~verified
    /\ verified => StandsForGiven(config.name)
(* What the invariant speaks about, and what the goroutines beside the     *)
(* naming leave alone.                                                     *)
NamingState == <<config, nodes, requested, verified, prep["naming"]>>

LEMMA OthersDoNotName ==
    ASSUME TypeOK, NEW p \in AllPreparers,
           (p = "monitor" /\ MonitorStarts) \/ Registers(p) \/ (p = "cleaner" /\ CleanerAsks)
    PROVE  UNCHANGED NamingState
<1>1. UNCHANGED <<config, nodes, requested, verified>>
  BY DEF MonitorStarts, Registers, LoadsSlice, LoadsTornSlice, StoresSlice, CleanerAsks
<1>2. p # "naming" /\ p \in AllPreparers /\ \E to : prep' = [prep EXCEPT ![p] = to]
  BY DEF MonitorStarts, Registers, LoadsSlice, LoadsTornSlice, StoresSlice, CleanerAsks, Ends, Moves
<1>3. prep \in [AllPreparers -> Stages] /\ "naming" \in AllPreparers
  BY DEF TypeOK, PrepTypeOK, Stages, AllPreparers
<1>4. prep'["naming"] = prep["naming"]
  BY <1>2, <1>3
<1> QED
  BY <1>1, <1>4 DEF NamingState

LEMMA NamingNames ==
    ASSUME TypeOK, NamingInv, pc = "waiting", pc' = "waiting",
           NamingStarts \/ NamingFinds \/ NamingFindsNothing \/ NamingFails \/ NamingCreates
    PROVE  NamingInv'
<1>0. /\ config \in Configs /\ nodes \subseteq Names
      /\ prep \in [AllPreparers -> Stages] /\ "naming" \in AllPreparers
      /\ Hostname \in Names /\ NoName \in Names
  BY NameAssumption DEF TypeOK, PrepTypeOK, Stages, AllPreparers
<1> USE DEF NamingInv, Early
<1>1. CASE NamingStarts
  <2>1. CASE HasCIConnection(config)
    <3>1. config.name = requested /\ ~verified
      BY <1>1 DEF NamingStarts
    <3>2. config.name \in Names
      BY <1>0 DEF Configs
    <3>3. config' = [config EXCEPT !.name = Given] /\ Given \in Names
      BY <1>0, <1>1, <2>1, <3>1, <3>2 DEF NamingStarts, Given
    <3>4. config'.name = Given
      BY <1>0, <3>3, ConfigUpdates
    <3>5. prep'["naming"] = "verifying" /\ UNCHANGED <<requested, verified, nodes>>
      BY <1>0, <1>1, <2>1 DEF NamingStarts, Moves
    <3> QED
      BY <3>1, <3>4, <3>5 DEF Given
  <2>2. CASE ~HasCIConnection(config)
    <3>1. prep'["naming"] = "done" /\ UNCHANGED <<config, requested, verified, nodes>>
      BY <1>0, <1>1, <2>2 DEF NamingStarts, Ends
    <3>2. ~verified
      BY <1>1 DEF NamingStarts
    <3> QED
      BY <3>1, <3>2
  <2> QED
    BY <2>1, <2>2
<1>2. CASE NamingFinds
  <2>1. config.name = Given
    BY <1>2 DEF NamingFinds
  <2>2. PICK x \in Matches(Given) : config' = [config EXCEPT !.name = x]
    BY <1>2, <2>1 DEF NamingFinds
  <2>3. /\ x \in nodes
        /\ \/ SameName(x, Given)
           \/ IsQualified(x, Given) /\ \A n \in nodes : ~SameName(n, Given)
    BY DEF Matches
  <2>4. config'.name = x
    BY <1>0, <2>2, <2>3, ConfigUpdates
  <2>5. prep'["naming"] = "done" /\ UNCHANGED <<requested, nodes>>
    BY <1>0, <1>2 DEF NamingFinds, Ends
  <2>6. StandsForGiven(config.name)'
    BY <2>3, <2>4, <2>5 DEF StandsForGiven, Given
  <2> QED
    BY <2>5, <2>6
<1>3. CASE NamingFindsNothing \/ NamingFails
  <2>1. ~verified /\ UNCHANGED <<config, requested, verified>> /\ config.name = Given
    BY <1>3 DEF NamingFindsNothing, NamingFails
  <2>2. prep'["naming"] \in {"creating", "done"}
    BY <1>0, <1>3 DEF NamingFindsNothing, NamingFails, Ends, Moves
  <2> QED
    BY <2>1, <2>2 DEF Given
<1>4. CASE NamingCreates
  <2>1. ~verified /\ UNCHANGED <<config, requested, verified>> /\ config.name = Given
    BY <1>4 DEF NamingCreates, Moves
  <2>2. prep'["naming"] = "reverifying"
    BY <1>0, <1>4 DEF NamingCreates, Moves
  <2> QED
    BY <2>1, <2>2 DEF Given
<1> QED
  BY <1>1, <1>2, <1>3, <1>4

(* The verified name is one of a node of Jenkins that stands for the name  *)
(* the launcher was given, whatever the other preparers do and however many*)
(* nodes there are (naming.go:54-113).                                     *)
THEOREM VerifiedNameStands == Spec => []NameIsThisMachines
<1> USE DEF Early
<1>1. Init => NamingInv
  BY DEF Init, PrepInit, Idle, AllPreparers, NamingInv
<1>2. TypeOK /\ WaitInv /\ NamingInv /\ [Next]_vars => NamingInv'
  <2> SUFFICES ASSUME TypeOK, WaitInv, NamingInv, [Next]_vars PROVE NamingInv'
    OBVIOUS
  <2>1. CASE /\ UNCHANGED <<nodes, requested, verified, prep>>
             /\ pc # "waiting" /\ pc' # "waiting"
             /\ pc' \in Early => pc \in Early
             /\ config'.name = config.name \/ pc \in {"loading", "copying", "merging"}
    <3>1. prep["naming"] \in {"idle", "done"}
      BY <2>1 DEF NamingInv, TypeOK
    <3>2. verified => config'.name = config.name
      BY <2>1 DEF NamingInv
    <3>3. StandsForGiven(config.name) /\ config'.name = config.name => StandsForGiven(config.name)'
      BY <2>1 DEF StandsForGiven, Given
    <3> QED
      BY <2>1, <3>1, <3>2, <3>3 DEF NamingInv, TypeOK
  <2>2. CASE UNCHANGED NamingState /\ pc' = pc
    BY <2>2 DEF NamingInv, NamingState, StandsForGiven, Given
  <2>3. CASE Starts \/ OpensSource \/ CreatesFile \/ CopyBreaks
    BY <2>1, <2>3 DEF Starts, OpensSource, CreatesFile, CopyBreaks, Goes, prepVars
  <2>4. CASE Loads
    BY <2>1, <2>4 DEF Loads, Goes
  <2>5. CASE Copies
    BY <2>1, <2>5 DEF Copies, Goes
  <2>6. CASE Merges
    BY <2>1, <2>6 DEF Merges, Goes
  <2>7. CASE StartsPreparers
    <3>1. prep'["naming"] \in {"ready", "done"}
      BY <2>7 DEF StartsPreparers, Spawns, AllPreparers
    <3>2. ~verified' /\ config' = config /\ requested' = config.name /\ pc' = "waiting"
      BY <2>7 DEF StartsPreparers, Spawns, Goes, NamingInv
    <3> QED
      BY <3>1, <3>2 DEF NamingInv
  <2>8. CASE Waits
    <3>1. Pending = {}
      BY <2>8, PendingIsFinite, FS_EmptySet DEF Waits, WaitInv, Goes
    <3>2. prep["naming"] = "done"
      BY <3>1 DEF Pending, AllPreparers
    <3>3. UNCHANGED prepVars /\ pc' = "accepting"
      BY <2>8 DEF Waits, Goes
    <3> QED
      BY <3>2, <3>3 DEF NamingInv, StandsForGiven, Given, prepVars
  <2>9. CASE ModeAccepts
    <3>1. config'.name = config.name
      BY <2>9, ConfigUpdates DEF ModeAccepts, TypeOK, PrepTypeOK
    <3> QED
      BY <2>1, <2>9, <3>1 DEF ModeAccepts, Goes
  <2>10. CASE SkipsSaving \/ Truncates \/ Encodes \/ EncodingBreaks
    BY <2>1, <2>10 DEF SkipsSaving, Truncates, Encodes, EncodingBreaks, Goes,
                       AfterSaving, prepVars
  <2>14. CASE Launches
    <3>1. config \in Configs /\ config' = [config EXCEPT !.url = config'.url, !.auth = config'.auth]
      BY <2>14, TunnelChanges DEF TypeOK, PrepTypeOK
    <3>2. config'.name = config.name
      BY <3>1 DEF Configs
    <3> QED
      BY <2>1, <2>14, <3>2 DEF Launches, Goes
  <2>11. CASE Stops \/ Crashes
    <3>1. ~verified' /\ prep'["naming"] = "idle" /\ pc' = "down"
      BY <2>11 DEF Stops, Crashes, GoesDown, PrepEnds, Idle, AllPreparers
    <3> QED
      BY <3>1 DEF NamingInv
  <2>12. ASSUME NEW p \in AllPreparers, Prepares(p) PROVE NamingInv'
    <3>1. pc = "waiting" /\ pc' = "waiting"
      BY <2>12 DEF Prepares, startVars
    <3>2. \/ (p = "monitor" /\ MonitorStarts) \/ Registers(p) \/ (p = "cleaner" /\ CleanerAsks)
          \/ NamingStarts \/ NamingFinds \/ NamingFindsNothing \/ NamingFails \/ NamingCreates
      BY <2>12 DEF Prepares, PreparerStep
    <3>3. CASE (p = "monitor" /\ MonitorStarts) \/ Registers(p) \/ (p = "cleaner" /\ CleanerAsks)
      <4>1. UNCHANGED NamingState
        BY <3>3, OthersDoNotName
      <4> QED
        BY <2>2, <3>1, <4>1
    <3>4. CASE NamingStarts \/ NamingFinds \/ NamingFindsNothing \/ NamingFails \/ NamingCreates
      BY <3>1, <3>4, NamingNames
    <3> QED
      BY <3>2, <3>3, <3>4
  <2>13. CASE UNCHANGED vars
    BY <2>2, <2>13 DEF vars, prepVars, NamingState
  <2> QED
    BY <2>3, <2>4, <2>5, <2>6, <2>7, <2>8, <2>9, <2>10, <2>11, <2>12, <2>13,
       <2>14 DEF Next, Main
<1>3. NamingInv => NameIsThisMachines
  BY DEF NamingInv, NameIsThisMachines, StandsForGiven, Given
<1> QED
  BY <1>1, <1>2, <1>3, TypeCorrect, Waiting, PTL DEF Spec
=============================================================================
