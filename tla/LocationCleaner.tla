--------------------------- MODULE LocationCleaner ---------------------------
(***************************************************************************)
(* environment/cleanup.go: the goroutine of one cleanup setting. In every  *)
(* pass it walks the locations that match the setting, removes files that  *)
(* were not touched for the TTL, then directories it saw empty.            *)
(*                                                                         *)
(* Builds work in the same locations at the same time. Instead of times    *)
(* the model has the set of files that exceed the TTL: a build that touches*)
(* a file takes it out, time puts it in.                                   *)
(***************************************************************************)
EXTENDS FiniteSetsExt, Sequences

CONSTANTS
    Files,
    Dirs,
    Parent,        \* the directory of every file, and of every directory that is no location
    Locations,     \* what the pattern of the setting matches, in the order of Glob
    Excluded,      \* the files that match one of the exclusions
    OnlyWhenIdle,  \* setting.OnlyWhenIDLE
    None

Roots   == {Locations[i] : i \in 1..Len(Locations)}
Entries == Files \cup Dirs

ASSUME TreeAssumption == /\ Files \cap Dirs = {} /\ None \notin Entries
                         /\ Locations \in Seq(Dirs)
                         /\ Parent \in [Entries \ Roots -> Dirs]
                         /\ Excluded \subseteq Files
                         /\ OnlyWhenIdle \in BOOLEAN

VARIABLES
    present,  \* the files and directories that exist
    old,      \* the files that were last touched longer than the TTL ago
    busy,     \* whether a build runs: ~util.NodeIsIdle
    mode,     \* setting.Mode
    pc,       \* where the cleaner is
    rest,     \* the places in Locations of those this pass has still to clean
    expired,  \* the files last touched before expiredTimeOffset of this location
    pending,  \* what the walk has still to visit
    victim,   \* the file that was found expired and is about to be removed
    kept,     \* exclusionCount > 0
    empty,    \* the directories that dirToEmptyMap maps to true
    touched,  \* history: the files touched since expiredTimeOffset was taken
    aborted   \* history: the dry run of this location met an error

vars == <<present, old, busy, mode, pc, rest, expired, pending, victim, kept, empty, touched,
          aborted>>
walk == <<pending, victim, kept, empty>>
history == <<touched, aborted>>

Below(d) == {e \in Entries \ Roots : Parent[e] = d}

TypeOK ==
    /\ present \subseteq Entries
    /\ \A e \in present \ Roots : Parent[e] \in present
    /\ old \subseteq Files \cap present
    /\ busy \in BOOLEAN
    /\ mode \in {"TTLPerLocation", "TTLPerFile"}
    /\ pc \in {"ticking", "waiting", "choosing", "dry", "real", "sweeping"}
    /\ rest \subseteq DOMAIN Locations
    /\ expired \subseteq Files
    /\ pending \subseteq Entries
    /\ victim \in Files \cup {None}
    /\ kept \in BOOLEAN
    /\ empty \subseteq Dirs
    /\ touched \subseteq Files
    /\ aborted \in BOOLEAN

Init ==
    /\ present = Entries
    /\ old = {}
    /\ busy \in BOOLEAN
    /\ mode \in {"TTLPerLocation", "TTLPerFile"}
    /\ pc = "waiting"
    /\ rest = {}
    /\ expired = {} /\ pending = {} /\ victim = None /\ kept = FALSE /\ empty = {}
    /\ touched = {} /\ aborted = FALSE

-----------------------------------------------------------------------------
(* Builds and time.                                                        *)

BuildStartsOrEnds ==
    /\ busy' = ~busy
    /\ UNCHANGED <<present, old, mode, pc, rest, expired, walk, history>>

Touches(f) ==
    /\ busy /\ f \in Files /\ Parent[f] \in present
    /\ present' = present \cup {f}
    /\ old' = old \ {f}
    /\ expired' = expired \ {f}
    /\ touched' = touched \cup {f}
    /\ UNCHANGED <<busy, mode, pc, rest, walk, aborted>>

MakesDir(d) ==
    /\ busy /\ d \in Dirs \ present
    /\ d \notin Roots => Parent[d] \in present
    /\ present' = present \cup {d}
    /\ UNCHANGED <<old, busy, mode, pc, rest, expired, walk, history>>

Deletes(e) ==
    /\ busy /\ e \in present /\ Below(e) \cap present = {}
    /\ present' = present \ {e}
    /\ old' = old \ {e}
    /\ UNCHANGED <<busy, mode, pc, rest, expired, walk, history>>

Ages(f) ==
    /\ f \in (Files \cap present) \ old
    /\ old' = old \cup {f}
    /\ UNCHANGED <<present, busy, mode, pc, rest, expired, walk, history>>

-----------------------------------------------------------------------------
(* The passes of the goroutine that initializeLocation starts.             *)

Matches == {i \in DOMAIN Locations : Locations[i] \in present}

Location == Locations[Min(rest)]

Ticks ==
    /\ pc = "ticking" /\ pc' = "waiting"
    /\ UNCHANGED <<present, old, busy, mode, rest, expired, walk, history>>

(* waitForIdle, and findLocations once more. *)
StartsPass ==
    /\ pc = "waiting" /\ pc' = "choosing"
    /\ (OnlyWhenIdle /\ Matches # {}) => ~busy
    /\ rest' = Matches
    /\ UNCHANGED <<present, old, busy, mode, expired, walk, history>>

EndsPass ==
    /\ pc = "choosing" /\ pc' = "ticking"
    /\ rest = {}
    /\ UNCHANGED <<present, old, busy, mode, rest, expired, walk, history>>

StartsLocation ==
    /\ pc = "choosing" /\ rest # {}
    /\ pc' = IF mode = "TTLPerLocation" THEN "dry" ELSE "real"
    /\ expired' = old
    /\ pending' = {Location}
    /\ kept' = FALSE /\ empty' = {}
    /\ touched' = {} /\ aborted' = FALSE
    /\ UNCHANGED <<present, old, busy, mode, rest, victim>>

(* Mutant: the location is cleaned whatever the dry run counted. *)
DryRunDecidesNothing ==
    /\ pc = "dry" /\ pending = {}
    /\ pc' = "real" /\ pending' = {Location}
    /\ UNCHANGED <<present, old, busy, mode, rest, expired, victim, kept, empty, history>>

(* A fresh or an excluded file ends the pass, for all locations.           *)
DryRunEnds ==
    /\ pc = "dry" /\ pending = {}
    /\ IF kept THEN pc' = "ticking" /\ rest' = {} /\ UNCHANGED pending
               ELSE pc' = "real" /\ pending' = {Location} /\ UNCHANGED rest
    /\ UNCHANGED <<present, old, busy, mode, expired, victim, kept, empty, history>>

RealRunEnds ==
    /\ pc = "real" /\ pending = {} /\ victim = None
    /\ pc' = "sweeping"
    /\ UNCHANGED <<present, old, busy, mode, rest, expired, walk, history>>

-----------------------------------------------------------------------------
(* cleanupFiles: filepath.Walk visits in lexical order, here in any order; *)
(* what is below a directory is what was there when it was visited.        *)

(* Mutant: the exclusions are not looked at. *)
RemovableThoughExcluded(f) == f \in expired

(* Mutant: the time is not looked at. *)
RemovableThoughFresh(f) == f \notin Excluded

Removable(f) == f \in expired /\ f \notin Excluded

Visits(e) ==
    /\ pc \in {"dry", "real"} /\ victim = None
    /\ e \in pending

(* The error of Lstat is returned and ends the walk. *)
VisitsMissing(e) ==
    /\ Visits(e) /\ e \notin present
    /\ pending' = {}
    /\ aborted' = (aborted \/ pc = "dry")
    /\ UNCHANGED <<present, old, busy, mode, pc, rest, expired, victim, kept, empty, touched>>

Parents(e) == IF e \in Roots THEN {} ELSE {Parent[e]}

(* Mutant: a directory is never known to be empty. *)
VisitsDirBlindly(d) ==
    /\ Visits(d) /\ d \in Dirs \cap present
    /\ pending' = (pending \ {d}) \cup (Below(d) \cap present)
    /\ UNCHANGED <<present, old, busy, mode, pc, rest, expired, victim, kept, empty, history>>

VisitsDir(d) ==
    /\ Visits(d) /\ d \in Dirs \cap present
    /\ pending' = (pending \ {d}) \cup (Below(d) \cap present)
    /\ empty' = (empty \ Parents(d)) \cup {d}
    /\ UNCHANGED <<present, old, busy, mode, pc, rest, expired, victim, kept, history>>

VisitsFile(f) ==
    /\ Visits(f) /\ f \in Files \cap present
    /\ pending' = pending \ {f}
    /\ empty' = empty \ Parents(f)
    /\ kept' = (kept \/ ~Removable(f))
    /\ victim' = IF pc = "real" /\ Removable(f) THEN f ELSE None
    /\ UNCHANGED <<present, old, busy, mode, pc, rest, expired, history>>

(* os.Remove comes after the look at the file. *)
Removes ==
    /\ victim # None
    /\ present' = present \ {victim}
    /\ old' = old \ {victim}
    /\ victim' = None
    /\ UNCHANGED <<busy, mode, pc, rest, expired, pending, kept, empty, history>>

(* The error of os.Remove is dropped: a file in use on Windows, a right    *)
(* that is missing.                                                        *)
RemoveFails ==
    /\ victim # None
    /\ victim' = None
    /\ UNCHANGED <<present, old, busy, mode, pc, rest, expired, pending, kept, empty, history>>

(* Mutant: what is directly below is removed with the directory. *)
SweepsBelow(d) ==
    /\ pc = "sweeping" /\ d \in empty
    /\ empty' = empty \ {d}
    /\ present' = IF mode = "TTLPerLocation" \/ d # Location
                  THEN present \ (Below(d) \cup {d}) ELSE present
    /\ old' = old \cap present'
    /\ UNCHANGED <<busy, mode, pc, rest, expired, pending, victim, kept, history>>

(* os.Remove fails for a directory that is not empty any more, and may fail*)
(* for others.                                                             *)
Sweeps(d) ==
    /\ pc = "sweeping" /\ d \in empty
    /\ empty' = empty \ {d}
    /\ \/ UNCHANGED present
       \/ /\ mode = "TTLPerLocation" \/ d # Location
          /\ Below(d) \cap present = {}
          /\ present' = present \ {d}
    /\ UNCHANGED <<old, busy, mode, pc, rest, expired, pending, victim, kept, history>>

EndsLocation ==
    /\ pc = "sweeping" /\ empty = {}
    /\ pc' = "choosing" /\ rest' = rest \ {Min(rest)}
    /\ UNCHANGED <<present, old, busy, mode, expired, walk, history>>

-----------------------------------------------------------------------------
CleanerStep ==
    \/ Ticks \/ StartsPass \/ EndsPass \/ StartsLocation \/ DryRunEnds \/ RealRunEnds
    \/ \E e \in Entries : VisitsMissing(e) \/ VisitsDir(e) \/ VisitsFile(e) \/ Sweeps(e)
    \/ Removes \/ RemoveFails \/ EndsLocation

BuildStep ==
    \E e \in Entries : Touches(e) \/ MakesDir(e) \/ Deletes(e)

Next == BuildStartsOrEnds \/ BuildStep \/ (\E f \in Files : Ages(f)) \/ CleanerStep

Spec == Init /\ [][Next]_vars

SweepsDir == (\E d \in Dirs : Sweeps(d)) /\ present' # present

(* The ticker ticks and the cleaner runs; without builds files grow old.   *)
(* What is tried again in every pass does not fail for ever.               *)
FairSpec ==
    /\ Spec
    /\ WF_vars(CleanerStep)
    /\ \A f \in Files : WF_vars(~busy /\ Ages(f))
    /\ SF_vars(Removes) /\ SF_vars(SweepsDir)

-----------------------------------------------------------------------------
(* What the cleaner takes away in a step: only Removes resets victim, and  *)
(* only Sweeps takes a directory out of empty while sweeping.              *)
Lost ==
    IF (victim # None /\ victim' = None) \/ (pc = "sweeping" /\ empty' # empty)
    THEN present \ present' ELSE {}

(* All that is in an entry, itself included: the least set that holds the  *)
(* entry and what is directly below its members.                           *)
Inside == [e \in Entries |->
              {x \in Entries : \A S \in SUBSET Entries :
                                  e \in S /\ (\A d \in S : Below(d) \subseteq S) => x \in S}]

FilesOf(d) == Files \cap present \cap Inside[d]

(* "Files can be excluded from cleaning" (config.go:262): no pass takes an *)
(* excluded file, nor a directory with such a file below it, whatever a    *)
(* dry run or an earlier walk has noted about that directory.              *)
ExcludedStay == [][Lost \cap Excluded = {}]_vars

(* A file that does not exceed the TTL when its location is reached is not *)
(* taken (cleanup.go:197), and neither is one that appears later, by the   *)
(* removal of the directories noted as empty (cleanup.go:170-181). Files   *)
(* that a build touches between the look and the removal may be.           *)
RemovesOnlyExpired == [][Lost \cap Files \subseteq expired \cup touched]_vars

(* "Cleans the location only when all files exceed the TTL" (config.go:260)*)
(* and none is excluded, but for files touched since the pass reached the  *)
(* location, and unless an error cut the dry run short: then what it did   *)
(* not visit counts as expired (cleanup.go:156-160, 221).                  *)
CleansWholeLocation ==
    [][mode = "TTLPerLocation" /\ ~aborted /\ Lost \cap Files # {}
          => FilesOf(Location) \subseteq (expired \ Excluded) \cup touched]_vars

(* When no build runs any more and what is left can be removed at last, the*)
(* passes take everything that is not excluded, although each of them only *)
(* removes the directories that were empty before it: all files and        *)
(* subdirectories, and with TTLPerLocation the locations themselves        *)
(* (cleanup.go:135-137, 170-181, 212).                                     *)
AbandonedIsCleaned ==
    <>[](~busy /\ present \cap Excluded = {})
        => <>[](present \subseteq IF mode = "TTLPerFile" THEN Roots ELSE {})
=============================================================================
