------------------------ MODULE LocationCleanerProofs ------------------------
(***************************************************************************)
(* What holds of LocationCleaner for every tree of files, every setting and*)
(* every interleaving of the cleaner with builds.                          *)
(***************************************************************************)
EXTENDS LocationCleaner, WellFoundedInduction, TLAPS

(* The facts about the tree that the proofs need.                          *)
LEMMA Tree ==
    /\ Files \cap Dirs = {} /\ None \notin Files /\ None \notin Dirs
    /\ Excluded \subseteq Files
    /\ \A e \in Entries \ Roots : Parent[e] \in Dirs
BY TreeAssumption DEF Entries

(* A set of places has a first one: what Min chooses.                      *)
LEMMA FirstPlace ==
    ASSUME NEW S, S \subseteq Nat, S # {} PROVE Min(S) \in S
<1> DEFINE Less == {ss \in Nat \X Nat : ss[1] < ss[2]}
<1>1. IsWellFoundedOn(Less, Nat)
      BY NatLessThanWellFounded DEF OpToRel
<1>2. \A i, j \in Nat : j < i => <<j, i>> \in Less
      OBVIOUS
<1> HIDE DEF Less
<1>3. \E i \in S : \A j \in S : ~ (<<j, i>> \in Less)
      BY <1>1, WFMin, Zenon
<1>4. PICK i \in S : \A j \in S : ~ (<<j, i>> \in Less)
      BY <1>3
<1>5. ASSUME NEW j \in S PROVE i <= j
  <2>1. ~ (j < i)
        BY <1>2, <1>4
  <2> QED BY <2>1
<1> QED BY <1>5 DEF Min

(* The location being cleaned is a directory.                              *)
LEMMA LocationIsRoot ==
    ASSUME rest \subseteq DOMAIN Locations, rest # {}
    PROVE  Location \in Roots /\ Min(rest) \in rest
<1>1. DOMAIN Locations = 1..Len(Locations)
      BY TreeAssumption
<1>2. Min(rest) \in rest
  <2>1. rest \subseteq Nat
        BY <1>1, TreeAssumption
  <2> QED BY <2>1, FirstPlace
<1> QED BY <1>1, <1>2 DEF Location, Roots

(* So is every other one.                                                  *)
LEMMA RootsAreDirs == Roots \subseteq Dirs
BY TreeAssumption DEF Roots

-----------------------------------------------------------------------------
(* Type correctness. The walk begins at a location, which has to be there, *)
(* and no file or directory is there without its parent.                   *)

PlaceInv == pc \in {"dry", "real", "sweeping"} => rest # {}

(* No step of a build or of time leaves the type.                          *)
LEMMA BuildsKeepTypes ==
    ASSUME TypeOK, PlaceInv,
           BuildStartsOrEnds \/ BuildStep \/ \E f \in Files : Ages(f)
    PROVE  TypeOK' /\ PlaceInv'
<1> USE Tree, RootsAreDirs DEF TypeOK, PlaceInv, walk, history
<1>1. CASE BuildStartsOrEnds
  BY <1>1 DEF BuildStartsOrEnds
<1>2. ASSUME NEW f \in Entries, Touches(f) PROVE TypeOK' /\ PlaceInv'
  BY <1>2 DEF Touches, Entries
<1>3. ASSUME NEW d \in Entries, MakesDir(d) PROVE TypeOK' /\ PlaceInv'
  BY <1>3 DEF MakesDir, Entries
<1>4. ASSUME NEW e \in Entries, Deletes(e) PROVE TypeOK' /\ PlaceInv'
  BY <1>4 DEF Deletes, Below
<1>5. ASSUME NEW f \in Files, Ages(f) PROVE TypeOK' /\ PlaceInv'
  BY <1>5 DEF Ages
<1> QED BY <1>1, <1>2, <1>3, <1>4, <1>5 DEF BuildStep

(* Nor does a step of the cleaner: it removes a file, or a directory with  *)
(* nothing in it.                                                          *)
LEMMA CleanerKeepsTypes ==
    ASSUME TypeOK, PlaceInv, CleanerStep PROVE TypeOK' /\ PlaceInv'
<1> USE Tree, RootsAreDirs DEF TypeOK, PlaceInv, walk, history
<1>1. CASE Ticks \/ EndsPass
  BY <1>1 DEF Ticks, EndsPass
<1>2. CASE StartsPass
  BY <1>2 DEF StartsPass, Matches
<1>3. rest # {} => {Location} \subseteq Entries
  BY LocationIsRoot DEF Entries
<1>4. CASE StartsLocation
  BY <1>3, <1>4 DEF StartsLocation
<1>5. CASE DryRunEnds
  BY <1>3, <1>5 DEF DryRunEnds
<1>6. CASE RealRunEnds
  BY <1>6 DEF RealRunEnds
<1>7. CASE EndsLocation
  BY <1>7 DEF EndsLocation
<1>8. ASSUME NEW e \in Entries, VisitsMissing(e) PROVE TypeOK' /\ PlaceInv'
  BY <1>8 DEF VisitsMissing, Visits
<1>9. ASSUME NEW d \in Entries, VisitsDir(d) PROVE TypeOK' /\ PlaceInv'
  BY <1>9 DEF VisitsDir, Visits
<1>10. ASSUME NEW f \in Entries, VisitsFile(f) PROVE TypeOK' /\ PlaceInv'
  BY <1>10 DEF VisitsFile, Visits
<1>11. CASE Removes \/ RemoveFails
  BY <1>11 DEF Removes, RemoveFails
<1>12. ASSUME NEW d \in Entries, Sweeps(d) PROVE TypeOK' /\ PlaceInv'
  BY <1>12 DEF Sweeps, Below
<1> QED BY <1>1, <1>2, <1>4, <1>5, <1>6, <1>7, <1>8, <1>9, <1>10, <1>11, <1>12 DEF CleanerStep

(* Both are invariant, so far together.                                    *)
LEMMA TypesInductive == Spec => [](TypeOK /\ PlaceInv)
<1>1. Init => TypeOK /\ PlaceInv
  <2> SUFFICES ASSUME Init PROVE TypeOK /\ PlaceInv
    OBVIOUS
  <2>1. kept \in BOOLEAN /\ aborted \in BOOLEAN
    BY DEF Init
  <2>2. \A e \in present \ Roots : Parent[e] \in present
    BY Tree DEF Init, Entries
  <2> QED
    BY <2>1, <2>2, Tree DEF Init, TypeOK, PlaceInv
<1>2. TypeOK /\ PlaceInv /\ [Next]_vars => TypeOK' /\ PlaceInv'
  <2> SUFFICES ASSUME TypeOK, PlaceInv, [Next]_vars PROVE TypeOK' /\ PlaceInv'
    OBVIOUS
  <2>1. CASE UNCHANGED vars
    BY <2>1 DEF vars, walk, history, TypeOK, PlaceInv
  <2> QED
    BY <2>1, BuildsKeepTypes, CleanerKeepsTypes DEF Next
<1> QED BY <1>1, <1>2, PTL DEF Spec

(* Every variable keeps its type, and what is there has its directory      *)
(* there: neither the walk, which removes the file it looked at, nor the   *)
(* sweep, whose os.Remove fails on a directory that has filled again, ever *)
(* leaves a file behind without one (cleanup.go:170-181, 210).             *)
THEOREM TypeCorrect == Spec => []TypeOK
BY TypesInductive, PTL

-----------------------------------------------------------------------------
(* What the cleaner knows of a file it is about to remove, and that nothing*)
(* is marked empty but directories.                                        *)
CleanerInv ==
    /\ present \subseteq Entries
    /\ pc \in {"ticking", "waiting", "choosing", "dry", "real", "sweeping"}
    /\ empty \subseteq Dirs
    /\ victim # None => /\ pc = "real"
                       /\ victim \in Files \ Excluded
                       /\ victim \in expired \cup touched

(* The victim was expired when it was looked at, and still is unless a     *)
(* build has touched it.                                                   *)
LEMMA CleanerInductive == Spec => []CleanerInv
<1> USE Tree DEF walk, history
<1>1. Init => CleanerInv
  BY DEF Init, CleanerInv
<1>2. CleanerInv /\ [Next]_vars => CleanerInv'
  <2> SUFFICES ASSUME CleanerInv, [Next]_vars PROVE CleanerInv'
    OBVIOUS
  <2>1. CASE BuildStartsOrEnds
    BY <2>1 DEF CleanerInv, BuildStartsOrEnds
  <2>2. ASSUME NEW f \in Entries, Touches(f) PROVE CleanerInv'
    BY <2>2 DEF CleanerInv, Touches, Entries
  <2>3. ASSUME NEW d \in Entries, MakesDir(d) PROVE CleanerInv'
    BY <2>3 DEF CleanerInv, MakesDir, Entries
  <2>4. ASSUME NEW e \in Entries, Deletes(e) PROVE CleanerInv'
    BY <2>4 DEF CleanerInv, Deletes
  <2>5. ASSUME NEW f \in Files, Ages(f) PROVE CleanerInv'
    BY <2>5 DEF CleanerInv, Ages
  <2>6. CASE Ticks \/ StartsPass \/ EndsPass
    BY <2>6 DEF CleanerInv, Ticks, StartsPass, EndsPass
  <2>7. CASE StartsLocation
    BY <2>7 DEF CleanerInv, StartsLocation
  <2>8. CASE DryRunEnds
    BY <2>8 DEF CleanerInv, DryRunEnds
  <2>9. CASE RealRunEnds \/ EndsLocation
    BY <2>9 DEF CleanerInv, RealRunEnds, EndsLocation
  <2>10. ASSUME NEW e \in Entries, VisitsMissing(e) PROVE CleanerInv'
    BY <2>10 DEF CleanerInv, VisitsMissing, Visits
  <2>11. ASSUME NEW d \in Entries, VisitsDir(d) PROVE CleanerInv'
    BY <2>11 DEF CleanerInv, VisitsDir, Visits
  <2>12. ASSUME NEW f \in Entries, VisitsFile(f) PROVE CleanerInv'
    BY <2>12 DEF CleanerInv, VisitsFile, Visits, Removable
  <2>13. CASE Removes \/ RemoveFails
    BY <2>13 DEF CleanerInv, Removes, RemoveFails
  <2>14. ASSUME NEW d \in Entries, Sweeps(d) PROVE CleanerInv'
    BY <2>14 DEF CleanerInv, Sweeps
  <2>15. CASE UNCHANGED vars
    BY <2>15 DEF CleanerInv, vars
  <2> QED
    BY <2>1, <2>2, <2>3, <2>4, <2>5, <2>6, <2>7, <2>8, <2>9, <2>10, <2>11, <2>12, <2>13,
       <2>14, <2>15 DEF Next, BuildStep, CleanerStep
<1> QED
  BY <1>1, <1>2, PTL DEF Spec

-----------------------------------------------------------------------------
(* All that the cleaner takes in a step is its victim or a directory.      *)
LEMMA WhatIsLost ==
    ASSUME CleanerInv, [Next]_vars
    PROVE  Lost \subseteq {victim} \cup Dirs
<1> USE Tree DEF Lost, walk, history
<1>1. CASE Removes \/ RemoveFails
  BY <1>1 DEF Removes, RemoveFails, CleanerInv
<1>2. ASSUME NEW d \in Entries, Sweeps(d) PROVE Lost \subseteq {victim} \cup Dirs
  BY <1>2 DEF Sweeps, CleanerInv
<1>3. CASE UNCHANGED <<victim, empty>>
  BY <1>3
<1>4. ASSUME NEW d \in Entries, VisitsDir(d) PROVE Lost = {}
  BY <1>4 DEF VisitsDir, Visits
<1>5. ASSUME NEW f \in Entries, VisitsFile(f) PROVE Lost = {}
  BY <1>5 DEF VisitsFile, Visits
<1>6. CASE StartsLocation
  BY <1>6 DEF StartsLocation
<1>7. ASSUME NEW e \in Entries, Touches(e) \/ MakesDir(e) \/ Deletes(e) \/ VisitsMissing(e)
      PROVE  Lost = {}
  BY <1>7 DEF Touches, MakesDir, Deletes, VisitsMissing
<1>8. ASSUME NEW f \in Files, Ages(f) PROVE Lost = {}
  BY <1>8 DEF Ages
<1>9. CASE BuildStartsOrEnds \/ Ticks \/ StartsPass \/ EndsPass
  BY <1>3, <1>9 DEF BuildStartsOrEnds, Ticks, StartsPass, EndsPass
<1>10. CASE DryRunEnds \/ RealRunEnds \/ EndsLocation \/ UNCHANGED vars
  BY <1>3, <1>10 DEF DryRunEnds, RealRunEnds, EndsLocation, vars
<1> QED
  BY <1>1, <1>2, <1>4, <1>5, <1>6, <1>7, <1>8, <1>9, <1>10 DEF Next, BuildStep, CleanerStep

(* Excluded files stay, in every tree and however builds interfere         *)
(* (config.go:262, cleanup.go:198-207).                                    *)
THEOREM ExcludedFilesStay == Spec => ExcludedStay
<1>1. CleanerInv /\ [Next]_vars => Lost \cap Excluded = {}
  <2> SUFFICES ASSUME CleanerInv, [Next]_vars PROVE Lost \cap Excluded = {}
    OBVIOUS
  <2>1. victim \notin Excluded
    BY Tree DEF CleanerInv
  <2> QED
    BY <2>1, WhatIsLost, Tree
<1> QED
  BY <1>1, CleanerInductive, PTL DEF Spec, ExcludedStay

(* No file is taken that was fresh when its location was reached and was   *)
(* not touched since; one that was touched had been expired when it was    *)
(* looked at (cleanup.go:170-181, 197-212).                                *)
THEOREM OnlyExpiredFilesGo == Spec => RemovesOnlyExpired
<1>1. CleanerInv /\ [Next]_vars => Lost \cap Files \subseteq expired \cup touched
  <2> SUFFICES ASSUME CleanerInv, [Next]_vars
               PROVE  Lost \cap Files \subseteq expired \cup touched
    OBVIOUS
  <2>1. victim = None \/ victim \in expired \cup touched
    BY DEF CleanerInv
  <2> QED
    BY <2>1, WhatIsLost, Tree
<1> QED
  BY <1>1, CleanerInductive, PTL DEF Spec, RemovesOnlyExpired

-----------------------------------------------------------------------------
(* What is in an entry: the least set that holds the entry and what is     *)
(* below its members. The lemmas are inductions; each chooses such a set.  *)

(* What is in e is in every such set that holds e.                         *)
LEMMA InsideIsLeast ==
    ASSUME NEW e \in Entries, NEW x \in Inside[e], NEW S \in SUBSET Entries,
           e \in S, \A d \in S : Below(d) \subseteq S
    PROVE  x \in S
BY DEF Inside

(* An entry is in itself.                                                  *)
LEMMA InsideItself == \A e \in Entries : e \in Inside[e] /\ Inside[e] \subseteq Entries
BY DEF Inside

(* What is directly below something in e is in e.                          *)
LEMMA InsideBelow ==
    ASSUME NEW e \in Entries, NEW d \in Inside[e], NEW x \in Below(d)
    PROVE  x \in Inside[e]
<1> SUFFICES ASSUME NEW S \in SUBSET Entries, e \in S, \A y \in S : Below(y) \subseteq S
             PROVE  x \in S
    BY DEF Inside, Below
<1>1. d \in S
      BY InsideIsLeast
<1> QED BY <1>1

(* What is in a directory is the directory itself, or in something directly*)
(* below it.                                                               *)
LEMMA InsideDirectory ==
    ASSUME NEW e \in Entries, NEW x \in Inside[e], x # e
    PROVE  \E c \in Below(e) : x \in Inside[c]
<1> DEFINE S == {e} \cup {y \in Entries : \E c \in Below(e) : y \in Inside[c]}
<1>1. S \subseteq Entries /\ e \in S
      OBVIOUS
<1>2. ASSUME NEW d \in S PROVE Below(d) \subseteq S
  <2> SUFFICES ASSUME NEW y \in Below(d) PROVE y \in S
      OBVIOUS
  <2>0. y \in Entries /\ Below(e) \subseteq Entries
        BY DEF Below
  <2>1. CASE d = e
        BY <2>0, <2>1, InsideItself
  <2>2. CASE d # e
    <3>1. PICK c \in Below(e) : d \in Inside[c]
          BY <2>2
    <3>2. y \in Inside[c]
          BY <2>0, <3>1, InsideBelow
    <3> QED BY <2>0, <3>1, <3>2
  <2> QED BY <2>1, <2>2
<1> HIDE DEF S
<1>3. x \in S
      BY <1>1, <1>2, InsideIsLeast
<1> QED BY <1>3 DEF S

(* A file holds nothing but itself.                                        *)
LEMMA InsideFile == \A f \in Files : Inside[f] \subseteq {f}
<1> SUFFICES ASSUME NEW f \in Files, NEW x \in Inside[f] PROVE x = f
    OBVIOUS
<1>1. Below(f) = {} /\ f \in Entries
      BY Tree DEF Below, Entries
<1> QED BY <1>1, InsideDirectory

(* Where something is, all that it is in is there as well.                 *)
LEMMA InsideOfPresent ==
    ASSUME TypeOK, NEW e \in Entries, NEW x \in Inside[e], x \in present
    PROVE  e \in present
<1> DEFINE S == {y \in Entries : y \in present => e \in present}
<1>1. S \in SUBSET Entries /\ e \in S
      OBVIOUS
<1>2. ASSUME NEW d \in S PROVE Below(d) \subseteq S
      BY DEF TypeOK, Below
<1> HIDE DEF S
<1>3. x \in S
      BY <1>1, <1>2, InsideIsLeast
<1> QED BY <1>3 DEF S

-----------------------------------------------------------------------------
(* What the walks of TTLPerLocation know of a location.                    *)

(* A file that the location may be cleaned with. *)
Passed(f) == f \in (expired \ Excluded) \cup touched

(* As long as the dry run has seen nothing that stays, every file of the   *)
(* location may go or is in something that the dry run has still to visit; *)
(* when the location is cleaned, every one of them may go.                 *)
WalkInv ==
    mode = "TTLPerLocation" /\ ~aborted =>
        /\ pc = "dry" /\ ~kept =>
              \A f \in FilesOf(Location) : Passed(f) \/ \E p \in pending : f \in Inside[p]
        /\ pc \in {"real", "sweeping"} => \A f \in FilesOf(Location) : Passed(f)

(* A step that neither moves the walk nor makes files, except by touching  *)
(* them, keeps what it knows.                                              *)
LEMMA WalkKept ==
    ASSUME WalkInv, UNCHANGED <<mode, pc, rest, kept, aborted>>, pending \subseteq pending',
           \A f \in Files \cap present' :
              Passed(f)' \/ (f \in present /\ (Passed(f) => Passed(f)'))
    PROVE  WalkInv'
<1>1. Location' = Location
      BY DEF Location
<1>2. \A f \in FilesOf(Location)' :
         Passed(f)' \/ (f \in FilesOf(Location) /\ (Passed(f) => Passed(f)'))
      BY <1>1 DEF FilesOf
<1> QED BY <1>2 DEF WalkInv

(* Builds touch, make and delete what they like: what they touch passes.   *)
LEMMA BuildsKeepWalk ==
    ASSUME TypeOK, WalkInv, BuildStartsOrEnds \/ BuildStep \/ \E f \in Files : Ages(f)
    PROVE  WalkInv'
<1> USE Tree DEF Passed, walk, history
<1>1. CASE BuildStartsOrEnds
  BY <1>1, WalkKept DEF BuildStartsOrEnds
<1>2. ASSUME NEW f \in Entries, Touches(f) PROVE WalkInv'
  BY <1>2, WalkKept DEF Touches
<1>3. ASSUME NEW d \in Entries, MakesDir(d) PROVE WalkInv'
  BY <1>3, WalkKept DEF MakesDir
<1>4. ASSUME NEW e \in Entries, Deletes(e) PROVE WalkInv'
  BY <1>4, WalkKept DEF Deletes
<1>5. ASSUME NEW f \in Files, Ages(f) PROVE WalkInv'
  BY <1>5, WalkKept DEF Ages
<1> QED BY <1>1, <1>2, <1>3, <1>4, <1>5 DEF BuildStep

(* The dry run visits a directory: what is in it is now in something below *)
(* it, which is there and so will be visited.                              *)
LEMMA DirKeepsWalk ==
    ASSUME TypeOK, WalkInv, NEW d \in Entries, VisitsDir(d) PROVE WalkInv'
<1>1. /\ UNCHANGED <<present, mode, pc, rest, expired, kept, touched, aborted>>
      /\ pending' = (pending \ {d}) \cup (Below(d) \cap present)
      /\ d \in Dirs \cap present
      BY DEF VisitsDir, history
<1>2. Location' = Location /\ FilesOf(Location)' = FilesOf(Location)
      BY <1>1 DEF Location, FilesOf
<1>3. \A f : Passed(f)' = Passed(f)
      BY <1>1 DEF Passed
<1>4. ASSUME NEW f \in FilesOf(Location), NEW p \in pending, f \in Inside[p]
      PROVE  \E q \in pending' : f \in Inside[q]
  <2>1. CASE p # d
        BY <1>1, <1>4, <2>1
  <2>2. CASE p = d
    <3>1. f # d /\ f \in present
          BY <1>1, Tree DEF FilesOf
    <3>2. PICK c \in Below(d) : f \in Inside[c]
          BY <1>4, <2>2, <3>1, InsideDirectory
    <3>3. c \in present
          BY <3>1, <3>2, InsideOfPresent DEF Below
    <3> QED BY <1>1, <3>2, <3>3
  <2> QED BY <2>1, <2>2
<1> QED BY <1>1, <1>2, <1>3, <1>4 DEF WalkInv

(* The dry run visits a file: it may go, or the location is kept.          *)
LEMMA FileKeepsWalk ==
    ASSUME TypeOK, WalkInv, NEW e \in Entries, VisitsFile(e) PROVE WalkInv'
<1>1. /\ UNCHANGED <<present, mode, pc, rest, expired, touched, aborted>>
      /\ pending' = pending \ {e}
      /\ e \in Files
      /\ kept' = (kept \/ ~Removable(e))
      BY DEF VisitsFile, history
<1>2. Location' = Location /\ FilesOf(Location)' = FilesOf(Location)
      BY <1>1 DEF Location, FilesOf
<1>3. \A f : Passed(f)' = Passed(f)
      BY <1>1 DEF Passed
<1>4. ASSUME ~kept', NEW f \in FilesOf(Location), NEW p \in pending, f \in Inside[p]
      PROVE  Passed(f) \/ \E q \in pending' : f \in Inside[q]
  <2>1. CASE p # e
        BY <1>1, <1>4, <2>1
  <2>2. CASE p = e
    <3>1. f = e
          BY <1>1, <1>4, <2>2, InsideFile
    <3>2. Removable(e)
          BY <1>1, <1>4
    <3> QED BY <3>1, <3>2 DEF Passed, Removable
  <2> QED BY <2>1, <2>2
<1>5. ~kept' => ~kept
      BY <1>1
<1> QED BY <1>1, <1>2, <1>3, <1>4, <1>5 DEF WalkInv

(* The other steps of the cleaner: the first walk begins with everything   *)
(* to visit, the second only when nothing is left to visit and nothing was *)
(* seen that stays, and a dry run that met an error promises nothing.      *)
LEMMA CleanerKeepsWalk ==
    ASSUME TypeOK, WalkInv, CleanerStep PROVE WalkInv'
<1> USE Tree DEF walk, history
<1>1. CASE Ticks \/ StartsPass \/ EndsPass \/ EndsLocation
  <2>1. pc' \notin {"dry", "real", "sweeping"}
        BY <1>1 DEF Ticks, StartsPass, EndsPass, EndsLocation
  <2> QED BY <2>1 DEF WalkInv
<1>2. CASE StartsLocation
  <2>1. /\ UNCHANGED <<mode, rest>> /\ pending' = {Location}
        /\ pc' = IF mode = "TTLPerLocation" THEN "dry" ELSE "real"
        BY <1>2 DEF StartsLocation
  <2>2. Location' = Location
        BY <2>1 DEF Location
  <2> QED BY <2>1, <2>2 DEF WalkInv, FilesOf
<1>3. CASE DryRunEnds \/ RealRunEnds
  <2>1. /\ UNCHANGED <<present, mode, expired, touched, aborted>>
        /\ \/ pc' = "ticking"
           \/ /\ pc = "dry" /\ pc' = "real" /\ pending = {} /\ ~kept /\ rest' = rest
           \/ pc = "real" /\ pc' = "sweeping" /\ rest' = rest
        BY <1>3 DEF DryRunEnds, RealRunEnds
  <2>2. rest' = rest => FilesOf(Location)' = FilesOf(Location)
        BY <2>1 DEF Location, FilesOf
  <2>3. \A f : Passed(f)' = Passed(f)
        BY <2>1 DEF Passed
  <2> QED BY <2>1, <2>2, <2>3 DEF WalkInv
<1>4. ASSUME NEW e \in Entries, VisitsMissing(e) PROVE WalkInv'
  <2>1. /\ UNCHANGED <<present, mode, pc, rest, expired, kept, touched>>
        /\ aborted' = (aborted \/ pc = "dry")
        BY <1>4 DEF VisitsMissing
  <2>2. FilesOf(Location)' = FilesOf(Location) /\ \A f : Passed(f)' = Passed(f)
        BY <2>1 DEF Location, FilesOf, Passed
  <2> QED BY <2>1, <2>2 DEF WalkInv
<1>5. CASE Removes \/ RemoveFails
  BY <1>5, WalkKept DEF Removes, RemoveFails, Passed
<1>6. ASSUME NEW d \in Entries, Sweeps(d) PROVE WalkInv'
  BY <1>6, WalkKept DEF Sweeps, Passed
<1> QED BY <1>1, <1>2, <1>3, <1>4, <1>5, <1>6, DirKeepsWalk, FileKeepsWalk DEF CleanerStep

(* In every reachable state the walks know what WalkInv says.              *)
LEMMA WalkInductive == Spec => []WalkInv
<1>1. Init => WalkInv
  BY DEF Init, WalkInv
<1>2. TypeOK /\ WalkInv /\ [Next]_vars => WalkInv'
  <2> SUFFICES ASSUME TypeOK, WalkInv, [Next]_vars PROVE WalkInv'
    OBVIOUS
  <2>1. CASE UNCHANGED vars
    BY <2>1, WalkKept DEF vars, walk, history, Passed
  <2> QED BY <2>1, BuildsKeepWalk, CleanerKeepsWalk DEF Next
<1> QED BY <1>1, <1>2, TypeCorrect, PTL DEF Spec

(* With TTLPerLocation a file is taken only when no file of the location   *)
(* is fresh or excluded, whatever tree the location is and however builds  *)
(* work in it during both walks: but for files touched since, and unless an*)
(* error cut the dry run short (cleanup.go:156-167, config.go:260).        *)
THEOREM WholeLocationsAreCleaned == Spec => CleansWholeLocation
<1> DEFINE Whole == mode = "TTLPerLocation" /\ ~aborted /\ Lost \cap Files # {}
                       => FilesOf(Location) \subseteq (expired \ Excluded) \cup touched
<1>1. CleanerInv /\ WalkInv /\ [Next]_vars => Whole
  <2> SUFFICES ASSUME CleanerInv, WalkInv, [Next]_vars,
                      mode = "TTLPerLocation", ~aborted, Lost \cap Files # {}
               PROVE  FilesOf(Location) \subseteq (expired \ Excluded) \cup touched
    OBVIOUS
  <2>1. victim \in Files
    BY WhatIsLost, Tree
  <2>2. pc = "real"
    BY <2>1, Tree DEF CleanerInv
  <2> QED BY <2>2 DEF WalkInv, Passed
<1> QED BY <1>1, CleanerInductive, WalkInductive, PTL DEF Spec, CleansWholeLocation
=============================================================================
