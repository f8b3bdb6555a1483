--------------------------- MODULE MCLocationCleaner ---------------------------
(* The tree for TLC: location "a" with a file and a subdirectory, which    *)
(* holds a file, and location "b" with a file.                             *)
EXTENDS LocationCleaner

SmallFiles     == {"a/f", "a/d/g", "b/h"}
SmallDirs      == {"a", "a/d", "b"}
TwoLocations   == <<"a", "b">>
SmallParent    == [e \in (SmallFiles \cup SmallDirs) \ {"a", "b"} |->
                      CASE e = "a/d/g" -> "a/d" [] e = "b/h" -> "b" [] OTHER -> "a"]
OneExcluded    == {"a/d/g"}
=============================================================================
