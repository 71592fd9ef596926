--------------------------- MODULE MCWallpaperRun ---------------------------
(* Instances of WallpaperRun for TLC. *)
EXTENDS WallpaperRun, TLC

\* An art row and the spacer nested below it; two rows side by side.
Nested == <<0, 1>>
Flat   == <<0, 0>>
Single == <<0>>

Symmetry == Permutations(Attempt)
=============================================================================
