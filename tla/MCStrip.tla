------------------------------ MODULE MCStrip -------------------------------
(***************************************************************************)
(* Two surface ids on strips of up to four surfaces, so that duplicates    *)
(* occur; viewports of 3 and 6, whose default widths are 1 and 2; explicit *)
(* widths 1 and 5, narrower and wider than a viewport.  The two ids are    *)
(* interchangeable and no liveness is checked: the symmetry is sound.      *)
(***************************************************************************)
EXTENDS Strip, TLC

CONSTANTS a, b

MCIds == {a, b}
MCWidths == {0, 1, 5}
MCViewports == {3, 6}
MCDeltas == {-2, 1, 4}
MCPoints == {0, 2, 5}

MCSymmetry == Permutations(MCIds)
=============================================================================
