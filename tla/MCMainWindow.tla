---------------------------- MODULE MCMainWindow ----------------------------
(***************************************************************************)
(* Bounds for MainWindow: two monitors, and a few choices, rescans and     *)
(* moves of the window.                                                    *)
(***************************************************************************)
EXTENDS MainWindow, TLC

Symmetry == Permutations(Devices)
=============================================================================
