----------------------------- MODULE MCDisplay -----------------------------
(* Instances of Display for TLC, with the symmetry of those of             *)
(* WindowManager.                                                           *)
EXTENDS Display, MCWindowManager

=============================================================================
