---------------------------- MODULE MCSystemTask ----------------------------
(* Instances of SystemTask for TLC: two or three runners.                  *)
EXTENDS SystemTask

CONSTANTS n1, n2, n3
=============================================================================
