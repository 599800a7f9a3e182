---------------------------- MODULE MCPlayground ----------------------------
(* Playground with its bounds; the values are in the cfg files. *)
EXTENDS Playground
=============================================================================
