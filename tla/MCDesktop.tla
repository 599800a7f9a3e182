----------------------------- MODULE MCDesktop -----------------------------
(* Desktop with its bounds; the values are in the cfg files. *)
EXTENDS Desktop
=============================================================================
