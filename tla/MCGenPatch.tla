----------------------------- MODULE MCGenPatch -----------------------------
(* Two clients inside the loop, foreign and metadata-only writers.          *)
EXTENDS GenPatch
=============================================================================
