----------------------------- MODULE MCDataSync -----------------------------
(* Every ingress reads all sources.                                        *)
EXTENDS DataSync, TLC

AllSources == [n \in Ingress |-> Source]
=============================================================================
