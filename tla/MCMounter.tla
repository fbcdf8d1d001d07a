----------------------------- MODULE MCMounter ------------------------------
(* The two modes of mount.py, and what users do in an instance.            *)
EXTENDS Mounter

Strict == {"status"}
StrictFromChild == {"intent"}
Permissive == {}

CopyWrites == {"copyIntent"}
Writes == {"childWrite", "copyIntent", "toggle"}
All == Writes \cup {"copyStatus", "mount", "delete", "restart"}
=============================================================================
