--------------------------- MODULE MCSystemTasks ---------------------------
(* Two runners of one task type and two rows, for TLC.                      *)
EXTENDS SystemTasks
============================================================================
