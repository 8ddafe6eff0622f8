---------------------------- MODULE MCEventPath ----------------------------
(* EventPath with the events of MCEventForwarder.                            *)
EXTENDS EventPath, MCEventForwarder
=============================================================================
