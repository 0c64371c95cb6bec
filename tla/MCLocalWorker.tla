--------------------------- MODULE MCLocalWorker ---------------------------
(* Small instances of LocalWorker for TLC. *)
EXTENDS LocalWorker

\* Bounds never stop a deployment for want of a runtime record.
RuntimesSuffice == refresh = "start" => \E r \in Runtimes : Unused(r)
=============================================================================
