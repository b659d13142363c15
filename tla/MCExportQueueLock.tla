-------------------------- MODULE MCExportQueueLock --------------------------
(* Instances of ExportQueueLock for TLC.                                   *)
EXTENDS ExportQueueLock

=============================================================================
