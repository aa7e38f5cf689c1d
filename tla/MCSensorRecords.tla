---------------------------- MODULE MCSensorRecords ----------------------------
(* TLC instance of SensorRecords. *)
EXTENDS SensorRecords
=============================================================================
