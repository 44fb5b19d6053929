---------------------------- MODULE MCSyncOnDisk ----------------------------
(***************************************************************************)
(* Small instances of SyncOnDisk for TLC.                                  *)
(***************************************************************************)
EXTENDS SyncOnDisk, TLC

CONSTANTS a, b

Two == {a, b}
A   == {a}
B   == {b}
=============================================================================
