------------------------ MODULE MCSyncOnDiskEventBroker ------------------------
(***************************************************************************)
(* Small instances of SyncOnDiskEventBroker for TLC.                       *)
(***************************************************************************)
EXTENDS SyncOnDiskEventBroker, TLC

CONSTANTS a, b

Two == {a, b}
A   == {a}
=============================================================================
