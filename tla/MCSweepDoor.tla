---------------------------- MODULE MCSweepDoor ----------------------------
(* Small instances of SweepDoor.                                           *)
EXTENDS SweepDoor

EveryOutcome == {"ok", "refused", "errored"}
OnlyOk == {"ok"}
=============================================================================
