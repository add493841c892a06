---------------------------- MODULE MCBootEeprom ----------------------------
(* A small instance of the boot information for TLC.                       *)
EXTENDS BootEeprom
=============================================================================
