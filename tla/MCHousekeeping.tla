--------------------------- MODULE MCHousekeeping ---------------------------
(* Small instances of the housekeeping records for TLC.                    *)
EXTENDS Housekeeping

Ask(n, i, t) == [op |-> "get", limit |-> n, id |-> i, time |-> t]

\* The newest records, those before a slot, those before a time.
MCPages == {Ask(2, 0, 0), Ask(1, 3, 0), Ask(2, 0, 4)}
=============================================================================
