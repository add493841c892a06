-------------------------- MODULE MCNorthernVoices --------------------------
(* A small instance of the Northern Voices transmitter for TLC.            *)
EXTENDS NorthernVoices
=============================================================================
