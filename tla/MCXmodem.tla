------------------------------ MODULE MCXmodem ------------------------------
(* A small instance of the XMODEM transfers for TLC.                       *)
EXTENDS Xmodem
=============================================================================
