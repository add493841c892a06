------------------------------ MODULE MCLogger ------------------------------
(* A small instance of the system log for TLC.                             *)
EXTENDS Logger
=============================================================================
