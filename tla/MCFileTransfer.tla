--------------------------- MODULE MCFileTransfer ---------------------------
(* Small instances of file transfer for TLC.                               *)
EXTENDS FileTransfer

\* Two uploads of two blocks to the same file.
MCSize == [r \in Uploads |-> 2]
MCTarget == [r \in Uploads |-> "f"]

\* A download of the file over S-band, and its first block over CSP.
MCBursts == {[file |-> "f", skip |-> 0, count |-> 3, sband |-> TRUE],
             [file |-> "f", skip |-> 0, count |-> 1, sband |-> FALSE]}
=============================================================================
