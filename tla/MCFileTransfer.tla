--------------------------- MODULE MCFileTransfer ---------------------------
(***************************************************************************)
(* Values for the constants of FileTransfer that a configuration cannot    *)
(* write.                                                                  *)
(***************************************************************************)
EXTENDS FileTransfer

(* The child may run past the end of the file by a window, and the client  *)
(* ask for what follows.                                                   *)
MCRequests == 0 .. SegmentCount + WindowSize
=============================================================================
