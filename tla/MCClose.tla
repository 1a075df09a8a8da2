------------------------------ MODULE MCClose ------------------------------
(***************************************************************************)
(* Values for the constants of Close that a configuration cannot write.    *)
(***************************************************************************)
EXTENDS TimedClose

(* The acknowledgement of a repeated segment, on its way when the final one*)
(* was read, and a segment that the timer of the server sent once more.    *)
MCLateAcks == {[currentRequest |-> 1, advtWindow |-> 1, lastack_sent |-> 1]}
MCLateSegments == {DataSegment(0)}
=============================================================================
