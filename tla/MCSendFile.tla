----------------------------- MODULE MCSendFile -----------------------------
(***************************************************************************)
(* Values for the constants of SendFile that a configuration cannot write. *)
(***************************************************************************)
EXTENDS SendFile

(* What is left on the stack before the first acknowledgement is read: a   *)
(* segment of the file, or the number of one past its end; no window, or   *)
(* one larger than the client's; the mark of the last acknowledgement or   *)
(* none.                                                                   *)
MCStackAcks ==
  {[currentRequest |-> 0, advtWindow |-> LargestWindow, lastack_sent |-> 0],
   [currentRequest |-> SegmentCount, advtWindow |-> 0, lastack_sent |-> 1]}

(* A segment of the file, and what a FIN asks for: no segment of the file. *)
MCRequests == {SegmentCount - 1, FIN_REQUEST}
=============================================================================
