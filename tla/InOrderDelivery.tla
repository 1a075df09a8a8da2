--------------------------- MODULE InOrderDelivery ---------------------------
(***************************************************************************)
(* What the transfer promises to the reader of the received file: the      *)
(* segments of the file appear in it one after the other, each once, none  *)
(* skipped, none invented, each with the bytes that the segment holds.     *)
(***************************************************************************)
EXTENDS Segmentation, Sequences

VARIABLE written  \* what has been written so far, a sequence of records

Init == written = << >>

(* The only step: the next segment of the file is appended. *)
WriteNext ==
  /\ Len(written) < SegmentCount
  /\ written' = Append(written, [segment |-> Len(written),
                                 bytes |-> TotalBytesInSegment(Len(written))])

Spec == Init /\ [][WriteNext]_written

(* Every segment has been written. *)
Complete == Len(written) = SegmentCount
=============================================================================
