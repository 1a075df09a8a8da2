---------------------------- MODULE Segmentation ----------------------------
(***************************************************************************)
(* How a file is cut into segments.  Both programs compute the number of   *)
(* segments from the file length (GetSegmentCount, once in server.c and    *)
(* once in client.c); the server also fills a table with the number of     *)
(* bytes that each segment carries (InitializeFileSegmentInfo), while the  *)
(* client recomputes it segment by segment in ConsumerThread.              *)
(***************************************************************************)
EXTENDS Integers

CONSTANTS
  FileLength,      \* length of the requested file, in bytes
  SegmentDataSize  \* SEGMENTDATASIZE, the data bytes of a datagram

ASSUME SizeAssumption ==
  /\ FileLength \in Nat
  /\ SegmentDataSize \in Nat \ {0}

(* GetSegmentCount: whole segments, and one more for a remainder. *)
GetSegmentCount(fileLength) ==
  fileLength \div SegmentDataSize
    + (IF fileLength % SegmentDataSize # 0 THEN 1 ELSE 0)

(* totalNumSegments, the same value in the server child and in the client. *)
SegmentCount == GetSegmentCount(FileLength)

(* The numbers of the segments that the file really has. *)
FileSegments == 0 .. SegmentCount - 1

(* fileSegment[i].totalBytesInSegment: the last segment always gets the    *)
(* remainder, also when the remainder is zero.                             *)
TotalBytesInSegment(i) ==
  IF i = SegmentCount - 1 THEN FileLength % SegmentDataSize ELSE SegmentDataSize

(* What a correct cut would give segment i; the reference for the others.  *)
BytesOfFileIn(i) ==
  IF (i + 1) * SegmentDataSize <= FileLength
  THEN SegmentDataSize
  ELSE FileLength - i * SegmentDataSize
=============================================================================
