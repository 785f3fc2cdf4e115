------------------------------- MODULE TiRing -------------------------------
(***************************************************************************)
(* The ring of TivaWare (USBRingBuf...), which is not in the repository:   *)
(* what usbbuffer.c relies on.  One slot is left unused, the indices are   *)
(* moved with interrupts off, and reading or writing n bytes moves its     *)
(* index byte by byte.                                                     *)
(***************************************************************************)
EXTENDS RingBuff

USBRingBufUsed(size, wr, rd)       == ring_data_avail(size, wr, rd)
USBRingBufFree(size, wr, rd)       == ring_space_avail(size, wr, rd)
USBRingBufContigFree(size, wr, rd) == ring_space_contig(size, wr, rd)

(* A slip: the reader may be sent past the writer. *)
AdvanceReadBlindly(size, wr, rd, n) == ring_wrap(size, rd + n)

(* The read index after n bytes are dropped, or all there are if fewer.    *)
USBRingBufAdvanceRead(size, wr, rd, n) ==
  ring_wrap(size, rd + MIN_(n, USBRingBufUsed(size, wr, rd)))
=============================================================================
