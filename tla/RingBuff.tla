------------------------------ MODULE RingBuff ------------------------------
(***************************************************************************)
(* The index arithmetic of common/ring_buff.h.  A ring of `size' slots is  *)
(* described by a head (next slot to write) and a tail (next slot to       *)
(* read), both below size; one slot is always left unused, so that         *)
(* head = tail means empty.                                                *)
(*                                                                         *)
(* The C functions compute on `unsigned'.  CdcOutProofs shows that on      *)
(* legal indices no subtraction goes below zero, which is why plain        *)
(* integers are enough here.                                               *)
(***************************************************************************)
EXTENDS Integers

(* A slip: the index one past the end is not wrapped. *)
ring_wrap_late(size, idx) == IF idx > size THEN idx - size ELSE idx

ring_wrap(size, idx) == IF idx >= size THEN idx - size ELSE idx

ring_data_avail(size, head, tail) ==
  IF head >= tail THEN head - tail ELSE size + head - tail

ring_space_avail(size, head, tail) ==
  size - ring_data_avail(size, head, tail) - 1

ring_data_contig(size, head, tail) ==
  IF head >= tail THEN head - tail ELSE size - tail

(* A slip: no slot is left unused. *)
ring_space_contig_full(size, head, tail) ==
  IF head >= tail THEN size - head ELSE tail - head

ring_space_contig(size, head, tail) ==
  IF head >= tail
  THEN (IF tail # 0 THEN size ELSE size - 1) - head
  ELSE tail - head - 1

(* Space that becomes available at index 0 if the head is wrapped early.   *)
ring_space_wrapped(size, head, tail) ==
  IF head < tail \/ tail = 0 THEN 0 ELSE tail - 1

(* MIN_ of common/min_max.h. *)
MIN_(a, b) == IF a < b THEN a ELSE b

-----------------------------------------------------------------------------
(* Legal indices of a ring, and the slot of its j-th unread byte.          *)
RingOK(size, head, tail) ==
  /\ size \in Nat \ {0}
  /\ head \in 0 .. size - 1
  /\ tail \in 0 .. size - 1

RingSlot(size, tail, j) == ring_wrap(size, tail + j)

(* The slots that hold unread bytes, defined without the functions above.  *)
Occupied(size, head, tail) ==
  IF head >= tail THEN tail .. head - 1
                  ELSE (tail .. size - 1) \cup (0 .. head - 1)
=============================================================================
