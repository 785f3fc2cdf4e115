---------------------------- MODULE CdcOutProofs ----------------------------
(***************************************************************************)
(* What the functions of common/ring_buff.h compute, for every ring size   *)
(* and every pair of legal indices; and that OutInv is preserved by every  *)
(* interrupt handler of the OUT pipe and by VCP_MarkRead, for every buffer *)
(* size and packet size.  The modules that add a main loop build on these  *)
(* lemmas: CdcRxProofs and CdcEchoProofs.                                  *)
(***************************************************************************)
EXTENDS CdcOut, TLAPS


(* On legal indices every function returns a natural number, so none of    *)
(* the unsigned subtractions of ring_buff.h wraps around; the data and the *)
(* free space together are all slots but one.                              *)
THEOREM NoUnderflow ==
  ASSUME NEW size, NEW head, NEW tail, RingOK(size, head, tail)
  PROVE  /\ ring_data_avail(size, head, tail) \in 0 .. size - 1
         /\ ring_space_avail(size, head, tail) \in 0 .. size - 1
         /\ ring_data_contig(size, head, tail) \in 0 .. ring_data_avail(size, head, tail)
         /\ ring_space_contig(size, head, tail) \in 0 .. ring_space_avail(size, head, tail)
         /\ ring_space_wrapped(size, head, tail) \in 0 .. size - 1
         /\ ring_data_avail(size, head, tail) + ring_space_avail(size, head, tail) = size - 1
BY DEF RingOK, ring_data_avail, ring_space_avail, ring_data_contig,
       ring_space_contig, ring_space_wrapped

(* The unread bytes sit in exactly the occupied slots.                     *)
THEOREM SlotsAreOccupied ==
  ASSUME NEW size, NEW head, NEW tail, RingOK(size, head, tail)
  PROVE  Occupied(size, head, tail) =
           {RingSlot(size, tail, j) : j \in 0 .. ring_data_avail(size, head, tail) - 1}
<1> DEFINE Slots == {RingSlot(size, tail, j) : j \in 0 .. ring_data_avail(size, head, tail) - 1}
<1>1. ASSUME NEW s \in Slots
      PROVE  s \in Occupied(size, head, tail)
  BY DEF RingOK, Occupied, RingSlot, ring_wrap, ring_data_avail
<1>2. ASSUME NEW s \in Occupied(size, head, tail)
      PROVE  s \in Slots
  <2> DEFINE j == IF s >= tail THEN s - tail ELSE s + size - tail
  <2>1. /\ j \in 0 .. ring_data_avail(size, head, tail) - 1
        /\ s = RingSlot(size, tail, j)
    BY DEF RingOK, Occupied, RingSlot, ring_wrap, ring_data_avail
  <2> QED
    BY <2>1
<1> QED
  BY <1>1, <1>2

(* Writing up to ring_space_contig bytes at the head stays inside the      *)
(* buffer, touches no unread byte, and makes exactly these bytes unread;   *)
(* in particular a full ring never looks empty.                            *)
THEOREM PutContigSound ==
  ASSUME NEW size, NEW head, NEW tail, RingOK(size, head, tail),
         NEW n \in 0 .. ring_space_contig(size, head, tail)
  PROVE  /\ head + n <= size
         /\ \A i \in head .. head + n - 1 : i \notin Occupied(size, head, tail)
         /\ RingOK(size, ring_wrap(size, head + n), tail)
         /\ ring_data_avail(size, ring_wrap(size, head + n), tail)
              = ring_data_avail(size, head, tail) + n
BY DEF RingOK, Occupied, ring_wrap, ring_data_avail, ring_space_contig

(* Marking up to ring_data_avail bytes read, possibly past the end of the  *)
(* ring, removes exactly these bytes.                                      *)
THEOREM MarkReadSound ==
  ASSUME NEW size, NEW head, NEW tail, RingOK(size, head, tail),
         NEW n \in 0 .. ring_data_avail(size, head, tail)
  PROVE  /\ RingOK(size, head, ring_wrap(size, tail + n))
         /\ ring_data_avail(size, head, ring_wrap(size, tail + n))
              = ring_data_avail(size, head, tail) - n
BY DEF RingOK, ring_wrap, ring_data_avail

(* Two contiguous writes use all the space there is, and two contiguous    *)
(* reads all the data: the reason VCP_Put and VCP_Get try twice and no     *)
(* more (usbd_cdc_vcp.c:228-242).                                          *)
THEOREM TwoPieces ==
  ASSUME NEW size, NEW head, NEW tail, RingOK(size, head, tail)
  PROVE  LET free  == ring_space_contig(size, head, tail)
             data  == ring_data_contig(size, head, tail)
             head2 == ring_wrap(size, head + free)
             tail2 == ring_wrap(size, tail + data)
         IN /\ free + ring_space_contig(size, head2, tail) = ring_space_avail(size, head, tail)
            /\ data + ring_data_contig(size, head, tail2) = ring_data_avail(size, head, tail)
BY DEF RingOK, ring_wrap, ring_data_avail, ring_space_avail,
       ring_data_contig, ring_space_contig

-----------------------------------------------------------------------------
USE DEF RingOK

(* What a handler may do to the ring, as seen by a main loop that has      *)
(* looked at it before: unread bytes stay where they are and more may      *)
(* follow them.                                                            *)
OutGrows ==
  /\ rx_read' = rx_read
  /\ VCP_DataAvail' >= VCP_DataAvail
  /\ VCP_DataAvailContig' >= VCP_DataAvailContig
  /\ VCP_DataAvail # 0 => rx_tail' = rx_tail
  /\ rx_tail = 0 => rx_tail' = 0
  /\ rx_head < rx_tail => /\ rx_head' < rx_tail'
                          /\ rx_size' = rx_size
  /\ rx_accepted' >= rx_accepted
  /\ rx_accepted' - rx_read <= RX_SIZE - 1

-----------------------------------------------------------------------------
LEMMA OutInitInv == OutInit => OutInv
  BY OutAssumption
  DEF OutInit, OutInv, OutTypeOK, OutRingOK, WindowOK, ActiveOK, OutContent,
      VCP_DataAvail, ring_data_avail

LEMMA AvailType ==
  OutTypeOK /\ OutRingOK => /\ VCP_DataAvail \in 0 .. RX_SIZE - 1
                            /\ VCP_DataAvailContig \in 0 .. VCP_DataAvail
  BY OutAssumption DEF OutTypeOK, OutRingOK, VCP_DataAvail, VCP_DataAvailContig,
     ring_data_avail, ring_data_contig

(* The window is as long as a packet, so what a packet's last word spills  *)
(* stays inside it.                                                        *)
LEMMA SpillInWindow ==
  ASSUME NEW n \in 0 .. OUT_PKT, NEW s \in SpillSlots(n)
  PROVE  \E k \in n .. OUT_PKT - 1 : s = rx_ptr + k
  BY DEF SpillSlots

(* Storing a packet keeps the types, wherever it is stored.                *)
LEMMA RxDataType ==
  ASSUME OutTypeOK, NEW n \in 0 .. OUT_PKT, RxData(n)
  PROVE  OutTypeOK'
<1> USE OutAssumption
<1>1. /\ UNCHANGED <<rx_head, rx_tail, rx_size, rx_active, rx_total, rx_ptr, rx_read>>
      /\ rx_ep' = "full" /\ rx_cnt' = n
  BY DEF RxData, ringVars
<1>2. ASSUME NEW s \in PacketSlots(n)
      PROVE  rx_total + (s - rx_ptr) \in Nat
  BY DEF PacketSlots, OutTypeOK
<1>3. rx_buf' \in [0 .. RX_SIZE - 1 -> Nat \cup {JUNK}]
  BY <1>2 DEF RxData, OutTypeOK
<1> QED
  BY <1>1, <1>3 DEF OutTypeOK

(* A packet stored to the window can be read there, and no unread byte has *)
(* changed.                                                                *)
LEMMA PacketStored ==
  ASSUME OutTypeOK, OutRingOK, WindowOK, NEW n \in 0 .. OUT_PKT, RxData(n)
  PROVE  /\ \A j \in 0 .. n - 1 : rx_buf'[rx_head + j] = rx_total + j
         /\ \A j \in 0 .. VCP_DataAvail - 1 :
              rx_buf'[RingSlot(rx_size, rx_tail, j)] = rx_buf[RingSlot(rx_size, rx_tail, j)]
<1> USE OutAssumption
<1>1. rx_ep = "armed"
  BY DEF RxData
<1>2. /\ rx_ptr = rx_head /\ rx_head + OUT_PKT <= rx_size
      /\ rx_head < rx_tail => rx_head + OUT_PKT < rx_tail
      /\ rx_tail = 0 => rx_head + OUT_PKT < rx_size
  BY <1>1 DEF WindowOK
<1>3. \A s \in SpillSlots(n) : s >= rx_head + n /\ s < rx_head + OUT_PKT
  BY SpillInWindow, <1>2 DEF OutTypeOK, OutRingOK
<1>4. \A s \in PacketSlots(n) : s \in rx_head .. rx_head + n - 1
  BY <1>2 DEF PacketSlots, OutTypeOK
<1>5. \A j \in 0 .. n - 1 : rx_head + j \in PacketSlots(n)
  BY <1>2 DEF PacketSlots
<1>6. rx_buf' = [s \in 0 .. RX_SIZE - 1 |->
                  IF s \in PacketSlots(n) THEN rx_total + (s - rx_head)
                  ELSE IF s \in SpillSlots(n) THEN JUNK ELSE rx_buf[s]]
  BY <1>2 DEF RxData, OutTypeOK
<1>7. ASSUME NEW j \in 0 .. n - 1
      PROVE  rx_buf'[rx_head + j] = rx_total + j
  <2>1. rx_head + j \in 0 .. RX_SIZE - 1
    BY <1>2 DEF OutTypeOK
  <2>2. rx_head + j \in PacketSlots(n)
    BY <1>5
  <2>3. rx_buf'[rx_head + j] = rx_total + ((rx_head + j) - rx_head)
    BY ONLY <2>1, <2>2, <1>6, Zenon
  <2> QED
    BY <2>3 DEF OutTypeOK
<1>8. ASSUME NEW j \in 0 .. VCP_DataAvail - 1
      PROVE  rx_buf'[RingSlot(rx_size, rx_tail, j)] = rx_buf[RingSlot(rx_size, rx_tail, j)]
  <2> DEFINE s == RingSlot(rx_size, rx_tail, j)
  <2>1. /\ s \in 0 .. RX_SIZE - 1
        /\ s < rx_head \/ s >= rx_head + OUT_PKT
    BY <1>2 DEF OutTypeOK, OutRingOK, RingSlot, ring_wrap, VCP_DataAvail, ring_data_avail
  <2> HIDE DEF s
  <2>2. s \notin SpillSlots(n) /\ s \notin PacketSlots(n)
    BY <1>3, <1>4, <2>1 DEF OutTypeOK
  <2>3. rx_buf'[s] = rx_buf[s]
    BY <1>6, <2>1, <2>2
  <2> QED
    BY <2>3 DEF s
<1> QED
  BY <1>7, <1>8

LEMMA RxDataInv ==
  ASSUME OutInv, NEW n \in 0 .. OUT_PKT, RxData(n)
  PROVE  OutInv' /\ OutGrows
<1> USE OutAssumption DEF OutInv
<1>1. /\ UNCHANGED <<rx_head, rx_tail, rx_size, rx_active, rx_total, rx_ptr, rx_read>>
      /\ rx_ep = "armed" /\ rx_ep' = "full" /\ rx_cnt' = n
  BY DEF RxData, ringVars
<1>2. /\ rx_ptr = rx_head /\ rx_head + OUT_PKT <= rx_size
      /\ rx_head < rx_tail => rx_head + OUT_PKT < rx_tail
      /\ rx_tail = 0 => rx_head + OUT_PKT < rx_size
  BY <1>1 DEF WindowOK
<1>4. OutTypeOK'
  BY RxDataType
<1>5. OutRingOK' /\ WindowOK' /\ ActiveOK'
  BY <1>1, <1>2 DEF OutRingOK, WindowOK, ActiveOK
<1>6. VCP_DataAvail' = VCP_DataAvail /\ VCP_DataAvailContig' = VCP_DataAvailContig
  BY <1>1 DEF VCP_DataAvail, VCP_DataAvailContig
<1>7. OutContent'
  BY <1>1, <1>6, PacketStored DEF OutContent
<1>8. /\ rx_accepted' >= rx_accepted
      /\ rx_accepted' - rx_read <= RX_SIZE - 1
  BY <1>1, <1>2 DEF rx_accepted, OutContent, VCP_DataAvail, ring_data_avail,
                    OutTypeOK, OutRingOK
<1> QED
  BY <1>1, <1>4, <1>5, <1>6, <1>7, <1>8 DEF OutGrows, OutTypeOK, OutRingOK,
     VCP_DataAvail, VCP_DataAvailContig, ring_data_avail, ring_data_contig

-----------------------------------------------------------------------------
(* try_start_rx keeps the ring legal, gives the next packet a safe window, *)
(* and moves no unread byte, although it may change the size of the ring   *)
(* and both indices.                                                       *)
LEMMA TryStart ==
  ASSUME OutTypeOK, NEW h \in 0 .. RX_SIZE - 1, RingOK(rx_size, h, rx_tail),
         try_start_rx(h)
  PROVE  LET avail  == ring_data_avail(rx_size, h, rx_tail)
             contig == ring_data_contig(rx_size, h, rx_tail)
         IN /\ rx_head' \in 0 .. RX_SIZE - 1
            /\ rx_tail' \in 0 .. RX_SIZE - 1
            /\ rx_size' \in 1 .. RX_SIZE
            /\ rx_active' \in BOOLEAN
            /\ rx_ep' \in {"nak", "armed"}
            /\ rx_ptr' \in 0 .. RX_SIZE - 1
            /\ rx_cnt' \in 0 .. OUT_PKT
            /\ OutRingOK' /\ WindowOK' /\ ActiveOK'
            /\ VCP_DataAvail' = avail
            /\ VCP_DataAvailContig' >= contig
            /\ \A j \in 0 .. avail - 1 :
                 RingSlot(rx_size', rx_tail', j) = RingSlot(rx_size, rx_tail, j)
            /\ avail # 0 => rx_tail' = rx_tail
            /\ rx_tail = 0 => rx_tail' = 0
            /\ h < rx_tail => rx_head' < rx_tail' /\ rx_size' = rx_size
<1> USE OutAssumption
    DEF OutTypeOK, OutRingOK, WindowOK, ActiveOK, VCP_DataAvail, VCP_DataAvailContig,
        ring_data_avail, ring_data_contig, ring_space_contig, ring_space_wrapped,
        RingSlot, ring_wrap, ReopenedSize, ClosedSize, WrappedTail
<1> DEFINE size  == IF h >= rx_tail THEN RX_SIZE ELSE rx_size
           fits  == ring_space_contig(size, h, rx_tail) >= OUT_PKT
           wraps == ring_space_wrapped(size, h, rx_tail) >= OUT_PKT
<1>1. CASE fits
  <2>1. /\ rx_head' = h /\ rx_size' = size /\ rx_tail' = rx_tail
        /\ rx_active' = TRUE
        /\ rx_ep' = "armed" /\ rx_ptr' = h /\ rx_cnt' = 0
    BY <1>1 DEF try_start_rx, DCD_EP_PrepareRx
  <2> QED
    BY <1>1, <2>1
<1>2. CASE ~fits /\ wraps
  <2>1. /\ rx_head' = 0 /\ rx_size' = h
        /\ rx_tail' = IF rx_tail = h THEN 0 ELSE rx_tail
        /\ rx_active' = TRUE
        /\ rx_ep' = "armed" /\ rx_ptr' = 0 /\ rx_cnt' = 0
    BY <1>2 DEF try_start_rx, DCD_EP_PrepareRx
  <2> QED
    BY <1>2, <2>1
<1>3. CASE ~fits /\ ~wraps
  <2>1. /\ rx_head' = h /\ rx_size' = size /\ rx_tail' = rx_tail
        /\ rx_active' = FALSE
        /\ rx_ep' = "nak" /\ rx_ptr' = rx_ptr /\ rx_cnt' = rx_cnt
    BY <1>3 DEF try_start_rx
  <2>2. \A j \in 0 .. ring_data_avail(rx_size, h, rx_tail) - 1 :
          RingSlot(rx_size', rx_tail', j) = RingSlot(rx_size, rx_tail, j)
    BY <2>1
  <2>3. OutRingOK' /\ WindowOK' /\ ActiveOK'
    BY <2>1
  <2>4. /\ VCP_DataAvail' = ring_data_avail(rx_size, h, rx_tail)
        /\ VCP_DataAvailContig' >= ring_data_contig(rx_size, h, rx_tail)
    BY <2>1
  <2>5. h < rx_tail => rx_head' < rx_tail' /\ rx_size' = rx_size
    BY <2>1
  <2> QED
    <3> HIDE DEF RingSlot, ring_wrap, VCP_DataAvail, VCP_DataAvailContig,
                 ring_data_avail, ring_data_contig, OutRingOK, WindowOK, ActiveOK
    <3>1. /\ rx_head' \in 0 .. RX_SIZE - 1
          /\ rx_tail' \in 0 .. RX_SIZE - 1
          /\ rx_size' \in 1 .. RX_SIZE
          /\ rx_active' \in BOOLEAN
          /\ rx_ep' \in {"nak", "armed"}
          /\ rx_ptr' \in 0 .. RX_SIZE - 1
          /\ rx_cnt' \in 0 .. OUT_PKT
      <4>1. rx_head' \in 0 .. RX_SIZE - 1 /\ rx_tail' \in 0 .. RX_SIZE - 1
        BY <2>1
      <4>2. rx_size' \in 1 .. RX_SIZE
        BY <2>1
      <4>3. rx_active' \in BOOLEAN
        BY <2>1
      <4>4. rx_ep' \in {"nak", "armed"}
        BY <2>1
      <4>5. rx_ptr' \in 0 .. RX_SIZE - 1
        BY <2>1
      <4>6. rx_cnt' \in 0 .. OUT_PKT
        BY <2>1
      <4> QED
        BY <4>1, <4>2, <4>3, <4>4, <4>5, <4>6
    <3>2. /\ ring_data_avail(rx_size, h, rx_tail) # 0 => rx_tail' = rx_tail
          /\ rx_tail = 0 => rx_tail' = 0
      BY <2>1
    <3> QED
      BY ONLY <3>1, <3>2, <2>2, <2>3, <2>4, <2>5
<1> QED
  BY <1>1, <1>2, <1>3

(* Counting a packet that was stored to the window: the ring stays legal   *)
(* and the packet's bytes follow the unread ones.                          *)
LEMMA PacketCounted ==
  ASSUME OutTypeOK, OutRingOK, WindowOK, rx_ep # "nak"
  PROVE  LET h     == ring_wrap(rx_size, rx_head + rx_cnt)
             avail == ring_data_avail(rx_size, h, rx_tail)
         IN /\ RingOK(rx_size, h, rx_tail) /\ h \in 0 .. RX_SIZE - 1
            /\ avail = VCP_DataAvail + rx_cnt
            /\ ring_data_contig(rx_size, h, rx_tail) >= VCP_DataAvailContig
            /\ rx_head < rx_tail => h < rx_tail
            /\ \A j \in 0 .. avail - 1 : j >= VCP_DataAvail =>
                 RingSlot(rx_size, rx_tail, j) = rx_head + (j - VCP_DataAvail)
  BY OutAssumption
  DEF OutTypeOK, OutRingOK, WindowOK, VCP_DataAvail, VCP_DataAvailContig,
      ring_wrap, ring_data_avail, ring_data_contig, RingSlot

LEMMA DataOutInv ==
  ASSUME OutInv, usbd_cdc_DataOut
  PROVE  OutInv' /\ OutGrows
<1> USE OutAssumption DEF OutInv
<1> DEFINE h == ring_wrap(rx_size, rx_head + rx_cnt)
           avail == ring_data_avail(rx_size, h, rx_tail)
<1>0. VCP_DataAvail \in 0 .. RX_SIZE - 1 /\ VCP_DataAvailContig \in 0 .. VCP_DataAvail
  BY AvailType
<1>1. /\ rx_ep = "full" /\ try_start_rx(h)
      /\ rx_total' = rx_total + rx_cnt /\ rx_read' = rx_read /\ rx_buf' = rx_buf
  BY DEF usbd_cdc_DataOut
<1>2. /\ RingOK(rx_size, h, rx_tail) /\ h \in 0 .. RX_SIZE - 1
      /\ avail = VCP_DataAvail + rx_cnt
      /\ ring_data_contig(rx_size, h, rx_tail) >= VCP_DataAvailContig
      /\ rx_head < rx_tail => h < rx_tail
      /\ \A j \in 0 .. avail - 1 : j >= VCP_DataAvail =>
           RingSlot(rx_size, rx_tail, j) = rx_head + (j - VCP_DataAvail)
  BY <1>1, PacketCounted
<1>3. ASSUME NEW j \in 0 .. avail - 1
      PROVE  rx_buf[RingSlot(rx_size, rx_tail, j)] = rx_read + j
  <2>1. CASE j < VCP_DataAvail
    <3>1. j \in 0 .. VCP_DataAvail - 1
      BY <2>1, <1>0, <1>2 DEF OutTypeOK
    <3> QED
      BY <3>1 DEF OutContent
  <2>2. CASE j >= VCP_DataAvail
    <3> DEFINE i == j - VCP_DataAvail
    <3>1. i \in 0 .. rx_cnt - 1
      BY <2>2, <1>0, <1>2 DEF OutTypeOK
    <3>2. rx_buf[rx_head + i] = rx_total + i
      BY <3>1, <1>1 DEF OutContent
    <3>3. rx_total + i = rx_read + j
      BY <1>0, <1>2 DEF OutContent, OutTypeOK
    <3> QED
      BY <2>2, <3>2, <3>3, <1>2
  <2> QED
    BY <2>1, <2>2, <1>0, <1>2 DEF OutTypeOK
<1>4. /\ OutTypeOK' /\ OutRingOK' /\ WindowOK' /\ ActiveOK'
      /\ VCP_DataAvail' = avail /\ rx_ep' # "full"
      /\ VCP_DataAvailContig' >= ring_data_contig(rx_size, h, rx_tail)
      /\ \A j \in 0 .. avail - 1 :
           RingSlot(rx_size', rx_tail', j) = RingSlot(rx_size, rx_tail, j)
      /\ avail # 0 => rx_tail' = rx_tail
      /\ rx_tail = 0 => rx_tail' = 0
      /\ h < rx_tail => rx_head' < rx_tail' /\ rx_size' = rx_size
  BY <1>1, <1>2, TryStart DEF OutTypeOK
<1>5. OutContent'
  <2>1. rx_total' = rx_read' + VCP_DataAvail'
    BY <1>0, <1>1, <1>2, <1>4 DEF OutContent, OutTypeOK
  <2>2. \A j \in 0 .. VCP_DataAvail' - 1 :
          rx_buf'[RingSlot(rx_size', rx_tail', j)] = rx_read' + j
    BY <1>1, <1>3, <1>4
  <2> QED
    BY <1>4, <2>1, <2>2 DEF OutContent
<1>6. /\ VCP_DataAvail' \in 0 .. RX_SIZE - 1
      /\ VCP_DataAvailContig' \in 0 .. VCP_DataAvail'
      /\ ring_data_contig(rx_size, h, rx_tail) \in Nat
  <2>1. OutTypeOK' /\ OutRingOK'
    BY <1>4
  <2>2. ring_data_contig(rx_size, h, rx_tail) \in Nat
    BY <1>2 DEF ring_data_contig, OutTypeOK
  <2>3. (OutTypeOK /\ OutRingOK => /\ VCP_DataAvail \in 0 .. RX_SIZE - 1
                                   /\ VCP_DataAvailContig \in 0 .. VCP_DataAvail)'
    BY AvailType, PTL
  <2> QED
    BY <2>1, <2>2, <2>3
<1>7. /\ rx_accepted' = rx_accepted
      /\ rx_accepted' - rx_read <= RX_SIZE - 1
  <2>1. rx_accepted' = rx_total' /\ rx_accepted = rx_total + rx_cnt
    BY <1>1, <1>4 DEF rx_accepted
  <2> QED
    BY <1>0, <1>1, <1>2, <1>4, <1>6, <2>1 DEF OutContent, OutTypeOK
<1>8. rx_accepted' >= rx_accepted
  BY <1>1, <1>7 DEF rx_accepted, OutTypeOK
<1>9. OutGrows
  BY <1>0, <1>1, <1>2, <1>4, <1>6, <1>7, <1>8 DEF OutGrows, OutTypeOK
<1> QED
  BY <1>4, <1>5, <1>9

LEMMA OutUnchanged ==
  ASSUME OutInv, UNCHANGED outVars
  PROVE  OutInv' /\ OutGrows
<1>1. /\ OutTypeOK /\ OutRingOK
      /\ VCP_DataAvail \in 0 .. RX_SIZE - 1 /\ VCP_DataAvailContig \in 0 .. VCP_DataAvail
  BY AvailType DEF OutInv
<1>2. OutInv'
  BY DEF outVars, ringVars, epVars, OutInv, OutTypeOK, OutRingOK, WindowOK, ActiveOK,
     OutContent, VCP_DataAvail
<1>3. rx_accepted - rx_read <= RX_SIZE - 1 /\ rx_accepted \in Nat
  BY <1>1, OutAssumption DEF rx_accepted, OutInv, OutContent, OutTypeOK, OutRingOK,
     WindowOK, VCP_DataAvail, ring_data_avail
<1>4. OutGrows
  BY <1>1, <1>3 DEF outVars, ringVars, epVars, OutGrows, OutTypeOK,
     VCP_DataAvail, VCP_DataAvailContig, rx_accepted
<1> QED
  BY <1>2, <1>4

LEMMA ScheduleOutInv ==
  ASSUME OutInv, schedule_cdc_out
  PROVE  OutInv' /\ OutGrows
<1> USE OutAssumption DEF OutInv
<1>1. CASE rx_active /\ UNCHANGED outVars
  BY <1>1, OutUnchanged
<1>2. CASE ~rx_active /\ try_start_rx(rx_head) /\ UNCHANGED <<rx_buf, rx_total, rx_read>>
  <2> USE <1>2
  <2>1. rx_ep = "nak"
    BY DEF ActiveOK, OutTypeOK
  <2>2. /\ OutTypeOK' /\ OutRingOK' /\ WindowOK' /\ ActiveOK'
        /\ VCP_DataAvail' = VCP_DataAvail /\ rx_ep' # "full"
        /\ VCP_DataAvailContig' >= VCP_DataAvailContig
        /\ \A j \in 0 .. VCP_DataAvail - 1 :
             RingSlot(rx_size', rx_tail', j) = RingSlot(rx_size, rx_tail, j)
        /\ VCP_DataAvail # 0 => rx_tail' = rx_tail
        /\ rx_tail = 0 => rx_tail' = 0
        /\ rx_head < rx_tail => rx_head' < rx_tail' /\ rx_size' = rx_size
    BY TryStart DEF OutTypeOK, OutRingOK, VCP_DataAvail, VCP_DataAvailContig
  <2>3. OutContent'
    BY <2>2 DEF OutContent
  <2>4. /\ rx_accepted' >= rx_accepted
        /\ rx_accepted' - rx_read <= RX_SIZE - 1
    BY <2>1, <2>2 DEF rx_accepted, OutContent, OutTypeOK, OutRingOK,
                      VCP_DataAvail, ring_data_avail
  <2>5. OutGrows
    BY <2>2, <2>4, AvailType DEF OutGrows, OutTypeOK
  <2> QED
    BY <2>2, <2>3, <2>5
<1> QED
  BY <1>1, <1>2 DEF schedule_cdc_out

(* Reading what is there keeps the ring legal and the window safe.         *)
LEMMA MarkReadRing ==
  ASSUME OutTypeOK, OutRingOK, NEW sz \in 0 .. VCP_DataAvail, VCP_MarkRead(sz)
  PROVE  /\ OutTypeOK' /\ OutRingOK'
         /\ WindowOK => WindowOK'
         /\ VCP_DataAvail' = VCP_DataAvail - sz
         /\ \A j \in 0 .. VCP_DataAvail' - 1 :
              RingSlot(rx_size', rx_tail', j) = RingSlot(rx_size, rx_tail, sz + j)
<1> USE OutAssumption
<1>1. /\ rx_tail' = ring_wrap(rx_size, rx_tail + sz)
      /\ rx_read' = rx_read + sz
      /\ UNCHANGED <<rx_buf, rx_head, rx_size, rx_active, rx_total, rx_ep, rx_ptr, rx_cnt>>
  BY DEF VCP_MarkRead, epVars
<1>2. /\ OutTypeOK' /\ OutRingOK'
      /\ WindowOK => WindowOK'
      /\ VCP_DataAvail' = VCP_DataAvail - sz
  BY <1>1 DEF OutTypeOK, OutRingOK, WindowOK, VCP_DataAvail, ring_wrap, ring_data_avail
<1>3. \A j \in 0 .. VCP_DataAvail' - 1 :
        RingSlot(rx_size', rx_tail', j) = RingSlot(rx_size, rx_tail, sz + j)
  BY <1>1, <1>2 DEF OutTypeOK, OutRingOK, VCP_DataAvail, ring_wrap, ring_data_avail, RingSlot
<1> QED
  BY <1>2, <1>3

(* ... and what is left in it is as it was.                                *)
LEMMA MarkReadInv ==
  ASSUME OutInv, NEW sz \in 0 .. VCP_DataAvail, VCP_MarkRead(sz)
  PROVE  /\ OutInv'
         /\ VCP_DataAvail' = VCP_DataAvail - sz
         /\ rx_accepted' = rx_accepted
         /\ sz <= VCP_DataAvailContig /\ rx_tail + sz = rx_size => rx_tail' = 0
<1> USE OutAssumption DEF OutInv
<1>1. /\ rx_tail' = ring_wrap(rx_size, rx_tail + sz)
      /\ rx_read' = rx_read + sz
      /\ UNCHANGED <<rx_buf, rx_head, rx_size, rx_active, rx_total, rx_ep, rx_ptr, rx_cnt>>
  BY DEF VCP_MarkRead, epVars
<1>2. /\ OutTypeOK' /\ OutRingOK' /\ WindowOK' /\ ActiveOK'
      /\ VCP_DataAvail' = VCP_DataAvail - sz
  BY <1>1, MarkReadRing DEF ActiveOK
<1>3. OutContent'
  <2>1. ASSUME NEW j \in 0 .. VCP_DataAvail' - 1
        PROVE  rx_buf'[RingSlot(rx_size', rx_tail', j)] = rx_read' + j
    <3>1. /\ sz + j \in 0 .. VCP_DataAvail - 1
          /\ RingSlot(rx_size', rx_tail', j) = RingSlot(rx_size, rx_tail, sz + j)
          /\ rx_read' + j = rx_read + (sz + j)
      BY <1>1, <1>2, MarkReadRing DEF OutTypeOK, OutRingOK, VCP_DataAvail, ring_data_avail
    <3> QED
      BY <1>1, <3>1 DEF OutContent
  <2> QED
    BY <1>1, <1>2, <2>1 DEF OutContent, OutTypeOK, VCP_DataAvail, ring_data_avail, OutRingOK
<1> QED
  BY <1>1, <1>2, <1>3 DEF rx_accepted, ring_wrap, OutTypeOK

(* Never more than RX_SIZE - 1 bytes are held, a packet whose interrupt is *)
(* pending included.                                                       *)
LEMMA Bounded ==
  OutInv => rx_accepted - rx_read \in VCP_DataAvail .. RX_SIZE - 1
  BY OutAssumption DEF rx_accepted, OutInv, OutContent, OutTypeOK, OutRingOK,
     WindowOK, VCP_DataAvail, ring_data_avail

(* A byte contiguous from the tail is the one its number says.             *)
LEMMA ContigByte ==
  ASSUME OutInv, NEW j \in 0 .. VCP_DataAvailContig - 1
  PROVE  /\ rx_tail + j \in 0 .. RX_SIZE - 1
         /\ rx_buf[rx_tail + j] = rx_read + j
<1>1. /\ j \in 0 .. VCP_DataAvail - 1
      /\ RingSlot(rx_size, rx_tail, j) = rx_tail + j
      /\ rx_tail + j \in 0 .. RX_SIZE - 1
  BY OutAssumption DEF OutInv, OutTypeOK, OutRingOK, VCP_DataAvail, VCP_DataAvailContig,
     ring_data_avail, ring_data_contig, RingSlot, ring_wrap
<1> QED
  BY <1>1 DEF OutInv, OutContent

ContigRight ==
  \A j \in 0 .. VCP_DataAvailContig - 1 : rx_buf[rx_tail + j] = rx_read + j

LEMMA ContigBytes == OutInv => ContigRight
  BY ContigByte DEF ContigRight
=============================================================================
