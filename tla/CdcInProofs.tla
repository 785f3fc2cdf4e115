---------------------------- MODULE CdcInProofs -----------------------------
(***************************************************************************)
(* InInv is preserved by every interrupt handler of the IN pipe, by the    *)
(* host, by a byte written to free space and by VCP_MarkWritten, for every *)
(* buffer size and packet size.  The modules that add a main loop build on *)
(* these lemmas: CdcTxProofs.                                              *)
(***************************************************************************)
EXTENDS CdcIn, SequenceTheorems, TLAPS

USE DEF RingOK

(* What a handler may do to the ring, as seen by a main loop that has      *)
(* looked at it before: the free space only grows, and what is in the      *)
(* buffer and what has been written stay.                                  *)
InDrains ==
  /\ tx_buf' = tx_buf
  /\ tx_head' = tx_head
  /\ tx_written' = tx_written
  /\ VCP_SpaceAvail' >= VCP_SpaceAvail
  /\ VCP_SpaceAvailContig' >= VCP_SpaceAvailContig

-----------------------------------------------------------------------------
(* Packets as sequences                                                    *)

LEMMA PacketIsSeq ==
  ASSUME NEW S, NEW n \in Nat, NEW f \in [1 .. n -> S]
  PROVE  f \in Seq(S) /\ Len(f) = n
<1>1. f \in Seq(S)
  BY SeqDef
<1>2. 1 .. Len(f) = 1 .. n /\ Len(f) \in Nat
  BY <1>1, LenProperties
<1> QED
  BY <1>1, <1>2

LEMMA EmptyPacket ==
  ASSUME NEW k
  PROVE  << >> = [i \in 1 .. 0 |-> k + i - 1]
<1>1. /\ << >> \in Seq(Nat) /\ Len(<< >>) = 0
  BY EmptySeq
<1>2. << >> \in [1 .. 0 -> Nat]
  BY <1>1, LenProperties
<1> QED
  BY <1>2

-----------------------------------------------------------------------------
LEMMA SpaceType ==
  ASSUME InTypeOK
  PROVE  /\ tx_unsent \in 0 .. TX_SIZE - 1
         /\ VCP_SpaceAvail \in 0 .. TX_SIZE - 1
         /\ VCP_SpaceAvail = TX_SIZE - 1 - tx_unsent
         /\ VCP_SpaceAvailContig \in 0 .. VCP_SpaceAvail
         /\ ring_data_contig(TX_SIZE, tx_head, tx_tail) \in 0 .. tx_unsent
         /\ tx_unsent > 0 => ring_data_contig(TX_SIZE, tx_head, tx_tail) > 0
  BY InAssumption
  DEF InTypeOK, tx_unsent, VCP_SpaceAvail, VCP_SpaceAvailContig, ring_data_avail,
      ring_space_avail, ring_space_contig, ring_data_contig

LEMMA InInitInv == InInit => InInv
<1> SUFFICES ASSUME InInit PROVE InInv
  OBVIOUS
<1>1. << >> \in Seq(Nat \cup {BLANK}) /\ Len(<< >>) = 0
  BY EmptySeq
<1>2. InTypeOK
  BY <1>1, InAssumption DEF InInit, InTypeOK
<1>3. tx_unsent = 0
  BY InAssumption DEF InInit, tx_unsent, ring_data_avail
<1> QED
  BY <1>1, <1>2, <1>3, InAssumption
  DEF InInit, InInv, RingContent, PacketContent, FifoContent, TxActiveOK,
      TransfersClosed, HostTransferOpen

-----------------------------------------------------------------------------
(* DCD_EP_Tx takes len contiguous bytes out of the ring and sets them up.  *)
LEMMA SetUp ==
  ASSUME InInv, NEW len \in 0 .. MIN_(ring_data_contig(TX_SIZE, tx_head, tx_tail), IN_PKT),
         DCD_EP_Tx(len), UNCHANGED <<tx_buf, tx_head, hostVars>>,
         tx_ep \in {"idle", "sent"}, tx_active' = TRUE,
         len = 0 => HostTransferOpen
  PROVE  InInv' /\ InDrains
<1> USE InAssumption DEF InInv
<1>1. /\ len \in Nat /\ len <= IN_PKT
      /\ len <= ring_data_contig(TX_SIZE, tx_head, tx_tail)
  BY SpaceType DEF MIN_
<1>2. /\ tx_ptr' = tx_tail /\ tx_len' = len /\ tx_fifo' = << >>
      /\ tx_ep' = IF len > 0 THEN "load" ELSE "ready"
      /\ tx_tail' = ring_wrap(TX_SIZE, tx_tail + len)
      /\ tx_total' = tx_total + len
      /\ UNCHANGED <<tx_buf, tx_head, host_pkt, host_total>>
  BY DEF DCD_EP_Tx, hostVars
<1>3. << >> \in Seq(Nat \cup {BLANK})
  BY EmptySeq
<1>4. tx_tail' \in 0 .. TX_SIZE - 1 /\ tx_tail + len <= TX_SIZE
  BY <1>1, <1>2 DEF InTypeOK, ring_wrap, ring_data_contig
<1>5. InTypeOK'
  BY <1>1, <1>2, <1>3, <1>4 DEF InTypeOK
<1>6. /\ tx_unsent' = tx_unsent - len
      /\ \A j \in 0 .. tx_unsent' - 1 :
           /\ len + j \in 0 .. tx_unsent - 1
           /\ RingSlot(TX_SIZE, tx_tail', j) = RingSlot(TX_SIZE, tx_tail, len + j)
      /\ \A i \in 0 .. len - 1 :
           i \in 0 .. tx_unsent - 1 /\ RingSlot(TX_SIZE, tx_tail, i) = tx_tail + i
  BY <1>1, <1>2 DEF InTypeOK, tx_unsent, ring_data_avail, ring_data_contig, ring_wrap, RingSlot
<1>7. RingContent'
  <2>1. ASSUME NEW j \in 0 .. tx_unsent' - 1
        PROVE  tx_buf'[RingSlot(TX_SIZE, tx_tail', j)] = tx_total' + j
    <3>1. tx_buf[RingSlot(TX_SIZE, tx_tail, len + j)] = tx_total + (len + j)
      BY <1>6 DEF RingContent
    <3>2. tx_total' + j = tx_total + (len + j)
      BY <1>1, <1>2, <1>5, <1>6, SpaceType DEF InTypeOK
    <3> QED
      BY <1>2, <1>6, <3>1, <3>2
  <2> QED
    BY <2>1 DEF RingContent
<1>8. PacketContent'
  <2>1. ASSUME NEW i \in 0 .. len - 1
        PROVE  tx_buf'[tx_ptr' + i] = tx_total' - tx_len' + i
    <3>1. tx_buf[tx_tail + i] = tx_total + i
      BY <1>6 DEF RingContent
    <3>2. tx_total' - tx_len' = tx_total
      BY <1>1, <1>2 DEF InTypeOK
    <3> QED
      BY <1>2, <3>1, <3>2
  <2> QED
    BY <1>1, <1>2, <1>4, <2>1 DEF PacketContent
<1>9. FifoContent'
  <2>1. host_total = tx_total
    BY DEF FifoContent
  <2>2. host_total' = tx_total' - tx_len'
    BY <1>1, <1>2, <2>1 DEF InTypeOK
  <2>3. tx_ep' = "ready" => tx_fifo' = [i \in 1 .. tx_len' |-> host_total' + i - 1]
    BY <1>1, <1>2, EmptyPacket
  <2> QED
    BY <1>2, <2>2, <2>3 DEF FifoContent
<1>10. TxActiveOK' /\ TransfersClosed'
  BY <1>1, <1>2 DEF TxActiveOK, TransfersClosed, HostTransferOpen
<1>11. InDrains
  <2>1. tx_written' = tx_written
    BY <1>1, <1>2, <1>6, SpaceType DEF tx_written, InTypeOK
  <2>2. /\ VCP_SpaceAvail' >= VCP_SpaceAvail
        /\ VCP_SpaceAvailContig' >= VCP_SpaceAvailContig
    BY <1>1, <1>2
    DEF InTypeOK, VCP_SpaceAvail, VCP_SpaceAvailContig, ring_data_avail,
        ring_space_avail, ring_space_contig, ring_data_contig, ring_wrap
  <2> QED
    BY <1>2, <2>1, <2>2 DEF InDrains
<1> QED
  BY <1>5, <1>7, <1>8, <1>9, <1>10, <1>11

(* Steps that leave the ring alone. *)
LEMMA RingAlone ==
  ASSUME InTypeOK, RingContent, UNCHANGED <<tx_buf, inRingVars>>
  PROVE  InDrains /\ RingContent' /\ tx_unsent' = tx_unsent
<1>1. UNCHANGED <<tx_buf, tx_head, tx_tail, tx_total>>
  BY DEF inRingVars
<1>2. /\ tx_unsent' = tx_unsent /\ tx_written' = tx_written
      /\ VCP_SpaceAvail' = VCP_SpaceAvail
      /\ VCP_SpaceAvailContig' = VCP_SpaceAvailContig
  BY <1>1 DEF tx_unsent, tx_written, VCP_SpaceAvail, VCP_SpaceAvailContig
<1>3. RingContent'
  BY <1>1, <1>2 DEF RingContent
<1> QED
  BY <1>1, <1>2, <1>3, SpaceType DEF InDrains

LEMMA InUnchanged ==
  ASSUME InInv, UNCHANGED inVars
  PROVE  InInv' /\ InDrains
<1> USE DEF InInv
<1>1. UNCHANGED <<tx_buf, inRingVars, inEpVars, hostVars>>
  BY DEF inVars
<1>2. InDrains /\ RingContent'
  BY <1>1, RingAlone
<1>3. InTypeOK'
  BY <1>1 DEF inRingVars, inEpVars, hostVars, InTypeOK
<1>4. PacketContent' /\ FifoContent' /\ TxActiveOK' /\ TransfersClosed'
  BY <1>1 DEF inRingVars, inEpVars, hostVars, PacketContent, FifoContent,
              TxActiveOK, TransfersClosed, HostTransferOpen
<1> QED
  BY <1>2, <1>3, <1>4

LEMMA ScheduleInInv ==
  ASSUME InInv, schedule_cdc_in
  PROVE  InInv' /\ InDrains
<1>1. CASE UNCHANGED inVars
  BY <1>1, InUnchanged
<1>2. CASE /\ PacketDue /\ tx_active' = TRUE /\ DCD_EP_Tx(NextPacket)
           /\ UNCHANGED <<tx_buf, tx_head, hostVars>>
  <2>1. NextPacket \in 0 .. NextPacket /\ NextPacket > 0
    BY <1>2, SpaceType, InAssumption DEF PacketDue, NextPacket, MIN_, InInv
  <2>2. tx_ep = "idle"
    BY <1>2 DEF PacketDue, InInv, TxActiveOK
  <2> QED
    BY <1>2, <2>1, <2>2, SetUp DEF NextPacket
<1> QED
  BY <1>1, <1>2 DEF schedule_cdc_in

LEMMA DataInInv ==
  ASSUME InInv, usbd_cdc_DataIn
  PROVE  InInv' /\ InDrains
<1> USE DEF InInv
<1>1. tx_ep = "sent" /\ tx_active /\ Len(host_pkt) = tx_len
  BY DEF usbd_cdc_DataIn, TxActiveOK, FifoContent
<1>2. CASE PacketFollows
  <2>1. /\ DCD_EP_Tx(NextPacket) /\ tx_active' = tx_active
        /\ UNCHANGED <<tx_buf, tx_head, hostVars>>
    BY <1>2 DEF usbd_cdc_DataIn
  <2>2. NextPacket \in 0 .. NextPacket
    BY SpaceType, InAssumption DEF NextPacket, MIN_
  <2>3. NextPacket = 0 => HostTransferOpen
    BY <1>1, <1>2 DEF PacketFollows, HostTransferOpen
  <2>4. tx_active' = TRUE
    BY <1>1, <2>1 DEF InTypeOK
  <2> QED
    BY <1>1, <2>1, <2>2, <2>3, <2>4, SetUp DEF NextPacket
<1>3. CASE ~PacketFollows
  <2>1. /\ tx_active' = FALSE /\ tx_ep' = "idle"
        /\ UNCHANGED <<tx_buf, tx_head, tx_tail, tx_total, tx_ptr, tx_len, tx_fifo,
                       host_pkt, host_total>>
    BY <1>3 DEF usbd_cdc_DataIn, hostVars
  <2>2. tx_len # IN_PKT
    BY <1>1, <1>3 DEF PacketFollows
  <2>3. /\ tx_unsent' = tx_unsent /\ tx_written' = tx_written
        /\ VCP_SpaceAvail' = VCP_SpaceAvail
        /\ VCP_SpaceAvailContig' = VCP_SpaceAvailContig
    BY <2>1 DEF tx_unsent, tx_written, VCP_SpaceAvail, VCP_SpaceAvailContig
  <2>4. InTypeOK'
    BY <2>1 DEF InTypeOK
  <2>5. RingContent' /\ PacketContent' /\ FifoContent'
    BY <1>1, <2>1, <2>3 DEF RingContent, PacketContent, FifoContent
  <2>6. TxActiveOK' /\ TransfersClosed'
    BY <1>1, <2>1, <2>2 DEF TxActiveOK, TransfersClosed, HostTransferOpen
  <2>7. InDrains
    BY <2>1, <2>3, SpaceType DEF InDrains
  <2> QED
    BY <2>4, <2>5, <2>6, <2>7
<1> QED
  BY <1>2, <1>3

(* The packet in the ring is still whole when its FIFO is filled. *)
LEMMA TxFifoInv ==
  ASSUME InInv, DCD_WriteEmptyTxFifo
  PROVE  InInv' /\ InDrains
<1> USE InAssumption DEF InInv
<1>1. /\ tx_ep = "load" /\ tx_ep' = "ready"
      /\ tx_fifo' = [i \in 1 .. tx_len |-> tx_buf[tx_ptr + i - 1]]
      /\ UNCHANGED <<tx_buf, tx_head, tx_tail, tx_active, tx_total, tx_ptr, tx_len,
                     host_pkt, host_total>>
  BY DEF DCD_WriteEmptyTxFifo, inRingVars, hostVars
<1>2. InDrains /\ RingContent'
  BY RingAlone DEF DCD_WriteEmptyTxFifo
<1>3. /\ tx_len > 0 /\ tx_ptr + tx_len <= TX_SIZE
      /\ \A i \in 0 .. tx_len - 1 : tx_buf[tx_ptr + i] = tx_total - tx_len + i
      /\ host_total = tx_total - tx_len
  BY <1>1 DEF PacketContent, FifoContent
<1>4. ASSUME NEW i \in 1 .. tx_len
      PROVE  /\ tx_buf[tx_ptr + i - 1] = host_total + i - 1
             /\ tx_buf[tx_ptr + i - 1] \in Nat \cup {BLANK}
  <2>1. /\ i - 1 \in 0 .. tx_len - 1 /\ tx_ptr + (i - 1) = tx_ptr + i - 1
        /\ tx_ptr + i - 1 \in 0 .. TX_SIZE - 1
        /\ tx_total - tx_len + (i - 1) = (tx_total - tx_len) + i - 1
    BY <1>3 DEF InTypeOK
  <2>2. tx_buf[tx_ptr + (i - 1)] = tx_total - tx_len + (i - 1)
    BY <1>3, <2>1
  <2>3. tx_buf[tx_ptr + i - 1] \in Nat \cup {BLANK}
    BY <2>1 DEF InTypeOK
  <2> QED
    BY <1>3, <2>1, <2>2, <2>3
<1>5. tx_fifo' = [i \in 1 .. tx_len |-> host_total + i - 1]
  BY <1>1, <1>4
<1>6. tx_fifo' \in [1 .. tx_len -> Nat \cup {BLANK}] /\ tx_len \in Nat
  <2>1. tx_len \in Nat
    BY DEF InTypeOK
  <2>2. tx_fifo' \in [1 .. tx_len -> Nat \cup {BLANK}]
    BY ONLY <1>1, <1>4, Zenon
  <2> QED
    BY <2>1, <2>2
<1>7. tx_fifo' \in Seq(Nat \cup {BLANK})
  BY <1>6, PacketIsSeq
<1>8. InTypeOK'
  BY <1>1, <1>7 DEF InTypeOK
<1>9. PacketContent' /\ FifoContent'
  BY <1>1, <1>3, <1>5 DEF PacketContent, FifoContent
<1>10. TxActiveOK' /\ TransfersClosed'
  BY <1>1, <1>3 DEF TxActiveOK, TransfersClosed, HostTransferOpen, InTypeOK
<1> QED
  BY <1>2, <1>8, <1>9, <1>10

(* The host takes exactly the packet it is due. *)
LEMMA HostInInv ==
  ASSUME InInv, HostIn
  PROVE  /\ InInv' /\ InDrains
         /\ Len(tx_fifo) = tx_len
         /\ host_pkt' = [i \in 1 .. tx_len |-> host_total + i - 1]
         /\ host_total' = host_total + tx_len
         /\ host_total = tx_total - tx_len
<1> USE InAssumption DEF InInv
<1>1. /\ tx_ep = "ready" /\ tx_ep' = "sent" /\ host_pkt' = tx_fifo
      /\ host_total' = host_total + Len(tx_fifo)
      /\ UNCHANGED <<tx_buf, tx_head, tx_tail, tx_active, tx_total, tx_ptr, tx_len, tx_fifo>>
  BY DEF HostIn, inRingVars
<1>2. InDrains /\ RingContent'
  BY RingAlone DEF HostIn
<1>3. /\ tx_fifo = [i \in 1 .. tx_len |-> host_total + i - 1]
      /\ host_total = tx_total - tx_len
  BY <1>1 DEF FifoContent
<1>4. Len(tx_fifo) = tx_len
  <2>1. tx_fifo \in [1 .. tx_len -> Nat] /\ tx_len \in Nat
    BY <1>3 DEF InTypeOK
  <2> QED
    BY <2>1, PacketIsSeq
<1>5. InTypeOK'
  BY <1>1, <1>4 DEF InTypeOK
<1>6. PacketContent' /\ FifoContent' /\ TxActiveOK' /\ TransfersClosed'
  BY <1>1, <1>3, <1>4
  DEF PacketContent, FifoContent, TxActiveOK, TransfersClosed, HostTransferOpen, InTypeOK
<1> QED
  BY <1>1, <1>2, <1>3, <1>4, <1>5, <1>6

-----------------------------------------------------------------------------
(* The main loop, which runs only when no packet waits to leave the ring.  *)

(* A byte written to free space disturbs nothing. *)
LEMMA WriteByteInv ==
  ASSUME InInv, MainRuns, NEW off \in 0 .. VCP_SpaceAvailContig - 1, NEW b \in Nat,
         tx_buf' = [tx_buf EXCEPT ![tx_head + off] = b],
         UNCHANGED <<inRingVars, inEpVars, hostVars>>
  PROVE  /\ InInv'
         /\ tx_head + off \in 0 .. TX_SIZE - 1
         /\ tx_unsent' = tx_unsent
<1> USE InAssumption DEF InInv
<1>1. UNCHANGED <<tx_head, tx_tail, tx_active, tx_total, tx_ep, tx_ptr, tx_len, tx_fifo,
                  host_pkt, host_total>>
  BY DEF inRingVars, inEpVars, hostVars
<1>2. /\ tx_head + off \in 0 .. TX_SIZE - 1
      /\ \A j \in 0 .. tx_unsent - 1 :
           /\ RingSlot(TX_SIZE, tx_tail, j) \in 0 .. TX_SIZE - 1
           /\ RingSlot(TX_SIZE, tx_tail, j) # tx_head + off
  BY DEF InTypeOK, VCP_SpaceAvailContig, tx_unsent, ring_space_contig, ring_data_avail,
         RingSlot, ring_wrap
<1>3. tx_unsent' = tx_unsent
  BY <1>1 DEF tx_unsent
<1>4. InTypeOK'
  BY <1>1, <1>2 DEF InTypeOK
<1>5. RingContent'
  BY <1>1, <1>2, <1>3 DEF RingContent, InTypeOK
<1>6. PacketContent' /\ FifoContent' /\ TxActiveOK' /\ TransfersClosed'
  BY <1>1 DEF MainRuns, PacketContent, FifoContent, TxActiveOK, TransfersClosed, HostTransferOpen
<1> QED
  BY <1>2, <1>3, <1>4, <1>5, <1>6

(* VCP_MarkWritten publishes bytes that follow those written before. *)
LEMMA MarkWrittenInv ==
  ASSUME InInv, MainRuns, NEW sz \in 0 .. VCP_SpaceAvailContig, VCP_MarkWritten(sz),
         \A j \in 0 .. sz - 1 : tx_buf[tx_head + j] = tx_written + j
  PROVE  /\ InInv'
         /\ tx_written' = tx_written + sz
         /\ VCP_SpaceAvail' = VCP_SpaceAvail - sz
         /\ tx_head + sz = TX_SIZE => tx_head' = 0
<1> USE InAssumption DEF InInv
<1>1. /\ tx_head' = ring_wrap(TX_SIZE, tx_head + sz)
      /\ UNCHANGED <<tx_buf, tx_tail, tx_active, tx_total, tx_ep, tx_ptr, tx_len, tx_fifo,
                     host_pkt, host_total>>
  BY DEF VCP_MarkWritten, inEpVars, hostVars
<1>2. /\ sz \in Nat /\ sz <= VCP_SpaceAvail /\ tx_unsent \in Nat /\ tx_total \in Nat
  BY SpaceType DEF InTypeOK
<1>3. /\ tx_head' \in 0 .. TX_SIZE - 1
      /\ tx_unsent' = tx_unsent + sz
      /\ tx_head + sz = TX_SIZE => tx_head' = 0
      /\ \A j \in 0 .. tx_unsent + sz - 1 : j >= tx_unsent =>
           RingSlot(TX_SIZE, tx_tail, j) = tx_head + (j - tx_unsent)
  BY <1>1 DEF InTypeOK, VCP_SpaceAvailContig, tx_unsent, ring_space_contig,
              ring_data_avail, RingSlot, ring_wrap
<1>4. InTypeOK'
  BY <1>1, <1>3 DEF InTypeOK
<1>5. RingContent'
  <2>1. ASSUME NEW j \in 0 .. tx_unsent' - 1
        PROVE  tx_buf'[RingSlot(TX_SIZE, tx_tail', j)] = tx_total' + j
    <3>1. CASE j < tx_unsent
      <4>1. j \in 0 .. tx_unsent - 1
        BY <1>2, <3>1
      <4> QED
        BY <1>1, <4>1 DEF RingContent
    <3>2. CASE j >= tx_unsent
      <4>1. /\ j - tx_unsent \in 0 .. sz - 1
            /\ tx_written + (j - tx_unsent) = tx_total + j
        BY <1>2, <1>3, <3>2 DEF tx_written
      <4>2. tx_buf[tx_head + (j - tx_unsent)] = tx_written + (j - tx_unsent)
        BY <4>1
      <4>3. RingSlot(TX_SIZE, tx_tail, j) = tx_head + (j - tx_unsent)
        <5>1. j \in 0 .. tx_unsent + sz - 1
          BY <1>2, <1>3
        <5> QED
          BY ONLY <1>3, <3>2, <5>1
      <4> QED
        BY ONLY <1>1, <4>1, <4>2, <4>3
    <3> QED
      BY <1>2, <3>1, <3>2
  <2> QED
    BY <2>1 DEF RingContent
<1>6. PacketContent' /\ FifoContent' /\ TxActiveOK' /\ TransfersClosed'
  BY <1>1 DEF MainRuns, PacketContent, FifoContent, TxActiveOK, TransfersClosed, HostTransferOpen
<1>7. tx_written' = tx_written + sz
  BY <1>1, <1>2, <1>3 DEF tx_written
<1>8. VCP_SpaceAvail' = VCP_SpaceAvail - sz
  <2>1. VCP_SpaceAvail = TX_SIZE - 1 - tx_unsent
    BY SpaceType
  <2>2. VCP_SpaceAvail' = TX_SIZE - 1 - tx_unsent'
    BY <1>1, <1>3, <1>4 DEF InTypeOK, VCP_SpaceAvail, ring_space_avail, tx_unsent, ring_data_avail
  <2> QED
    BY <1>2, <1>3, <2>1, <2>2
<1> QED
  BY <1>3, <1>4, <1>5, <1>6, <1>7, <1>8

(* The host is never ahead of the ring, and behind by one packet at most. *)
LEMMA OnePacketAhead ==
  ASSUME InInv
  PROVE  /\ host_total \in Nat /\ tx_total \in Nat
         /\ tx_total - host_total \in 0 .. IN_PKT
  BY InAssumption DEF InInv, InTypeOK, FifoContent
=============================================================================
