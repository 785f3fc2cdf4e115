----------------------------- MODULE TiTxProofs -----------------------------
(***************************************************************************)
(* Transmission on TI is correct for every buffer size, packet size and    *)
(* number of sessions: IInv is an inductive invariant of TiTx, and from it *)
(* follow the type invariant, that class, endpoint and ring agree, that    *)
(* transfers are closed, that no byte is removed unsent, the completeness  *)
(* of USBBufferWrite, and that TiTx implements ByteStream.                 *)
(***************************************************************************)
EXTENDS TiTx, SequenceTheorems, TLAPS

USE DEF RingOK

(* TypeOK by what the variables belong to. *)
RingType ==
  /\ tx_buf \in [0 .. TX_SIZE - 1 -> Nat \cup {BLANK}]
  /\ RingOK(TX_SIZE, tx_wr, tx_rd)
  /\ tx_written \in 0 .. MaxBytes
EpType ==
  /\ ui32LastSent \in 0 .. IN_PKT
  /\ tx_busy \in BOOLEAN
  /\ ui16LastTxSize \in Nat
  /\ in_ep \in {"empty", "ready", "sent"}
  /\ in_fifo \in Seq(Nat) /\ Len(in_fifo) <= IN_PKT
WriteType ==
  /\ wr_pc \in {"idle", "free", "copy", "schedule"}
  /\ wr_left \in 0 .. TX_SIZE - 1
HostType ==
  /\ host_next \in Nat
  /\ host_pkt \in Seq(Nat)
  /\ host_open \in BOOLEAN /\ announced \in BOOLEAN /\ spoilt \in BOOLEAN

LEMMA TypeParts ==
  TypeOK <=> LinkOK /\ RingType /\ EpType /\ WriteType /\ HostType
  BY DEF TypeOK, RingType, EpType, WriteType, HostType

LEMMA Collect ==
  ASSUME LinkOK', RingType', EpType', WriteType', HostType', RingContent',
         WriteOK', HostOK', PacketAgrees', TransfersClosed'
  PROVE  IInv'
<1>1. TypeOK'
  BY DEF TypeOK, RingType, EpType, WriteType, HostType
<1> QED
  BY <1>1 DEF IInv

(* The numbers, on legal indices. *)
LEMMA UsedType ==
  ASSUME RingType
  PROVE  /\ TX_SIZE \in Nat \ {0} /\ IN_PKT \in Nat \ {0} /\ tx_written \in Nat
         /\ Used \in 0 .. TX_SIZE - 1 /\ Free \in 0 .. TX_SIZE - 1
         /\ Free = TX_SIZE - Used - 1
         /\ tx_gone \in Int /\ tx_written = tx_gone + Used
  BY TxAssumption DEF RingType, Used, Free, tx_gone, USBRingBufUsed, USBRingBufFree,
       ring_data_avail, ring_space_avail

LEMMA FifoLen ==
  ASSUME EpType
  PROVE  Len(in_fifo) \in 0 .. IN_PKT
  BY TxAssumption, LenProperties DEF EpType

(* What in_fifo' is when a packet of len bytes is taken from the ring. *)
LEMMA PacketIs ==
  ASSUME NEW len \in Nat, NEW f, f \in [1 .. len -> Nat]
  PROVE  f \in Seq(Nat) /\ Len(f) = len /\ f = [i \in 1 .. Len(f) |-> f[i]]
<1>1. f \in Seq(Nat)
  BY SeqDef
<1>2. DOMAIN f = 1 .. Len(f) /\ Len(f) \in Nat
  BY <1>1, LenProperties
<1>3. Len(f) = len
  BY <1>2
<1>4. f = [i \in 1 .. Len(f) |-> f[i]]
  BY <1>3
<1> QED
  BY <1>1, <1>3, <1>4

-----------------------------------------------------------------------------
(* ScheduleNextTransmission, from whatever the read index is then. *)

Idle(last) ==
  /\ in_ep' = "empty" /\ tx_busy' = FALSE /\ ui16LastTxSize' = last
  /\ UNCHANGED <<ui32LastSent, in_fifo>>
  /\ ui32LastSent # IN_PKT

Sends(used, gone, last) ==
  /\ in_ep' = "ready" /\ tx_busy' = TRUE
  /\ ui16LastTxSize' = last + Len(in_fifo')
  /\ ui32LastSent' = Len(in_fifo')
  /\ Len(in_fifo') <= used
  /\ in_fifo' = [i \in 1 .. Len(in_fifo') |-> gone + i - 1]
  /\ in_fifo' = << >> => ui32LastSent = IN_PKT

LEMMA Schedule ==
  ASSUME RingType, EpType, NEW rd \in 0 .. TX_SIZE - 1, NEW gone \in Nat,
         \A j \in 0 .. USBRingBufUsed(TX_SIZE, tx_wr, rd) - 1 :
           tx_buf[RingSlot(TX_SIZE, rd, j)] = gone + j,
         NEW busy \in BOOLEAN, NEW last \in Nat, NEW ep \in {"empty", "ready"},
         ScheduleNextTransmission(rd, busy, last, ep)
  PROVE  /\ EpType' /\ in_ep' # "sent"
         /\ busy => /\ tx_busy' = TRUE /\ ui16LastTxSize' = last /\ in_ep' = ep
                    /\ UNCHANGED <<ui32LastSent, in_fifo>>
         /\ ~busy /\ ep = "empty" =>
              Idle(last) \/ Sends(USBRingBufUsed(TX_SIZE, tx_wr, rd), gone, last)
<1> DEFINE used   == USBRingBufUsed(TX_SIZE, tx_wr, rd)
           packet == USBDCDCTxPacketAvailable(busy)
           len    == MIN_(packet, used)
           pkt    == [i \in 1 .. len |-> tx_buf[RingSlot(TX_SIZE, rd, i - 1)]]
<1>1. /\ TX_SIZE \in Nat \ {0} /\ IN_PKT \in Nat \ {0}
      /\ used \in 0 .. TX_SIZE - 1
  BY TxAssumption DEF RingType, USBRingBufUsed, ring_data_avail
<1>2. /\ packet = IF busy THEN 0 ELSE IN_PKT
      /\ len \in 0 .. IN_PKT /\ len <= used /\ len \in Nat
  BY <1>1 DEF USBDCDCTxPacketAvailable, MIN_
<1>3. \A i \in 1 .. len : pkt[i] = gone + i - 1
  <2>1. ASSUME NEW i \in 1 .. len
        PROVE  tx_buf[RingSlot(TX_SIZE, rd, i - 1)] = gone + i - 1
    <3>1. i - 1 \in 0 .. used - 1 /\ gone + (i - 1) = gone + i - 1
      BY <1>1, <1>2
    <3> QED
      BY <3>1
  <2> QED
    BY <2>1
<1>4. pkt \in [1 .. len -> Nat] /\ pkt = [i \in 1 .. len |-> gone + i - 1]
  <2>1. \A i \in 1 .. len : gone + i - 1 \in Nat
    BY <1>2
  <2> QED
    BY <1>3, <2>1
<1> HIDE DEF pkt
<1>5. /\ pkt \in Seq(Nat) /\ Len(pkt) = len
      /\ pkt = [i \in 1 .. Len(pkt) |-> gone + i - 1]
  BY <1>2, <1>4, PacketIs
<1>6. CASE packet > 0 /\ PacketFollows(len)
  <2>1. ~busy
    BY <1>2, <1>6
  <2>2. ui32LastSent' = len /\ USBDCDCPacketWrite(pkt, last, ep)
    BY <1>6 DEF ScheduleNextTransmission, LastSent, pkt
  <2>3. CASE ep = "ready"
    <3>1. /\ in_ep' = "ready" /\ tx_busy' = FALSE /\ ui16LastTxSize' = last
          /\ in_fifo' = in_fifo
      BY <2>2, <2>3 DEF USBDCDCPacketWrite
    <3> QED
      BY <1>2, <2>1, <2>2, <2>3, <3>1 DEF EpType
  <2>4. CASE ep = "empty"
    <3>1. /\ in_ep' = "ready" /\ tx_busy' = TRUE
          /\ ui16LastTxSize' = last + Len(pkt) /\ in_fifo' = pkt
      BY <2>2, <2>4 DEF USBDCDCPacketWrite
    <3>2. EpType'
      BY <1>2, <1>5, <2>2, <3>1 DEF EpType
    <3>3. in_fifo' = << >> => ui32LastSent = IN_PKT
      <4>1. in_fifo' = << >> => len = 0
        BY <1>5, <3>1, EmptySeq
      <4> QED
        BY <1>2, <1>6, <4>1 DEF PacketFollows
    <3> QED
      BY <1>2, <1>5, <2>1, <2>2, <3>1, <3>2, <3>3 DEF Sends
  <2> QED
    BY <2>3, <2>4
<1>7. CASE ~(packet > 0 /\ PacketFollows(len))
  <2>1. /\ tx_busy' = busy /\ ui16LastTxSize' = last /\ in_ep' = ep
        /\ UNCHANGED <<ui32LastSent, in_fifo>>
    BY <1>7 DEF ScheduleNextTransmission
  <2>2. ~busy => ui32LastSent # IN_PKT
    BY <1>1, <1>2, <1>7 DEF PacketFollows
  <2>3. EpType'
    BY <2>1 DEF EpType
  <2> QED
    BY <2>1, <2>2, <2>3 DEF Idle
<1> QED
  BY <1>6, <1>7

(* Steps that leave the ring alone. *)
LEMMA RingAlone ==
  ASSUME RingType, RingContent, UNCHANGED <<ringVars, tx_written>>
  PROVE  RingType' /\ RingContent' /\ Used' = Used /\ Free' = Free /\ tx_gone' = tx_gone
<1>1. UNCHANGED <<tx_buf, tx_wr, tx_rd, tx_written>>
  BY DEF ringVars
<1>2. Used' = Used /\ Free' = Free /\ tx_gone' = tx_gone
  BY <1>1 DEF Used, Free, tx_gone
<1> QED
  BY <1>1, <1>2 DEF RingType, RingContent

(* Steps of the link or of nobody. *)
LEMMA LinkInv ==
  ASSUME IInv, LinkOK', UNCHANGED <<ringVars, epVars, wrVars, hostVars, histVars>>
  PROVE  IInv' /\ tx_gone' = tx_gone
<1>1. /\ UNCHANGED <<ringVars, tx_written>>
      /\ UNCHANGED <<ui32LastSent, tx_busy, ui16LastTxSize, in_ep, in_fifo,
                     wr_pc, wr_left, host_next, host_pkt, host_open, announced, spoilt>>
  BY DEF epVars, wrVars, hostVars, histVars
<1>2. RingType' /\ RingContent' /\ Used' = Used /\ Free' = Free /\ tx_gone' = tx_gone
  BY <1>1, RingAlone, TypeParts DEF IInv
<1>3. EpType' /\ WriteType' /\ HostType'
  BY <1>1, TypeParts DEF IInv, EpType, WriteType, HostType
<1>4. WriteOK' /\ HostOK' /\ PacketAgrees' /\ TransfersClosed'
  BY <1>1, <1>2 DEF IInv, WriteOK, HostOK, PacketAgrees, TransfersClosed
<1> QED
  BY <1>2, <1>3, <1>4, Collect

LEMMA InitInv == Init => IInv
<1> SUFFICES ASSUME Init PROVE IInv
  OBVIOUS
<1>1. << >> \in Seq(Nat) /\ Len(<< >>) = 0
  BY EmptySeq
<1>2. Used = 0 /\ tx_gone = 0
  BY TxAssumption DEF Init, Used, tx_gone, USBRingBufUsed, ring_data_avail
<1>3. LinkOK
  BY LinkAssumption DEF Init, LinkInit, LinkOK
<1>4. RingType /\ EpType /\ WriteType /\ HostType
  BY <1>1, TxAssumption DEF Init, RingType, EpType, WriteType, HostType
<1>5. RingContent /\ WriteOK /\ HostOK /\ PacketAgrees /\ TransfersClosed
  BY <1>1, <1>2, TxAssumption
  DEF Init, RingContent, WriteOK, HostOK, PacketAgrees, TransfersClosed
<1> QED
  BY <1>3, <1>4, <1>5, TypeParts DEF IInv

-----------------------------------------------------------------------------
(* Removing the k oldest bytes leaves the others. *)
LEMMA Removed ==
  ASSUME RingType, RingContent, NEW k \in 0 .. Used,
         NEW rd, rd = ring_wrap(TX_SIZE, tx_rd + k)
  PROVE  /\ rd \in 0 .. TX_SIZE - 1
         /\ USBRingBufUsed(TX_SIZE, tx_wr, rd) = Used - k
         /\ tx_gone + k \in Nat
         /\ \A j \in 0 .. USBRingBufUsed(TX_SIZE, tx_wr, rd) - 1 :
              tx_buf[RingSlot(TX_SIZE, rd, j)] = (tx_gone + k) + j
<1>1. /\ TX_SIZE \in Nat \ {0} /\ Used \in 0 .. TX_SIZE - 1 /\ tx_gone \in Nat
      /\ tx_wr \in 0 .. TX_SIZE - 1 /\ tx_rd \in 0 .. TX_SIZE - 1
  BY UsedType DEF RingContent, RingType
<1>2. /\ rd \in 0 .. TX_SIZE - 1
      /\ USBRingBufUsed(TX_SIZE, tx_wr, rd) = Used - k
  BY <1>1 DEF Used, USBRingBufUsed, ring_data_avail, ring_wrap
<1>3. ASSUME NEW j \in 0 .. USBRingBufUsed(TX_SIZE, tx_wr, rd) - 1
      PROVE  tx_buf[RingSlot(TX_SIZE, rd, j)] = (tx_gone + k) + j
  <2>1. j \in 0 .. Used - k - 1
    BY <1>2, <1>3
  <2>2. k + j \in 0 .. Used - 1
    BY <1>1, <2>1
  <2>3. RingSlot(TX_SIZE, rd, j) = RingSlot(TX_SIZE, tx_rd, k + j)
    BY <1>1, <2>1, <2>2 DEF RingSlot, ring_wrap
  <2>4. tx_buf[RingSlot(TX_SIZE, tx_rd, k + j)] = tx_gone + (k + j)
    BY <2>2 DEF RingContent
  <2>5. tx_gone + (k + j) = (tx_gone + k) + j
    BY <1>1, <2>1
  <2> QED
    BY <2>3, <2>4, <2>5
<1> QED
  BY <1>1, <1>2, <1>3

(* The end of a packet, reported to the buffer: exactly the bytes the host *)
(* has taken leave the ring, and the next packet starts where it stopped.  *)
LEMMA CompleteInv ==
  ASSUME IInv, ProcessDataToHost
  PROVE  /\ IInv'
         /\ ~spoilt => tx_gone' = host_next /\ host_next' = host_next
         /\ UNCHANGED <<tx_written, host_pkt>>
<1>0. /\ LinkOK /\ RingType /\ EpType /\ WriteType /\ HostType /\ RingContent
      /\ TX_SIZE \in Nat \ {0} /\ Used \in 0 .. TX_SIZE - 1 /\ tx_written \in Nat
      /\ tx_gone \in Int /\ tx_written = tx_gone + Used /\ Free = TX_SIZE - Used - 1
      /\ Len(in_fifo) \in 0 .. IN_PKT
  BY TypeParts, UsedType, FifoLen DEF IInv
<1>1. /\ in_ep = "sent"
      /\ UNCHANGED <<tx_buf, tx_wr, wr_pc, wr_left, tx_written, host_pkt, host_open,
                     announced, linkVars>>
      /\ tx_rd' = USBRingBufAdvanceRead(TX_SIZE, tx_wr, tx_rd, ui16LastTxSize)
      /\ ScheduleNextTransmission(tx_rd', FALSE, 0, "empty")
      /\ spoilt' = (spoilt /\ (host_open \/ ui32LastSent = IN_PKT))
      /\ host_next' = IF spoilt THEN tx_gone' ELSE host_next
  BY DEF ProcessDataToHost, NotReported, Transmitted, wrVars
<1> DEFINE k == MIN_(ui16LastTxSize, Used)
<1>2. /\ k \in 0 .. Used /\ tx_rd' = ring_wrap(TX_SIZE, tx_rd + k)
      /\ ~spoilt => k = Len(in_fifo)
  <2>1. ui16LastTxSize \in Nat
    BY <1>0 DEF EpType
  <2>2. k \in 0 .. Used
    BY <1>0, <2>1 DEF MIN_
  <2>3. tx_rd' = ring_wrap(TX_SIZE, tx_rd + k)
    BY <1>1 DEF USBRingBufAdvanceRead, Used
  <2>4. ~spoilt => ui16LastTxSize = Len(in_fifo) /\ Len(in_fifo) <= Used
    BY <1>1 DEF IInv, PacketAgrees, HostOK
  <2>5. ~spoilt => k = Len(in_fifo)
    BY <1>0, <2>1, <2>4 DEF MIN_
  <2> QED
    BY <2>2, <2>3, <2>5
<1> HIDE DEF k
<1>3. /\ tx_rd' \in 0 .. TX_SIZE - 1
      /\ USBRingBufUsed(TX_SIZE, tx_wr, tx_rd') = Used - k
      /\ tx_gone + k \in Nat
      /\ \A j \in 0 .. USBRingBufUsed(TX_SIZE, tx_wr, tx_rd') - 1 :
           tx_buf[RingSlot(TX_SIZE, tx_rd', j)] = (tx_gone + k) + j
  BY <1>0, <1>2, Removed
<1>4. /\ Used' = Used - k /\ tx_gone' = tx_gone + k /\ Free' = TX_SIZE - Used' - 1
  <2>1. Used' = Used - k
    BY <1>1, <1>3 DEF Used
  <2>2. tx_gone' = tx_written - (Used - k)
    BY <1>1, <2>1 DEF tx_gone
  <2>3. Free' = TX_SIZE - Used' - 1
    BY <1>1 DEF Free, Used, USBRingBufFree, USBRingBufUsed, ring_space_avail
  <2> QED
    BY <1>0, <1>2, <2>1, <2>2, <2>3
<1>5. RingType' /\ RingContent'
  <2>1. RingType'
    BY <1>0, <1>1, <1>3 DEF RingType
  <2>2. tx_gone' >= 0
    BY <1>3, <1>4
  <2>3. USBRingBufUsed(TX_SIZE, tx_wr, tx_rd') = Used'
    BY <1>1 DEF Used
  <2>4. \A j \in 0 .. Used' - 1 : tx_buf'[RingSlot(TX_SIZE, tx_rd', j)] = tx_gone' + j
    BY <1>1, <1>3, <1>4, <2>3
  <2> QED
    BY <2>1, <2>2, <2>4 DEF RingContent
<1>6. /\ EpType'
      /\ Idle(0) \/ Sends(Used - k, tx_gone + k, 0)
  BY <1>0, <1>1, <1>3, Schedule
<1>7. WriteType' /\ LinkOK' /\ HostType' /\ WriteOK'
  <2>1. tx_gone' \in Nat
    BY <1>3, <1>4
  <2>2. HostType'
    BY <1>0, <1>1, <2>1 DEF HostType
  <2>3. LinkOK'
    BY <1>0, <1>1 DEF LinkOK, linkVars
  <2>4. wr_left <= Free => wr_left <= Free'
    BY <1>0, <1>2, <1>4 DEF WriteType
  <2>5. WriteType' /\ WriteOK'
    BY <1>0, <1>1, <2>4 DEF IInv, WriteType, WriteOK
  <2> QED
    BY <2>2, <2>3, <2>5
<1>8. /\ ~spoilt => tx_gone' = host_next /\ host_next' = host_next
      /\ host_next' = tx_gone'
  <2>1. ~spoilt => host_next = tx_gone + Len(in_fifo)
    BY <1>1 DEF IInv, HostOK
  <2> QED
    BY <1>1, <1>2, <1>4, <2>1
<1>9. ASSUME ~spoilt'
      PROVE  ui32LastSent = IN_PKT <=> host_open
  <2>1. CASE spoilt
    BY <1>1, <1>9, <2>1, <1>0 DEF HostType
  <2>2. CASE ~spoilt
    BY <1>1, <2>2 DEF IInv, HostOK, PacketAgrees
  <2> QED
    BY <2>1, <2>2
<1>10. HostOK' /\ PacketAgrees' /\ TransfersClosed'
  <2>1. CASE Idle(0)
    BY <1>1, <1>8, <1>9, <2>1 DEF Idle, HostOK, PacketAgrees, TransfersClosed
  <2>2. CASE Sends(Used - k, tx_gone + k, 0)
    <3>1. /\ in_ep' = "ready" /\ tx_busy' = TRUE
          /\ ui16LastTxSize' = Len(in_fifo') /\ ui32LastSent' = Len(in_fifo')
          /\ Len(in_fifo') <= Used'
          /\ in_fifo' = << >> => ui32LastSent = IN_PKT
      <4>1. Len(in_fifo') \in Nat
        BY <1>6, LenProperties DEF EpType
      <4> QED
        BY <1>4, <2>2, <4>1 DEF Sends
    <3>2. in_fifo' = [i \in 1 .. Len(in_fifo') |-> host_next' + i - 1]
      BY <1>4, <1>8, <2>2 DEF Sends
    <3> QED
      BY <1>1, <1>8, <1>9, <3>1, <3>2 DEF HostOK, PacketAgrees, TransfersClosed
  <2> QED
    BY <1>6, <2>1, <2>2
<1> QED
  BY <1>1, <1>5, <1>6, <1>7, <1>8, <1>10, Collect

(* The host takes the next bytes. *)
LEMMA HostInInv ==
  ASSUME IInv, HostIn
  PROVE  /\ IInv' /\ tx_gone' = tx_gone /\ tx_written' = tx_written
         /\ ~spoilt => \E n \in 0 .. TX_SIZE - 1 :
              /\ host_next + n <= tx_written
              /\ host_next' = host_next + n
              /\ host_pkt' = [i \in 1 .. n |-> host_next + i - 1]
<1>0. /\ RingType /\ EpType /\ WriteType /\ HostType /\ LinkOK /\ RingContent
      /\ Used \in 0 .. TX_SIZE - 1 /\ tx_written = tx_gone + Used
      /\ tx_gone \in Int /\ TX_SIZE \in Nat \ {0}
      /\ Len(in_fifo) \in 0 .. IN_PKT /\ IN_PKT \in Nat
  BY TypeParts, UsedType, FifoLen DEF IInv
<1>1. /\ in_ep = "ready" /\ in_ep' = "sent" /\ host_pkt' = in_fifo
      /\ host_next' = host_next + Len(in_fifo)
      /\ host_open' = (Len(in_fifo) = IN_PKT)
      /\ UNCHANGED <<ringVars, ui32LastSent, tx_busy, ui16LastTxSize, in_fifo,
                     wr_pc, wr_left, tx_written, announced, spoilt, linkVars>>
  BY DEF HostIn, wrVars, histVars
<1>2. RingType' /\ RingContent' /\ Used' = Used /\ Free' = Free /\ tx_gone' = tx_gone
  BY <1>0, <1>1, RingAlone
<1>3. EpType' /\ WriteType' /\ HostType' /\ LinkOK'
  <2>1. host_next' \in Nat
    BY <1>0, <1>1 DEF HostType
  <2>2. host_pkt' \in Seq(Nat) /\ host_open' \in BOOLEAN
    BY <1>0, <1>1 DEF EpType
  <2>3. EpType' /\ WriteType' /\ LinkOK'
    BY <1>0, <1>1 DEF EpType, WriteType, LinkOK, linkVars
  <2> QED
    BY <1>0, <1>1, <2>1, <2>2, <2>3 DEF HostType
<1>4. WriteOK' /\ PacketAgrees' /\ TransfersClosed'
  BY <1>1, <1>2 DEF IInv, WriteOK, PacketAgrees, TransfersClosed
<1>5. ~spoilt => host_next = tx_gone /\ Len(in_fifo) <= Used
  BY <1>1 DEF IInv, HostOK
<1>6. HostOK'
  BY <1>1, <1>2, <1>5 DEF HostOK
<1>7. ASSUME ~spoilt
      PROVE  \E n \in 0 .. TX_SIZE - 1 :
               /\ host_next + n <= tx_written
               /\ host_next' = host_next + n
               /\ host_pkt' = [i \in 1 .. n |-> host_next + i - 1]
  <2>1. Len(in_fifo) \in 0 .. TX_SIZE - 1 /\ host_next + Len(in_fifo) <= tx_written
    BY <1>0, <1>5, <1>7
  <2>2. in_fifo = [i \in 1 .. Len(in_fifo) |-> host_next + i - 1]
    BY <1>1, <1>7 DEF IInv, PacketAgrees
  <2> QED
    BY <1>1, <2>1, <2>2
<1> QED
  BY <1>1, <1>2, <1>3, <1>4, <1>6, <1>7, Collect

-----------------------------------------------------------------------------
(* The main loop looks at the free space. *)
LEMMA LookInv ==
  ASSUME IInv, WriteFree \/ \E n \in 1 .. TX_SIZE - 1 : StartWrite(n)
  PROVE  IInv' /\ UNCHANGED <<tx_gone, tx_written, host_next, host_pkt>>
<1>0. /\ RingType /\ EpType /\ WriteType /\ HostType /\ LinkOK /\ RingContent
      /\ Free \in 0 .. TX_SIZE - 1 /\ tx_written \in Nat /\ TX_SIZE \in Nat \ {0}
      /\ MaxBytes \in Nat
  BY TypeParts, UsedType, TxAssumption DEF IInv
<1>1. /\ UNCHANGED <<ringVars, tx_written>>
      /\ UNCHANGED <<ui32LastSent, tx_busy, ui16LastTxSize, in_ep, in_fifo,
                     host_next, host_pkt, host_open, announced, spoilt, linkVars>>
  BY DEF WriteFree, StartWrite, epVars, hostVars, histVars
<1>2. RingType' /\ RingContent' /\ Used' = Used /\ Free' = Free /\ tx_gone' = tx_gone
  BY <1>0, <1>1, RingAlone
<1>3. EpType' /\ HostType' /\ LinkOK'
  BY <1>0, <1>1 DEF EpType, HostType, LinkOK, linkVars
<1>4. HostOK' /\ PacketAgrees' /\ TransfersClosed'
  BY <1>1, <1>2 DEF IInv, HostOK, PacketAgrees, TransfersClosed
<1>5. WriteType' /\ WriteOK'
  <2>1. CASE WriteFree
    <3>1. /\ wr_left <= Free /\ tx_written + wr_left <= MaxBytes
          /\ wr_left' = MIN_(wr_left, Free)
          /\ wr_pc' = IF wr_left' = 0 THEN "schedule" ELSE "copy"
      BY <2>1 DEF WriteFree, IInv, WriteOK
    <3>2. wr_left' = wr_left
      BY <1>0, <3>1 DEF MIN_, WriteType
    <3> QED
      BY <1>0, <1>1, <1>2, <3>1, <3>2 DEF WriteType, WriteOK
  <2>2. ASSUME NEW n \in 1 .. TX_SIZE - 1, StartWrite(n)
        PROVE  WriteType' /\ WriteOK'
    <3>1. wr_pc' = "free" /\ wr_left' = n /\ n <= Free /\ tx_written + n <= MaxBytes
      BY <2>2 DEF StartWrite
    <3> QED
      BY <1>0, <1>1, <1>2, <3>1 DEF WriteType, WriteOK
  <2> QED
    BY <2>1, <2>2
<1> QED
  BY <1>1, <1>2, <1>3, <1>4, <1>5, Collect

(* One byte is put into the ring. *)
LEMMA CopyInv ==
  ASSUME IInv, WriteCopy
  PROVE  /\ IInv' /\ UNCHANGED <<tx_gone, host_next, host_pkt>>
         /\ tx_written' = tx_written + 1 /\ Used < TX_SIZE - 1
<1>0. /\ RingType /\ EpType /\ WriteType /\ HostType /\ LinkOK /\ RingContent
      /\ Used \in 0 .. TX_SIZE - 1 /\ Free = TX_SIZE - Used - 1
      /\ tx_written \in Nat /\ TX_SIZE \in Nat \ {0} /\ MaxBytes \in Nat
      /\ tx_wr \in 0 .. TX_SIZE - 1 /\ tx_rd \in 0 .. TX_SIZE - 1
      /\ tx_gone \in Int /\ tx_written = tx_gone + Used
  BY TypeParts, UsedType, TxAssumption DEF IInv, RingType
<1>1. /\ tx_buf' = [tx_buf EXCEPT ![tx_wr] = tx_written]
      /\ tx_wr' = ring_wrap(TX_SIZE, tx_wr + 1)
      /\ tx_written' = tx_written + 1 /\ wr_left' = wr_left - 1
      /\ wr_pc' = IF wr_left' = 0 THEN "schedule" ELSE "copy"
      /\ UNCHANGED <<tx_rd, ui32LastSent, tx_busy, ui16LastTxSize, in_ep, in_fifo,
                     host_next, host_pkt, host_open, announced, spoilt, linkVars>>
  BY DEF WriteCopy, epVars, hostVars, histVars
<1>2. /\ wr_left \in Nat /\ wr_left > 0 /\ wr_left <= Free
      /\ tx_written + wr_left <= MaxBytes /\ wr_left <= TX_SIZE - 1
  BY <1>0 DEF WriteCopy, IInv, WriteOK, WriteType
<1>3. Used < TX_SIZE - 1
  BY <1>0, <1>2
<1>4. /\ tx_wr' \in 0 .. TX_SIZE - 1 /\ Used' = Used + 1
      /\ Free' = TX_SIZE - Used' - 1 /\ tx_gone' = tx_gone
      /\ \A j \in 0 .. Used - 1 : RingSlot(TX_SIZE, tx_rd, j) # tx_wr
      /\ \A j \in 0 .. Used : RingSlot(TX_SIZE, tx_rd, j) \in 0 .. TX_SIZE - 1
      /\ RingSlot(TX_SIZE, tx_rd, Used) = tx_wr
  <2>1. /\ tx_wr' \in 0 .. TX_SIZE - 1 /\ Used' = Used + 1
    BY <1>0, <1>1, <1>3 DEF Used, USBRingBufUsed, ring_data_avail, ring_wrap
  <2>2. Free' = TX_SIZE - Used' - 1
    BY <1>1 DEF Free, Used, USBRingBufFree, USBRingBufUsed, ring_space_avail
  <2>3. tx_gone' = tx_written' - Used'
    BY DEF tx_gone
  <2>4. /\ \A j \in 0 .. Used - 1 : RingSlot(TX_SIZE, tx_rd, j) # tx_wr
        /\ \A j \in 0 .. Used : RingSlot(TX_SIZE, tx_rd, j) \in 0 .. TX_SIZE - 1
        /\ RingSlot(TX_SIZE, tx_rd, Used) = tx_wr
    BY <1>0, <1>3 DEF Used, USBRingBufUsed, ring_data_avail, RingSlot, ring_wrap
  <2>5. tx_gone' = tx_gone
    BY <1>0, <1>1, <2>1, <2>3
  <2> QED
    BY <2>1, <2>2, <2>4, <2>5
<1>5. RingType'
  BY <1>0, <1>1, <1>2, <1>4 DEF RingType
<1>6. RingContent'
  <2>1. ASSUME NEW j \in 0 .. Used' - 1
        PROVE  tx_buf'[RingSlot(TX_SIZE, tx_rd', j)] = tx_gone' + j
    <3> DEFINE s == RingSlot(TX_SIZE, tx_rd, j)
    <3>1. j \in 0 .. Used /\ s \in 0 .. TX_SIZE - 1
      BY <1>0, <1>4
    <3>2. CASE j = Used
      <4>1. s = tx_wr
        BY <1>4, <3>2
      <4>2. tx_buf'[s] = tx_written
        BY <1>0, <1>1, <3>1, <4>1 DEF RingType
      <4> QED
        BY <1>0, <1>1, <1>4, <3>2, <4>2
    <3>3. CASE j # Used
      <4>1. j \in 0 .. Used - 1
        BY <1>0, <3>1, <3>3
      <4>2. s # tx_wr
        BY <1>4, <4>1
      <4>3. tx_buf'[s] = tx_buf[s]
        BY <1>0, <1>1, <3>1, <4>2 DEF RingType
      <4>4. tx_buf[s] = tx_gone + j
        BY <1>0, <4>1 DEF RingContent
      <4> QED
        BY <1>1, <1>4, <4>3, <4>4
    <3> QED
      BY <3>2, <3>3
  <2>2. tx_gone' >= 0
    BY <1>0, <1>4 DEF RingContent
  <2> QED
    BY <2>1, <2>2 DEF RingContent
<1>7. EpType' /\ HostType' /\ LinkOK'
  BY <1>0, <1>1 DEF EpType, HostType, LinkOK, linkVars
<1>8. WriteType' /\ WriteOK'
  BY <1>0, <1>1, <1>2, <1>4 DEF WriteType, WriteOK
<1>9. HostOK' /\ PacketAgrees' /\ TransfersClosed'
  <2>1. Len(in_fifo) <= Used => Len(in_fifo) <= Used'
    BY <1>0, <1>4, FifoLen
  <2>2. HostOK'
    BY <1>1, <1>4, <2>1 DEF IInv, HostOK
  <2>3. PacketAgrees' /\ TransfersClosed'
    BY <1>1 DEF IInv, PacketAgrees, TransfersClosed
  <2> QED
    BY <2>2, <2>3
<1> QED
  BY <1>1, <1>3, <1>4, <1>5, <1>6, <1>7, <1>8, <1>9, Collect

(* USBBufferWrite starts a packet, if none is under way. *)
LEMMA ScheduleInv ==
  ASSUME IInv, WriteSchedule
  PROVE  IInv' /\ UNCHANGED <<tx_gone, tx_written, host_next, host_pkt>>
<1>0. /\ RingType /\ EpType /\ WriteType /\ HostType /\ LinkOK /\ RingContent
      /\ Used \in 0 .. TX_SIZE - 1 /\ tx_gone \in Nat
      /\ tx_rd \in 0 .. TX_SIZE - 1 /\ tx_busy \in BOOLEAN
      /\ ui16LastTxSize \in Nat
  BY TypeParts, UsedType DEF IInv, RingType, RingContent, EpType
<1>1. /\ in_ep \in {"empty", "ready"}
      /\ ScheduleNextTransmission(tx_rd, tx_busy, ui16LastTxSize, in_ep)
      /\ wr_pc' = "idle"
      /\ UNCHANGED <<ringVars, tx_written>>
      /\ UNCHANGED <<wr_left, host_next, host_pkt, host_open, announced, spoilt, linkVars>>
  BY <1>0 DEF WriteSchedule, MainRuns, EpType, hostVars, histVars
<1>2. RingType' /\ RingContent' /\ Used' = Used /\ Free' = Free /\ tx_gone' = tx_gone
  BY <1>0, <1>1, RingAlone
<1>3. /\ EpType' /\ in_ep' # "sent"
      /\ tx_busy => /\ tx_busy' = TRUE /\ ui16LastTxSize' = ui16LastTxSize
                    /\ in_ep' = in_ep /\ UNCHANGED <<ui32LastSent, in_fifo>>
      /\ ~tx_busy /\ in_ep = "empty" =>
           Idle(ui16LastTxSize) \/ Sends(Used, tx_gone, ui16LastTxSize)
  <2>1. \A j \in 0 .. USBRingBufUsed(TX_SIZE, tx_wr, tx_rd) - 1 :
          tx_buf[RingSlot(TX_SIZE, tx_rd, j)] = tx_gone + j
    BY <1>0 DEF RingContent, Used
  <2> QED
    BY <1>0, <1>1, <2>1, Schedule DEF Used
<1>4. WriteType' /\ WriteOK' /\ HostType' /\ LinkOK'
  BY <1>0, <1>1 DEF WriteType, WriteOK, HostType, LinkOK, linkVars
<1>5. HostOK' /\ PacketAgrees' /\ TransfersClosed'
  <2>1. CASE spoilt
    BY <1>1, <2>1 DEF HostOK, PacketAgrees, TransfersClosed
  <2>2. CASE ~spoilt /\ tx_busy
    <3>1. UNCHANGED <<tx_busy, ui16LastTxSize, in_ep, ui32LastSent, in_fifo, Used, tx_gone>>
      BY <1>2, <1>3, <2>2
    <3> QED
      BY <1>1, <3>1 DEF IInv, HostOK, PacketAgrees, TransfersClosed
  <2>3. CASE ~spoilt /\ ~tx_busy
    <3>1. /\ in_ep = "empty" /\ ui16LastTxSize = 0 /\ ui32LastSent # IN_PKT
          /\ host_next = tx_gone /\ ~host_open
      BY <1>1, <2>3 DEF IInv, HostOK, PacketAgrees, TransfersClosed
    <3>2. CASE Idle(ui16LastTxSize)
      BY <1>1, <1>2, <3>1, <3>2 DEF Idle, HostOK, PacketAgrees, TransfersClosed
    <3>3. CASE Sends(Used, tx_gone, ui16LastTxSize)
      <4>1. /\ in_ep' = "ready" /\ tx_busy' = TRUE
            /\ ui16LastTxSize' = Len(in_fifo') /\ ui32LastSent' = Len(in_fifo')
            /\ Len(in_fifo') <= Used' /\ in_fifo' # << >>
        <5>1. Len(in_fifo') \in Nat
          BY <1>3, LenProperties DEF EpType
        <5> QED
          BY <1>2, <3>1, <3>3, <5>1 DEF Sends
      <4>2. in_fifo' = [i \in 1 .. Len(in_fifo') |-> host_next' + i - 1]
        BY <1>1, <3>1, <3>3 DEF Sends
      <4> QED
        BY <1>1, <1>2, <3>1, <4>1, <4>2 DEF HostOK, PacketAgrees, TransfersClosed
    <3> QED
      BY <1>3, <2>3, <3>1, <3>2, <3>3
  <2> QED
    BY <1>0, <2>1, <2>2, <2>3
<1> QED
  BY <1>1, <1>2, <1>3, <1>4, <1>5, Collect

-----------------------------------------------------------------------------
(* A session begins.  If it is announced, what is in the ring is dropped.  *)
LEMMA ConfigInv ==
  ASSUME IInv, HandleConfigChange
  PROVE  /\ IInv' /\ UNCHANGED <<tx_written, host_pkt>>
         /\ ~spoilt' =>
              \/ UNCHANGED <<tx_gone, host_next>>
              \/ tx_gone' = tx_written /\ host_next' = tx_written
<1>0. /\ RingType /\ EpType /\ WriteType /\ HostType /\ LinkOK /\ RingContent
      /\ TX_SIZE \in Nat \ {0} /\ Used \in 0 .. TX_SIZE - 1 /\ tx_written \in Nat
      /\ Free = TX_SIZE - Used - 1
  BY TypeParts, UsedType DEF IInv
<1>1. /\ Configure /\ tx_busy' = FALSE /\ in_ep' \in {in_ep, "empty"}
      /\ tx_rd' = IF Announced THEN tx_wr ELSE tx_rd
      /\ host_next' = IF Announced THEN tx_written ELSE host_next
      /\ host_open' = FALSE /\ announced' = Announced
      /\ spoilt' = (spoilt \/ in_ep # "empty")
      /\ UNCHANGED <<tx_buf, tx_wr, ui32LastSent, ui16LastTxSize, in_fifo,
                     wr_pc, wr_left, tx_written, host_pkt>>
  BY DEF HandleConfigChange, wrVars
<1>2. /\ Announced => Used' = 0 /\ tx_gone' = tx_written
      /\ ~Announced => Used' = Used /\ tx_gone' = tx_gone
      /\ Free' = TX_SIZE - Used' - 1
  <2>1. Announced => Used' = 0
    BY <1>0, <1>1 DEF Used, USBRingBufUsed, ring_data_avail, RingType
  <2>2. ~Announced => Used' = Used
    BY <1>1 DEF Used
  <2>3. Free' = TX_SIZE - Used' - 1
    BY <1>1 DEF Free, Used, USBRingBufFree, USBRingBufUsed, ring_space_avail
  <2>4. tx_gone' = tx_written - Used'
    BY <1>1 DEF tx_gone
  <2> QED
    BY <1>0, <2>1, <2>2, <2>3, <2>4 DEF tx_gone
<1>3. RingType' /\ RingContent'
  <2>1. RingType'
    BY <1>0, <1>1 DEF RingType
  <2>2. CASE Announced
    <3>1. Used' = 0 /\ tx_gone' >= 0
      BY <1>0, <1>2, <2>2
    <3> QED
      BY <2>1, <3>1 DEF RingContent
  <2>3. CASE ~Announced
    <3>1. /\ Used' = Used /\ tx_gone' = tx_gone /\ tx_rd' = tx_rd /\ tx_buf' = tx_buf
      BY <1>1, <1>2, <2>3
    <3> QED
      BY <1>0, <2>1, <3>1 DEF RingContent
  <2> QED
    BY <2>1, <2>2, <2>3
<1>4. LinkOK' /\ EpType' /\ WriteType' /\ HostType'
  <2>1. LinkOK'
    BY <1>0, <1>1, LinkAssumption DEF LinkOK, Configure
  <2>2. EpType' /\ WriteType'
    BY <1>0, <1>1 DEF EpType, WriteType
  <2>3. Announced \in BOOLEAN
    BY DEF Announced
  <2>4. HostType'
    BY <1>0, <1>1, <2>3 DEF HostType
  <2> QED
    BY <2>1, <2>2, <2>4
<1>5. WriteOK'
  <2>1. wr_left <= Free => wr_left <= Free'
    BY <1>0, <1>2 DEF WriteType
  <2> QED
    BY <1>1, <2>1 DEF IInv, WriteOK
<1>6. HostOK' /\ PacketAgrees' /\ TransfersClosed'
  <2>1. CASE spoilt'
    BY <2>1 DEF HostOK, PacketAgrees, TransfersClosed
  <2>2. CASE ~spoilt'
    <3>1. ~spoilt /\ in_ep = "empty" /\ in_ep' = "empty"
      BY <1>1, <2>2
    <3>2. host_next = tx_gone /\ ui32LastSent # IN_PKT /\ ui16LastTxSize = 0
      BY <3>1 DEF IInv, HostOK, PacketAgrees
    <3>3. host_next' = tx_gone'
      BY <1>1, <1>2, <3>2
    <3> QED
      BY <1>1, <3>1, <3>2, <3>3 DEF HostOK, PacketAgrees, TransfersClosed
  <2> QED
    BY <2>1, <2>2
<1> QED
  BY <1>1, <1>2, <1>3, <1>4, <1>5, <1>6, Collect

-----------------------------------------------------------------------------
(* Every step of TiTx preserves IInv. *)
LEMMA StepInv == IInv /\ [Next]_vars => IInv'
<1> SUFFICES ASSUME IInv, [Next]_vars PROVE IInv'
  OBVIOUS
<1>1. CASE ProcessDataToHost \/ HostIn
  BY <1>1, CompleteInv, HostInInv
<1>2. CASE MainLoop
  BY <1>2, LookInv, CopyInv, ScheduleInv DEF MainLoop, USBBufferWrite
<1>3. CASE Link
  <2>1. CASE BusReset \/ Disconnect
    <3>1. LinkOK'
      BY <2>1, TypeParts DEF IInv, LinkOK, BusReset, Disconnect, ResetBus, HandleDisconnect
    <3> QED
      BY <2>1, <3>1, LinkInv DEF BusReset, Disconnect
  <2> QED
    BY <1>3, <2>1, ConfigInv DEF Link
<1>4. CASE UNCHANGED vars
  <2>1. LinkOK'
    BY <1>4, TypeParts DEF IInv, LinkOK, vars, linkVars
  <2> QED
    BY <1>4, <2>1, LinkInv DEF vars
<1> QED
  BY <1>1, <1>2, <1>3, <1>4 DEF Next

(* IInv holds in every reachable state, for every buffer size, packet size *)
(* and number of bytes and sessions.                                       *)
THEOREM Invariant == Spec => []IInv
  BY InitInv, StepInv, PTL DEF Spec

(* The variables keep their types: no index leaves the buffer, not even    *)
(* when a completion removes bytes that were never sent.                   *)
THEOREM TypeCorrect == Spec => []TypeOK
<1>1. IInv => TypeOK
  BY DEF IInv
<1> QED
  BY <1>1, Invariant, PTL

(* iCDCTxState, ui16LastTxSize and ui32LastSent agree with the endpoint    *)
(* and the ring, unless a packet was under way when the session began.     *)
THEOREM LayersAgree == Spec => []PacketAgrees
<1>1. IInv => PacketAgrees
  BY DEF IInv
<1> QED
  BY <1>1, Invariant, PTL

(* ScheduleNextTransmission sends an empty packet exactly where the host   *)
(* needs one to see the end of a transfer.                                 *)
THEOREM TransfersAreClosed == Spec => []TransfersClosed
<1>1. IInv => TransfersClosed
  BY DEF IInv
<1> QED
  BY <1>1, Invariant, PTL

(* USBBufferWrite writes all that USBBufferSpaceAvailable has shown to     *)
(* fit, whatever interrupts and sessions come in between.                  *)
THEOREM WritesComplete == Spec => []WriteComplete
<1>1. IInv => WriteComplete
  BY DEF IInv, WriteOK, WriteComplete
<1> QED
  BY <1>1, Invariant, PTL

(* HandleTxComplete removes only what the host has, unless a packet was    *)
(* under way when the session began.                                       *)
THEOREM OnlySentLost == Spec => OnlySpoiltLost
<1>1. IInv /\ [Next]_vars =>
        [ProcessDataToHost /\ ~spoilt => tx_gone' <= host_next]_vars
  <2> SUFFICES ASSUME IInv, ProcessDataToHost, ~spoilt
               PROVE  tx_gone' <= host_next
    OBVIOUS
  <2>1. tx_gone' = host_next /\ host_next \in Nat
    BY CompleteInv, TypeParts DEF IInv, HostType
  <2> QED
    BY <2>1
<1> QED
  BY <1>1, Invariant, PTL DEF Spec, OnlySpoiltLost

-----------------------------------------------------------------------------
(* Every step between states that are not spoilt is a step of the FIFO, or *)
(* none.                                                                   *)

(* Where the host is, in between. *)
LEMMA HostPlace ==
  ASSUME IInv, ~spoilt
  PROVE  /\ Taken = host_next
         /\ tx_gone <= host_next /\ host_next <= tx_written
         /\ tx_written <= tx_gone + TX_SIZE - 1
         /\ {tx_gone, host_next, tx_written, TX_SIZE} \subseteq Nat
<1>1. /\ Used \in 0 .. TX_SIZE - 1 /\ tx_written = tx_gone + Used
      /\ TX_SIZE \in Nat \ {0} /\ tx_written \in Nat /\ tx_gone \in Nat
      /\ host_next \in Nat
      /\ Len(in_fifo) \in Nat
  BY TypeParts, UsedType, FifoLen DEF IInv, RingContent, HostType
<1>2. \/ host_next = tx_gone
      \/ host_next = tx_gone + Len(in_fifo) /\ Len(in_fifo) <= Used
  BY DEF IInv, HostOK
<1>3. tx_gone <= host_next /\ host_next <= tx_written
  BY <1>1, <1>2
<1>4. Taken = host_next
  BY <1>1, <1>3 DEF Taken
<1> QED
  BY <1>1, <1>3, <1>4

LEMMA HostTaken == IInv /\ ~spoilt => Taken = host_next
  BY HostPlace

LEMMA StepRefines ==
  ASSUME IInv, [Next]_vars, ~spoilt, ~spoilt'
  PROVE  [Stream!Next]_(Stream!streamVars)
<1> USE DEF Stream!streamVars
<1>1. IInv'
  BY StepInv
<1>2. /\ Taken = host_next /\ tx_gone <= host_next /\ host_next <= tx_written
      /\ tx_written <= tx_gone + TX_SIZE - 1
      /\ {tx_gone, host_next, tx_written, TX_SIZE} \subseteq Nat
  BY HostPlace
<1>3. Taken' = host_next'
  <2>1. (IInv /\ ~spoilt => Taken = host_next)'
    BY HostTaken, PTL
  <2> QED
    BY <1>1, <2>1
<1>4. CASE ProcessDataToHost
  BY <1>2, <1>3, <1>4, CompleteInv
<1>5. CASE HostIn
  <2>1. PICK n \in 0 .. TX_SIZE - 1 :
              /\ host_next + n <= tx_written
              /\ host_next' = host_next + n
              /\ host_pkt' = [i \in 1 .. n |-> host_next + i - 1]
    BY <1>5, HostInInv
  <2>2. tx_written' = tx_written
    BY <1>5, HostInInv
  <2>3. Stream!Deliver(n)
    BY <1>2, <1>3, <2>1, <2>2 DEF Stream!Deliver
  <2> QED
    BY <2>3 DEF Stream!Next
<1>6. CASE WriteCopy
  <2>1. /\ tx_written' = tx_written + 1 /\ host_next' = host_next /\ host_pkt' = host_pkt
        /\ Used < TX_SIZE - 1
    BY <1>6, CopyInv
  <2>2. tx_written + 1 - host_next <= TX_SIZE - 1 /\ 1 \in 0 .. TX_SIZE - 1
    <3>1. tx_written = tx_gone + Used /\ Used \in Nat
      BY UsedType, TypeParts DEF IInv
    <3> QED
      BY <1>2, <2>1, <3>1
  <2>3. Stream!Accept(1)
    BY <1>2, <1>3, <2>1, <2>2 DEF Stream!Accept
  <2> QED
    BY <2>2, <2>3 DEF Stream!Next
<1>7. CASE WriteFree \/ WriteSchedule \/ \E n \in 1 .. TX_SIZE - 1 : StartWrite(n)
  BY <1>2, <1>3, <1>7, LookInv, ScheduleInv
<1>8. CASE HandleConfigChange
  <2>1. tx_written' = tx_written /\ host_pkt' = host_pkt
    BY <1>8, ConfigInv
  <2>2. CASE UNCHANGED <<tx_gone, host_next>>
    BY <1>2, <1>3, <2>1, <2>2
  <2>3. CASE tx_gone' = tx_written /\ host_next' = tx_written
    <3> DEFINE n == tx_written - host_next
    <3>1. n \in 0 .. TX_SIZE - 1 /\ host_next' = host_next + n
          /\ host_next + n <= tx_written
      BY <1>2, <2>3
    <3>2. Stream!Discard(n)
      BY <1>2, <1>3, <2>1, <3>1 DEF Stream!Discard
    <3> QED
      BY <3>1, <3>2 DEF Stream!Next
  <2> QED
    BY <1>8, <2>2, <2>3, ConfigInv
<1>9. CASE BusReset \/ Disconnect \/ UNCHANGED vars
  BY <1>2, <1>3, <1>9 DEF BusReset, Disconnect, vars, wrVars, hostVars
<1> QED
  BY <1>4, <1>5, <1>6, <1>7, <1>8, <1>9 DEF Next, MainLoop, USBBufferWrite, Link

(* Transmission on TI is a FIFO that holds a ring, except while a packet   *)
(* of a session before is under way.                                       *)
THEOREM Refinement == Spec => ImplementsStream
<1>1. IInv /\ [Next]_vars => [spoilt \/ spoilt' \/ Stream!Next]_(Stream!streamVars)
  BY StepRefines
<1> QED
  BY <1>1, Invariant, PTL DEF Spec, ImplementsStream
=============================================================================
