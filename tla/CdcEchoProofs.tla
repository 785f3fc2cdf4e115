--------------------------- MODULE CdcEchoProofs ---------------------------
(***************************************************************************)
(* The echo application is correct for every size of the two rings and of  *)
(* their packets: IInv is an inductive invariant of CdcEcho, what VCP_Echo *)
(* samples of both rings stays true while it moves bytes between them, and *)
(* CdcEcho implements ByteStream.                                          *)
(***************************************************************************)
EXTENDS CdcEcho, CdcOutProofs, CdcInProofs

USE DEF RingOK

(* Sizes of what there is to read and to write. *)
LEMMA EchoSizes ==
  ASSUME OutInv, InInv
  PROVE  /\ VCP_DataAvail \in 0 .. RX_SIZE - 1 /\ RX_SIZE \in Nat
         /\ VCP_DataAvailContig \in 0 .. VCP_DataAvail
         /\ tx_unsent \in 0 .. TX_SIZE - 1 /\ TX_SIZE \in Nat
         /\ VCP_SpaceAvailContig \in 0 .. VCP_SpaceAvail /\ VCP_SpaceAvail \in Nat
         /\ tx_total \in Nat /\ rx_read \in Nat /\ tx_written \in Nat
<1>1. OutTypeOK /\ OutRingOK /\ InTypeOK
  BY DEF OutInv, InInv
<1>2. /\ VCP_DataAvail \in 0 .. RX_SIZE - 1 /\ RX_SIZE \in Nat
      /\ VCP_DataAvailContig \in 0 .. VCP_DataAvail
  BY <1>1, AvailType, OutAssumption
<1>3. /\ tx_unsent \in 0 .. TX_SIZE - 1 /\ TX_SIZE \in Nat
      /\ VCP_SpaceAvailContig \in 0 .. VCP_SpaceAvail /\ VCP_SpaceAvail \in Nat
  BY <1>1, SpaceType, InAssumption
<1>4. tx_total \in Nat /\ rx_read \in Nat
  BY <1>1 DEF OutTypeOK, InTypeOK
<1> QED
  BY <1>2, <1>3, <1>4 DEF tx_written

(* A step that leaves VCP_Echo alone, brings bytes to the one ring at most *)
(* and takes bytes from the other at most, keeps what VCP_Echo knows.      *)
LEMMA EchoUndisturbed ==
  ASSUME IInv, OutInv', InInv', OutGrows, InDrains, FrameOK', UNCHANGED echoVars
  PROVE  IInv'
<1>1. UNCHANGED <<ec_pc, ec_sz, ec_off>>
  BY DEF echoVars
<1>2. /\ VCP_DataAvailContig \in Nat /\ VCP_SpaceAvailContig \in Nat
      /\ VCP_DataAvailContig' \in Nat /\ VCP_SpaceAvailContig' \in Nat
  <2>1. (OutInv /\ InInv => /\ VCP_DataAvail \in 0 .. RX_SIZE - 1 /\ RX_SIZE \in Nat
                            /\ VCP_DataAvailContig \in 0 .. VCP_DataAvail
                            /\ VCP_SpaceAvailContig \in 0 .. VCP_SpaceAvail
                            /\ VCP_SpaceAvail \in Nat)'
    BY EchoSizes, PTL
  <2> QED
    BY <2>1, EchoSizes DEF IInv
<1>3. /\ VCP_DataAvailContig' >= VCP_DataAvailContig
      /\ VCP_SpaceAvailContig' >= VCP_SpaceAvailContig
      /\ rx_read' = rx_read /\ tx_written' = tx_written
      /\ tx_buf' = tx_buf /\ tx_head' = tx_head
  BY DEF OutGrows, InDrains
<1>4. ProgressOK'
  BY <1>1 DEF IInv, ProgressOK
<1>5. EchoOK'
  <2>1. ec_sz \in Nat
    BY DEF IInv, ProgressOK
  <2>2. \A a, b \in Nat : a <= b /\ ec_sz <= a => ec_sz <= b
    BY <2>1
  <2>3. /\ ec_sz <= VCP_DataAvailContig => ec_sz <= VCP_DataAvailContig'
        /\ ec_sz <= VCP_SpaceAvailContig => ec_sz <= VCP_SpaceAvailContig'
    BY ONLY <1>2, <1>3, <2>2
  <2>4. ec_sz \in 1 .. VCP_DataAvailContig => ec_sz \in 1 .. VCP_DataAvailContig'
    BY <1>2, <2>1, <2>3
  <2> QED
    BY <1>1, <1>3, <2>3, <2>4 DEF IInv, EchoOK
<1> QED
  BY <1>4, <1>5 DEF IInv

(* Every interrupt handler, and the host, preserve IInv. *)
LEMMA HandlerInv ==
  ASSUME IInv, HostOut \/ HostPoll \/ DataOut \/ DataIn \/ TxFifo \/ usbd_cdc_SOF
  PROVE  IInv' /\ OutGrows /\ InDrains
<1> USE DEF IInv
<1>1. UNCHANGED echoVars
  BY DEF HostOut, HostPoll, DataOut, DataIn, TxFifo, usbd_cdc_SOF
<1>2. FrameOK'
  BY FrameAssumption
  DEF HostOut, HostPoll, DataOut, DataIn, TxFifo, usbd_cdc_SOF, RxData, HostIn,
      usbd_cdc_DataOut, usbd_cdc_DataIn, DCD_WriteEmptyTxFifo, CountFrame, FrameDue,
      ProgressOK, FrameOK
<1>3. (OutInv' /\ OutGrows) /\ (InInv' /\ InDrains)
  <2>1. CASE HostOut
    BY <2>1, RxDataInv, InUnchanged DEF HostOut
  <2>2. CASE HostPoll
    BY <2>2, HostInInv, OutUnchanged DEF HostPoll
  <2>3. CASE DataOut
    BY <2>3, DataOutInv, InUnchanged DEF DataOut
  <2>4. CASE DataIn
    BY <2>4, DataInInv, OutUnchanged DEF DataIn
  <2>5. CASE TxFifo
    BY <2>5, TxFifoInv, OutUnchanged DEF TxFifo
  <2>6. CASE usbd_cdc_SOF
    <3>1. CASE FrameDue
      BY <2>6, <3>1, ScheduleInInv, ScheduleOutInv DEF usbd_cdc_SOF
    <3>2. CASE ~FrameDue
      BY <2>6, <3>2, InUnchanged, OutUnchanged DEF usbd_cdc_SOF
    <3> QED
      BY <3>1, <3>2
  <2> QED
    BY <2>1, <2>2, <2>3, <2>4, <2>5, <2>6
<1> QED
  BY <1>1, <1>2, <1>3, EchoUndisturbed

-----------------------------------------------------------------------------
LEMMA InitInv == Init => IInv
<1> SUFFICES ASSUME Init PROVE IInv
  OBVIOUS
<1>1. OutInv /\ InInv
  BY OutInitInv, InInitInv DEF Init
<1>2. ProgressOK
  BY FrameAssumption DEF Init, ProgressOK, FrameInit, FrameOK
<1>3. tx_written = rx_read
  BY InAssumption DEF Init, OutInit, InInit, tx_written, tx_unsent, ring_data_avail
<1>4. EchoOK
  <2>1. ec_pc = "data" /\ rx_read = 0
    BY DEF Init, OutInit
  <2> QED
    BY <1>3, <2>1 DEF EchoOK
<1> QED
  BY <1>1, <1>2, <1>4 DEF IInv

(* The samples of VCP_Echo. *)
LEMMA LookInv ==
  ASSUME IInv, frame_count' = frame_count, EchoData \/ EchoSpace
  PROVE  IInv'
<1> USE DEF IInv
<1>1. UNCHANGED outVars /\ UNCHANGED inVars
  BY DEF EchoData, EchoSpace
<1>2. /\ OutInv' /\ InInv'
      /\ VCP_DataAvailContig' = VCP_DataAvailContig
      /\ VCP_SpaceAvailContig' = VCP_SpaceAvailContig
      /\ tx_written' = tx_written /\ rx_read' = rx_read
  BY <1>1, InUnchanged, OutUnchanged
  DEF outVars, ringVars, inVars, inRingVars, VCP_DataAvailContig, VCP_SpaceAvailContig,
      tx_written, tx_unsent
<1>3. VCP_DataAvailContig \in Nat /\ VCP_SpaceAvailContig \in Nat
  BY EchoSizes
<1>4. tx_written = rx_read + (IF ec_pc = "read" THEN ec_sz ELSE 0)
  BY DEF EchoOK
<1>5. rx_read \in Nat
  BY EchoSizes
<1>6. CASE EchoData
  <2>1. /\ ec_pc = "data" /\ ec_pc' = "space"
        /\ ec_sz' = VCP_DataAvailContig /\ ec_off' = 0
    BY <1>6 DEF EchoData
  <2>2. ProgressOK'
    BY <1>3, <2>1 DEF ProgressOK, FrameOK
  <2>3. EchoOK'
    BY <1>2, <1>3, <1>4, <2>1 DEF EchoOK
  <2> QED
    BY <1>2, <2>2, <2>3
<1>7. CASE EchoSpace
  <2>1. /\ ec_pc = "space" /\ ec_off' = ec_off
        /\ ec_sz' = IF ec_sz < VCP_SpaceAvailContig THEN ec_sz ELSE VCP_SpaceAvailContig
        /\ ec_pc' = IF ec_sz' = 0 THEN "data" ELSE "copy"
    BY <1>7 DEF EchoSpace, MIN_
  <2>2. /\ ec_sz \in Nat /\ ec_sz <= VCP_DataAvailContig /\ ec_off = 0
    BY <2>1 DEF ProgressOK, EchoOK
  <2>3. /\ ec_sz' \in Nat /\ ec_sz' <= VCP_DataAvailContig
        /\ ec_sz' <= VCP_SpaceAvailContig
    BY <1>3, <2>1, <2>2
  <2>4. ProgressOK'
    BY <2>1, <2>2, <2>3 DEF ProgressOK, FrameOK
  <2>5. EchoOK'
    BY <1>2, <1>3, <1>4, <2>1, <2>2, <2>3 DEF EchoOK
  <2> QED
    BY <1>2, <2>4, <2>5
<1> QED
  BY <1>6, <1>7

(* A byte is moved from the one ring to the space sampled in the other. *)
LEMMA CopyInv ==
  ASSUME IInv, MainRuns, frame_count' = frame_count, EchoCopy
  PROVE  IInv' /\ tx_written' = tx_written
<1> USE DEF IInv
<1>1. /\ ec_pc = "copy"
      /\ tx_buf' = [tx_buf EXCEPT ![tx_head + ec_off] = rx_buf[rx_tail + ec_off]]
      /\ ec_off' = ec_off + 1
      /\ ec_pc' = IF ec_off' = ec_sz THEN "written" ELSE "copy"
      /\ ec_sz' = ec_sz /\ UNCHANGED outVars
      /\ UNCHANGED <<inRingVars, inEpVars, hostVars>>
  BY DEF EchoCopy
<1>2. /\ ec_off \in Nat /\ ec_sz \in Nat /\ ec_off < ec_sz
      /\ ec_sz \in 1 .. VCP_DataAvailContig /\ ec_sz <= VCP_SpaceAvailContig
      /\ \A j \in 0 .. ec_off - 1 : tx_buf[tx_head + j] = tx_written + j
      /\ tx_written = rx_read
  <2>1. /\ ec_off \in Nat /\ ec_sz \in Nat /\ ec_off < ec_sz
    BY <1>1 DEF ProgressOK
  <2>2. tx_written = rx_read
    BY <1>1, EchoSizes DEF EchoOK
  <2> QED
    BY <1>1, <2>1, <2>2 DEF EchoOK
<1>3. /\ VCP_DataAvailContig \in Nat /\ VCP_SpaceAvailContig \in Nat
      /\ rx_read \in Nat /\ tx_head \in Nat /\ TX_SIZE \in Nat
      /\ tx_buf \in [0 .. TX_SIZE - 1 -> Nat \cup {BLANK}]
  BY EchoSizes DEF InInv, InTypeOK
<1>4. rx_buf[rx_tail + ec_off] = tx_written + ec_off /\ tx_written + ec_off \in Nat
  <2>1. ec_off \in 0 .. VCP_DataAvailContig - 1
    BY <1>2, <1>3
  <2> QED
    BY <1>2, <1>3, <2>1, ContigByte
<1>5. /\ InInv' /\ tx_unsent' = tx_unsent
      /\ tx_head + ec_off \in 0 .. TX_SIZE - 1
  <2>1. ec_off \in 0 .. VCP_SpaceAvailContig - 1
    BY <1>2, <1>3
  <2> QED
    BY <1>1, <1>4, <2>1, WriteByteInv
<1>6. OutInv'
  BY <1>1, OutUnchanged
<1>7. /\ tx_head' = tx_head /\ tx_written' = tx_written /\ rx_read' = rx_read
      /\ VCP_SpaceAvailContig' = VCP_SpaceAvailContig
      /\ VCP_DataAvailContig' = VCP_DataAvailContig
  BY <1>1, <1>5 DEF outVars, ringVars, inRingVars, tx_written, VCP_SpaceAvailContig,
                    VCP_DataAvailContig
<1>8. ProgressOK'
  BY <1>1, <1>2 DEF ProgressOK, FrameOK
<1>9. EchoOK'
  <2>1. ASSUME NEW j \in 0 .. ec_off' - 1
        PROVE  tx_buf'[tx_head' + j] = tx_written' + j
    <3>1. CASE j = ec_off
      <4>1. tx_buf'[tx_head + ec_off] = tx_written + ec_off
        BY ONLY <1>1, <1>3, <1>4, <1>5
      <4> QED
        BY <1>7, <3>1, <4>1
    <3>2. CASE j # ec_off
      <4>1. j \in 0 .. ec_off - 1 /\ tx_head + j # tx_head + ec_off
        BY <1>1, <1>2, <1>3, <3>2
      <4>2. tx_head + j \in 0 .. TX_SIZE - 1
        BY <1>2, <1>3, <1>5, <4>1
      <4>3. tx_buf'[tx_head + j] = tx_buf[tx_head + j]
        BY ONLY <1>1, <1>3, <4>1, <4>2
      <4> QED
        BY <1>2, <1>7, <4>1, <4>3
    <3> QED
      BY <3>1, <3>2
  <2>2. /\ ec_sz' \in 1 .. VCP_DataAvailContig' /\ ec_sz' <= VCP_SpaceAvailContig'
        /\ ec_off' <= ec_sz' /\ ec_pc' \in {"copy", "written"}
    BY <1>1, <1>2, <1>3, <1>7
  <2>3. tx_written' = rx_read' + 0
    BY <1>2, <1>3, <1>7
  <2>4. ec_pc' # "space" /\ ec_pc' # "read"
    BY <1>1
  <2> QED
    BY ONLY <2>1, <2>2, <2>3, <2>4 DEF EchoOK
<1> QED
  BY <1>5, <1>6, <1>7, <1>8, <1>9

(* VCP_MarkWritten, then VCP_MarkRead, with interrupts between them. *)
LEMMA MarkInv ==
  ASSUME IInv, MainRuns, frame_count' = frame_count, EchoWritten \/ EchoRead
  PROVE  IInv'
<1> USE DEF IInv
<1>1. /\ VCP_DataAvailContig \in 0 .. VCP_DataAvail /\ VCP_DataAvail \in Nat
      /\ VCP_SpaceAvailContig \in Nat /\ ec_sz \in Nat /\ rx_read \in Nat
  BY EchoSizes DEF ProgressOK
<1>2. CASE EchoWritten
  <2>1. /\ ec_pc = "written" /\ ec_pc' = "read" /\ VCP_MarkWritten(ec_sz)
        /\ ec_sz' = ec_sz /\ ec_off' = ec_off /\ UNCHANGED outVars
    BY <1>2 DEF EchoWritten
  <2>2. /\ ec_off = ec_sz /\ ec_sz \in 1 .. VCP_DataAvailContig
        /\ ec_sz <= VCP_SpaceAvailContig
        /\ \A j \in 0 .. ec_sz - 1 : tx_buf[tx_head + j] = tx_written + j
        /\ tx_written = rx_read
    <3>1. ec_off = ec_sz /\ tx_written = rx_read
      BY <1>1, <2>1 DEF ProgressOK, EchoOK
    <3> QED
      BY <2>1, <3>1 DEF EchoOK
  <2>3. InInv' /\ tx_written' = tx_written + ec_sz
    <3>1. ec_sz \in 0 .. VCP_SpaceAvailContig
      BY <1>1, <2>2
    <3> QED
      BY <2>1, <2>2, <3>1, MarkWrittenInv
  <2>4. /\ OutInv' /\ VCP_DataAvailContig' = VCP_DataAvailContig /\ rx_read' = rx_read
    BY <2>1, OutUnchanged DEF outVars, ringVars, VCP_DataAvailContig
  <2>5. ProgressOK' /\ EchoOK'
    BY <2>1, <2>2, <2>3, <2>4 DEF ProgressOK, EchoOK, FrameOK
  <2> QED
    BY <2>3, <2>4, <2>5
<1>3. CASE EchoRead
  <2>1. /\ ec_pc = "read" /\ ec_pc' = "data" /\ VCP_MarkRead(ec_sz)
        /\ ec_sz' = ec_sz /\ ec_off' = ec_off /\ UNCHANGED inVars
    BY <1>3 DEF EchoRead
  <2>2. ec_sz \in 0 .. VCP_DataAvail /\ tx_written = rx_read + ec_sz
    BY <1>1, <2>1 DEF EchoOK
  <2>3. OutInv' /\ rx_read' = rx_read + ec_sz
    BY <2>1, <2>2, MarkReadInv DEF VCP_MarkRead
  <2>4. InInv' /\ tx_written' = tx_written
    BY <2>1, InUnchanged DEF InDrains
  <2>5. ProgressOK'
    BY <2>1 DEF ProgressOK, FrameOK
  <2>6. EchoOK'
    <3>1. tx_written' = rx_read' + 0
      BY <1>1, <2>2, <2>3, <2>4
    <3> QED
      BY <2>1, <3>1 DEF EchoOK
  <2> QED
    BY <2>3, <2>4, <2>5, <2>6
<1> QED
  BY <1>2, <1>3

-----------------------------------------------------------------------------
(* Every step of CdcEcho preserves IInv. *)
LEMMA StepInv == IInv /\ [Next]_vars => IInv'
<1> SUFFICES ASSUME IInv, [Next]_vars PROVE IInv'
  OBVIOUS
<1>1. CASE HostOut \/ HostPoll \/ DataOut \/ DataIn \/ TxFifo \/ usbd_cdc_SOF
  BY <1>1, HandlerInv
<1>2. CASE VCP_Echo
  BY <1>2, LookInv, CopyInv, MarkInv DEF VCP_Echo
<1>3. CASE UNCHANGED vars
  BY <1>3, InUnchanged, OutUnchanged, EchoUndisturbed DEF vars, IInv, ProgressOK, FrameOK
<1> QED
  BY <1>1, <1>2, <1>3 DEF Next

(* IInv holds in every reachable state, whatever the sizes of the rings    *)
(* and of the packets.                                                     *)
THEOREM Invariant == Spec => []IInv
  BY InitInv, StepInv, PTL DEF Spec

(* What VCP_Echo sampled of both rings stays true under every interrupt,   *)
(* and what it has marked written and what it has marked read keep step.   *)
THEOREM EchoSound == Spec => []EchoOK
<1>1. IInv => EchoOK
  BY DEF IInv
<1> QED
  BY <1>1, Invariant, PTL

-----------------------------------------------------------------------------
(* What the two rings and the two endpoints hold at most. *)
LEMMA Held ==
  ASSUME IInv
  PROVE  /\ rx_accepted \in Nat /\ host_total \in Nat /\ tx_total \in Nat
         /\ host_total <= tx_total /\ tx_total <= rx_accepted
         /\ rx_accepted - host_total <= RX_SIZE - 1 + TX_SIZE - 1 + IN_PKT
         /\ rx_read - host_total <= TX_SIZE - 1 + IN_PKT
         /\ rx_read \in Nat /\ RX_SIZE \in Nat \ {0} /\ TX_SIZE \in Nat \ {0} /\ IN_PKT \in Nat
<1>1. /\ VCP_DataAvailContig <= VCP_DataAvail /\ VCP_DataAvail \in Nat
      /\ tx_unsent \in 0 .. TX_SIZE - 1 /\ VCP_DataAvailContig \in Nat
  BY EchoSizes DEF IInv
<1>2. /\ rx_accepted - rx_read \in VCP_DataAvail .. RX_SIZE - 1
      /\ rx_accepted \in Nat /\ rx_read \in Nat
  BY Bounded DEF IInv, rx_accepted, OutInv, OutTypeOK
<1>3. /\ host_total \in Nat /\ tx_total \in Nat /\ tx_total - host_total \in 0 .. IN_PKT
  BY OnePacketAhead DEF IInv
<1>4. /\ rx_read <= tx_total + tx_unsent
      /\ tx_total + tx_unsent <= rx_read + VCP_DataAvail
  BY <1>1, <1>2 DEF IInv, EchoOK, ProgressOK, tx_written
<1> QED
  BY <1>1, <1>2, <1>3, <1>4, OutAssumption, InAssumption

(* Every step is a step of the FIFO, or none. *)
LEMMA StepRefines ==
  ASSUME IInv, IInv', [Next]_vars
  PROVE  [Stream!Next]_(Stream!streamVars)
<1> USE DEF Stream!streamVars
<1>1. /\ rx_accepted \in Nat /\ host_total \in Nat /\ tx_total \in Nat
      /\ host_total <= tx_total /\ tx_total <= rx_accepted
      /\ rx_read - host_total <= TX_SIZE - 1 + IN_PKT
      /\ RX_SIZE \in Nat \ {0} /\ TX_SIZE \in Nat \ {0} /\ IN_PKT \in Nat
  BY Held
<1>2. CASE HostPoll
  <2>1. /\ host_pkt' = [i \in 1 .. tx_len |-> host_total + i - 1]
        /\ host_total' = host_total + tx_len /\ host_total = tx_total - tx_len
        /\ tx_len \in 0 .. IN_PKT
    BY <1>2, HostInInv DEF HostPoll, IInv, InInv, InTypeOK
  <2>2. rx_accepted' = rx_accepted
    BY <1>2 DEF HostPoll, outVars, epVars, rx_accepted
  <2>3. host_total + tx_len <= rx_accepted
    BY <1>1, <2>1
  <2>4. Stream!Deliver(tx_len)
    BY <2>1, <2>2, <2>3 DEF Stream!Deliver
  <2>5. tx_len \in 0 .. RX_SIZE - 1 + TX_SIZE - 1 + IN_PKT
    BY <1>1, <2>1
  <2> QED
    BY <2>4, <2>5 DEF Stream!Next
<1>3. CASE HostOut \/ DataOut \/ usbd_cdc_SOF
  <2> DEFINE n == rx_accepted' - rx_accepted
  <2>1. OutGrows
    BY <1>3, HandlerInv
  <2>2. UNCHANGED <<host_pkt, host_total>>
    BY <1>3 DEF HostOut, DataOut, usbd_cdc_SOF, schedule_cdc_in, inVars, hostVars
  <2>3. rx_accepted' \in Nat
    <3>1. (IInv => rx_accepted \in Nat)'
      BY Held, PTL
    <3> QED
      BY <3>1
  <2>4. /\ n \in 0 .. RX_SIZE - 1 + TX_SIZE - 1 + IN_PKT
        /\ rx_accepted + n - host_total <= RX_SIZE - 1 + TX_SIZE - 1 + IN_PKT
        /\ rx_accepted' = rx_accepted + n
    <3>1. /\ rx_accepted' >= rx_accepted
          /\ rx_accepted' - rx_read <= RX_SIZE - 1 /\ rx_read \in Nat
          /\ rx_accepted >= rx_read
      BY <2>1, Held, Bounded, EchoSizes DEF OutGrows, IInv
    <3>2. \A a, b, r, h, x, y, p \in Nat :
            b >= a /\ a >= r /\ b - r <= x - 1 /\ r - h <= y - 1 + p /\ y # 0 =>
              /\ b - a \in 0 .. x - 1 + y - 1 + p
              /\ a + (b - a) - h <= x - 1 + y - 1 + p
              /\ b = a + (b - a)
      OBVIOUS
    <3> HIDE DEF rx_accepted
    <3> QED
      BY <1>1, <2>3, <3>1, <3>2
  <2>5. Stream!Accept(n)
    BY <2>2, <2>4 DEF Stream!Accept
  <2> QED
    BY <2>4, <2>5 DEF Stream!Next
<1>4. CASE DataIn \/ TxFifo
  <2>1. UNCHANGED outVars /\ UNCHANGED <<host_pkt, host_total>>
    BY <1>4 DEF DataIn, TxFifo, usbd_cdc_DataIn, DCD_WriteEmptyTxFifo, hostVars
  <2> QED
    BY <2>1 DEF outVars, epVars, rx_accepted
<1>5. CASE VCP_Echo \/ UNCHANGED vars
  <2>1. UNCHANGED <<host_pkt, host_total>>
    BY <1>5 DEF VCP_Echo, EchoData, EchoSpace, EchoCopy, EchoWritten, EchoRead,
                VCP_MarkWritten, vars, inVars, hostVars
  <2>2. UNCHANGED <<rx_total, rx_ep, rx_cnt>>
    BY <1>5 DEF VCP_Echo, EchoData, EchoSpace, EchoCopy, EchoWritten, EchoRead,
                VCP_MarkRead, vars, outVars, epVars
  <2> QED
    BY <2>1, <2>2 DEF rx_accepted
<1> QED
  BY <1>2, <1>3, <1>4, <1>5 DEF Next

(* The echo is a FIFO that holds both rings and one packet. *)
THEOREM Refinement == Spec => ImplementsStream
<1>1. Init => Stream!Init
  BY DEF Init, OutInit, InInit, Stream!Init, rx_accepted
<1>2. IInv /\ IInv' /\ [Next]_vars => [Stream!Next]_(Stream!streamVars)
  BY StepRefines
<1> QED
  BY <1>1, <1>2, Invariant, PTL DEF Spec, ImplementsStream, Stream!Spec
=============================================================================
