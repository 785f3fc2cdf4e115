---------------------------- MODULE CdcTxProofs -----------------------------
(***************************************************************************)
(* Transmission is correct for every ring size, packet size and write      *)
(* length: IInv is an inductive invariant of CdcTx, and from it follow the *)
(* type invariant, that packets are whole, that transfers are closed, the  *)
(* completeness of VCP_Put, and that CdcTx implements ByteStream.          *)
(***************************************************************************)
EXTENDS CdcTx, CdcInProofs

(* A step that leaves the writer alone and only makes room keeps what the  *)
(* writer knows.                                                           *)
LEMMA WriterUndisturbed ==
  ASSUME InInv, WrTypeOK, SpaceOK, ProgressOK, PutComplete,
         InDrains, InInv', UNCHANGED wrVars, FrameOK'
  PROVE  WrTypeOK' /\ SpaceOK' /\ ProgressOK' /\ PutComplete'
<1>1. UNCHANGED <<wr_pc, wr_want, wr_sz, wr_off, wr_ret, wr_seen>>
  BY DEF wrVars
<1>2. /\ VCP_SpaceAvail \in Nat /\ VCP_SpaceAvailContig \in Nat
      /\ VCP_SpaceAvail' \in Nat /\ VCP_SpaceAvailContig' \in Nat
  <2>1. InTypeOK /\ InTypeOK'
    BY DEF InInv
  <2>2. (InTypeOK => /\ VCP_SpaceAvail \in 0 .. TX_SIZE - 1
                     /\ VCP_SpaceAvailContig \in 0 .. VCP_SpaceAvail)'
    BY SpaceType, PTL
  <2>3. TX_SIZE \in Nat
    BY InAssumption
  <2> QED
    BY <2>1, <2>2, <2>3, SpaceType
<1>3. WrTypeOK'
  BY <1>1 DEF WrTypeOK
<1>4. SpaceOK'
  BY <1>1, <1>2 DEF SpaceOK, WrTypeOK, InDrains
<1>5. ProgressOK'
  <2>1. /\ VCP_SpaceAvail' >= VCP_SpaceAvail /\ tx_head' = tx_head
        /\ wr_ret \in Nat /\ wr_seen \in Nat /\ wr_want \in Nat /\ wr_sz \in Nat
    BY InAssumption DEF InDrains, WrTypeOK
  <2>2. \A a, b, c, d \in Nat : c <= d /\ a <= b + c => a <= b + d
    OBVIOUS
  <2>3. wr_seen <= VCP_SpaceAvail => wr_seen <= VCP_SpaceAvail'
    <3>1. \A a, b, c \in Nat : b <= c /\ a <= b => a <= c
      OBVIOUS
    <3> QED
      BY ONLY <1>2, <2>1, <3>1
  <2>4. wr_seen <= wr_ret + VCP_SpaceAvail => wr_seen <= wr_ret + VCP_SpaceAvail'
    BY ONLY <1>2, <2>1, <2>2
  <2> QED
    BY <1>1, <2>1, <2>3, <2>4 DEF ProgressOK
<1>6. PutComplete'
  BY <1>1 DEF PutComplete
<1> QED
  BY <1>3, <1>4, <1>5, <1>6

LEMMA FrameInv ==
  ASSUME FrameOK, CountFrame
  PROVE  FrameOK'
  BY FrameAssumption DEF FrameOK, CountFrame, FrameDue

(* Every interrupt handler, and the host, preserve IInv and make room at   *)
(* most.                                                                   *)
LEMMA HandlerInv ==
  ASSUME IInv, DataIn \/ TxFifo \/ Host \/ usbd_cdc_SOF
  PROVE  IInv' /\ InDrains /\ UNCHANGED wrVars
<1> USE DEF IInv
<1>1. UNCHANGED wrVars
  BY DEF DataIn, TxFifo, Host, usbd_cdc_SOF
<1>2. FrameOK'
  BY FrameInv DEF DataIn, TxFifo, Host, usbd_cdc_SOF, usbd_cdc_DataIn,
                  DCD_WriteEmptyTxFifo, HostIn, WrTypeOK, FrameOK
<1>3. InInv' /\ InDrains
  <2>1. CASE DataIn
    BY <2>1, DataInInv DEF DataIn
  <2>2. CASE TxFifo
    BY <2>2, TxFifoInv DEF TxFifo
  <2>3. CASE Host
    BY <2>3, HostInInv DEF Host
  <2>4. CASE usbd_cdc_SOF
    <3>1. CASE FrameDue
      BY <2>4, <3>1, ScheduleInInv DEF usbd_cdc_SOF
    <3>2. CASE ~FrameDue
      BY <2>4, <3>2, InUnchanged DEF usbd_cdc_SOF
    <3> QED
      BY <3>1, <3>2
  <2> QED
    BY <2>1, <2>2, <2>3, <2>4
<1> QED
  BY <1>1, <1>2, <1>3, WriterUndisturbed

-----------------------------------------------------------------------------
LEMMA InitInv == Init => IInv
<1> SUFFICES ASSUME Init PROVE IInv
  OBVIOUS
<1>1. InInv
  BY InInitInv DEF Init
<1>2. WrTypeOK /\ SpaceOK /\ ProgressOK /\ PutComplete
  BY TxAssumption, InAssumption, FrameAssumption
  DEF Init, WrTypeOK, SpaceOK, ProgressOK, PutComplete, FrameInit, FrameOK
<1> QED
  BY <1>1, <1>2 DEF IInv

(* The samples of the main loop. *)
LEMMA LookInv ==
  ASSUME IInv, (\E n \in 1 .. MaxWrite : StartPut(n)) \/ PutSpace
  PROVE  IInv'
<1> USE TxAssumption DEF IInv
<1>1. UNCHANGED inVars /\ frame_count' = frame_count
  BY DEF StartPut, PutSpace
<1>2. /\ InInv' /\ UNCHANGED <<tx_buf, tx_head, tx_tail>>
      /\ VCP_SpaceAvail' = VCP_SpaceAvail /\ VCP_SpaceAvailContig' = VCP_SpaceAvailContig
      /\ tx_written' = tx_written
  BY <1>1, InUnchanged
  DEF inVars, inRingVars, VCP_SpaceAvail, VCP_SpaceAvailContig, tx_written, tx_unsent
<1>3. /\ VCP_SpaceAvail \in 0 .. TX_SIZE - 1 /\ TX_SIZE \in Nat
      /\ VCP_SpaceAvailContig \in 0 .. VCP_SpaceAvail
  BY SpaceType, InAssumption DEF InInv
<1>4. ASSUME NEW n \in 1 .. MaxWrite, StartPut(n)
      PROVE  WrTypeOK' /\ SpaceOK' /\ ProgressOK' /\ PutComplete'
  BY <1>4, <1>1, <1>2, <1>3
  DEF StartPut, WrTypeOK, SpaceOK, ProgressOK, PutComplete, FrameOK
<1>5. ASSUME PutSpace
      PROVE  WrTypeOK' /\ SpaceOK' /\ ProgressOK' /\ PutComplete'
  <2>1. /\ wr_pc = "space" /\ wr_off' = 0
        /\ wr_sz' = IF VCP_SpaceAvailContig < wr_want THEN VCP_SpaceAvailContig ELSE wr_want
        /\ wr_pc' = IF wr_sz' = 0 THEN "idle" ELSE "copy"
        /\ UNCHANGED <<wr_want, wr_ret, wr_seen>>
    BY <1>5 DEF PutSpace, MIN_
  <2>2. /\ VCP_SpaceAvailContig = VCP_SpaceAvail \/ tx_head + VCP_SpaceAvailContig = TX_SIZE
        /\ tx_head = 0 => VCP_SpaceAvailContig = VCP_SpaceAvail
        /\ VCP_SpaceAvailContig = 0 => VCP_SpaceAvail = 0
    BY InAssumption
    DEF VCP_SpaceAvail, VCP_SpaceAvailContig, ring_space_avail, ring_space_contig,
        ring_data_avail, InInv, InTypeOK, RingOK
  <2>3. WrTypeOK'
    BY <1>1, <1>3, <2>1 DEF WrTypeOK, FrameOK
  <2>4. SpaceOK'
    BY <1>2, <1>3, <2>1 DEF WrTypeOK, SpaceOK
  <2>5. ProgressOK'
    BY <1>2, <1>3, <2>1, <2>2 DEF WrTypeOK, ProgressOK
  <2>6. PutComplete'
    <3>1. CASE wr_sz' # 0
      BY <2>1, <3>1 DEF PutComplete
    <3>2. CASE wr_sz' = 0 /\ wr_want # 0
      BY <1>3, <2>1, <2>2, <3>2 DEF WrTypeOK, ProgressOK, PutComplete
    <3>3. CASE wr_want = 0
      BY <2>1, <3>3 DEF PutComplete
    <3> QED
      BY <3>1, <3>2, <3>3
  <2> QED
    BY <2>3, <2>4, <2>5, <2>6
<1> QED
  BY <1>2, <1>4, <1>5

(* A byte is copied to the space sampled. *)
LEMMA CopyInv ==
  ASSUME IInv, PutCopy
  PROVE  IInv' /\ tx_written' = tx_written
<1> USE DEF IInv
<1>1. /\ MainRuns /\ wr_pc = "copy"
      /\ tx_buf' = [tx_buf EXCEPT ![tx_head + wr_off] = tx_written + wr_off]
      /\ wr_off' = wr_off + 1
      /\ wr_pc' = IF wr_off' = wr_sz THEN "mark" ELSE "copy"
      /\ UNCHANGED <<wr_want, wr_sz, wr_ret, wr_seen, frame_count>>
      /\ UNCHANGED <<inRingVars, inEpVars, hostVars>>
  BY DEF PutCopy
<1>2. /\ wr_off \in Nat /\ wr_sz \in Nat /\ wr_off < wr_sz
      /\ wr_sz \in 1 .. wr_want /\ wr_sz <= VCP_SpaceAvailContig
      /\ \A j \in 0 .. wr_off - 1 : tx_buf[tx_head + j] = tx_written + j
  BY <1>1 DEF SpaceOK, WrTypeOK
<1>3. /\ VCP_SpaceAvail \in Nat /\ VCP_SpaceAvailContig \in Nat
      /\ tx_total \in Nat /\ tx_unsent \in Nat /\ tx_head \in Nat
      /\ tx_buf \in [0 .. TX_SIZE - 1 -> Nat \cup {BLANK}]
  BY SpaceType, InAssumption DEF InInv, InTypeOK, RingOK
<1>4. wr_off \in 0 .. VCP_SpaceAvailContig - 1 /\ tx_written + wr_off \in Nat
  BY <1>2, <1>3 DEF tx_written
<1>5. /\ InInv' /\ tx_unsent' = tx_unsent
      /\ tx_head + wr_off \in 0 .. TX_SIZE - 1
  BY <1>1, <1>4, WriteByteInv
<1>6. /\ tx_head' = tx_head /\ tx_tail' = tx_tail /\ tx_total' = tx_total
      /\ tx_written' = tx_written
      /\ VCP_SpaceAvail' = VCP_SpaceAvail
      /\ VCP_SpaceAvailContig' = VCP_SpaceAvailContig
  BY <1>1, <1>5 DEF inRingVars, tx_written, VCP_SpaceAvail, VCP_SpaceAvailContig
<1>7. WrTypeOK'
  BY <1>1, <1>2, TxAssumption DEF WrTypeOK, FrameOK
<1>8. SpaceOK'
  <2>1. ASSUME NEW j \in 0 .. wr_off' - 1
        PROVE  tx_buf'[tx_head' + j] = tx_written' + j
    <3>1. CASE j = wr_off
      <4>1. tx_buf'[tx_head + wr_off] = tx_written + wr_off
        BY ONLY <1>1, <1>3, <1>5
      <4> QED
        BY <1>6, <3>1, <4>1
    <3>2. CASE j # wr_off
      <4>1. j \in 0 .. wr_off - 1 /\ tx_head + j # tx_head + wr_off
        BY <1>1, <1>2, <1>3, <3>2
      <4>2. tx_buf'[tx_head + j] = tx_buf[tx_head + j]
        <5>1. tx_head + j \in 0 .. TX_SIZE - 1
          BY <1>2, <1>3, <1>5, <4>1, InAssumption
        <5> QED
          BY ONLY <1>1, <1>3, <4>1, <5>1
      <4> QED
        BY <1>2, <1>6, <4>1, <4>2
    <3> QED
      BY <3>1, <3>2
  <2>2. /\ wr_off' \in 0 .. wr_sz' /\ wr_pc' = "copy" <=> wr_off' < wr_sz'
        /\ wr_sz' \in 1 .. wr_want' /\ wr_sz' <= VCP_SpaceAvailContig'
    BY <1>1, <1>2, <1>6
  <2> QED
    BY <1>1, <2>1, <2>2 DEF SpaceOK
<1>9. ProgressOK' /\ PutComplete'
  BY <1>1, <1>6 DEF ProgressOK, PutComplete
<1> QED
  BY <1>5, <1>6, <1>7, <1>8, <1>9

(* What has been copied is published. *)
LEMMA MarkInv ==
  ASSUME IInv, PutMark
  PROVE  IInv' /\ tx_written' = tx_written + wr_sz /\ wr_sz \in 1 .. TX_SIZE - 1
<1> USE DEF IInv
<1>1. /\ MainRuns /\ wr_pc = "mark" /\ VCP_MarkWritten(wr_sz)
      /\ wr_want' = wr_want - wr_sz /\ wr_ret' = wr_ret + wr_sz
      /\ wr_pc' = IF wr_ret = 0 /\ wr_want # wr_sz THEN "space" ELSE "idle"
      /\ UNCHANGED <<wr_sz, wr_off, wr_seen, frame_count>>
  BY DEF PutMark, SecondPiece
<1>2. /\ wr_off = wr_sz /\ wr_sz \in 1 .. wr_want /\ wr_sz <= VCP_SpaceAvailContig
      /\ \A j \in 0 .. wr_sz - 1 : tx_buf[tx_head + j] = tx_written + j
  BY <1>1 DEF SpaceOK, WrTypeOK
<1>3. /\ VCP_SpaceAvail \in 0 .. TX_SIZE - 1 /\ TX_SIZE \in Nat
      /\ VCP_SpaceAvailContig \in 0 .. VCP_SpaceAvail
  BY SpaceType, InAssumption DEF InInv
<1>4. wr_sz \in 0 .. VCP_SpaceAvailContig /\ wr_sz \in 1 .. TX_SIZE - 1
  BY <1>2, <1>3 DEF WrTypeOK
<1>5. /\ InInv' /\ tx_written' = tx_written + wr_sz
      /\ VCP_SpaceAvail' = VCP_SpaceAvail - wr_sz
      /\ tx_head + wr_sz = TX_SIZE => tx_head' = 0
  BY <1>1, <1>2, <1>4, MarkWrittenInv
<1>6. wr_want + wr_ret <= MaxWrite
  BY DEF ProgressOK
<1>7. WrTypeOK'
  BY <1>1, <1>2, <1>6, TxAssumption DEF WrTypeOK, FrameOK
<1>8. SpaceOK'
  BY <1>1 DEF SpaceOK
<1>9. /\ wr_want' + wr_ret' <= MaxWrite /\ wr_ret' # 0
      /\ wr_want # wr_sz => wr_sz < wr_want
  BY <1>1, <1>2, <1>6 DEF WrTypeOK
<1>10. wr_want # wr_sz =>
         \/ wr_seen <= wr_ret + wr_sz
         \/ wr_ret = 0 /\ tx_head + wr_sz = TX_SIZE
  BY <1>1, <1>9 DEF ProgressOK
<1>11. ProgressOK'
  <2>1. CASE wr_pc' = "idle"
    BY <1>9, <2>1 DEF ProgressOK
  <2>2. CASE wr_pc' = "space" /\ wr_seen <= wr_ret + wr_sz
    BY <1>1, <1>9, <2>2 DEF ProgressOK
  <2>3. CASE wr_pc' = "space" /\ wr_ret = 0 /\ tx_head + wr_sz = TX_SIZE
    <3>1. wr_seen <= VCP_SpaceAvail
      BY <1>1, <2>3 DEF ProgressOK
    <3>2. wr_seen' <= wr_ret' + VCP_SpaceAvail' /\ tx_head' = 0
      BY <1>1, <1>3, <1>4, <1>5, <2>3, <3>1 DEF WrTypeOK
    <3> QED
      BY <1>9, <2>3, <3>2 DEF ProgressOK
  <2> QED
    BY <1>1, <1>10, <2>1, <2>2, <2>3
<1>12. PutComplete'
  <2>1. CASE wr_want = wr_sz
    BY <1>1, <1>2, <2>1 DEF PutComplete, WrTypeOK
  <2>2. CASE wr_want # wr_sz /\ wr_ret = 0
    BY <1>1, <2>2 DEF PutComplete
  <2>3. CASE wr_want # wr_sz /\ wr_ret # 0
    BY <1>1, <1>10, <2>3 DEF PutComplete, WrTypeOK
  <2> QED
    BY <2>1, <2>2, <2>3
<1> QED
  BY <1>4, <1>5, <1>7, <1>8, <1>11, <1>12

-----------------------------------------------------------------------------
(* Every step of CdcTx preserves IInv.                                     *)
LEMMA StepInv == IInv /\ [Next]_vars => IInv'
<1> SUFFICES ASSUME IInv, [Next]_vars PROVE IInv'
  OBVIOUS
<1>1. CASE DataIn \/ TxFifo \/ Host \/ usbd_cdc_SOF
  BY <1>1, HandlerInv
<1>2. CASE (\E n \in 1 .. MaxWrite : StartPut(n)) \/ PutSpace
  BY <1>2, LookInv
<1>3. CASE PutCopy
  BY <1>3, CopyInv
<1>4. CASE PutMark
  BY <1>4, MarkInv
<1>5. CASE UNCHANGED vars
  <2>1. InInv' /\ InDrains /\ FrameOK' /\ UNCHANGED wrVars
    BY <1>5, InUnchanged DEF vars, IInv, WrTypeOK, FrameOK
  <2> QED
    BY <2>1, WriterUndisturbed DEF IInv
<1> QED
  BY <1>1, <1>2, <1>3, <1>4, <1>5 DEF Next, MainLoop, Put

(* IInv holds in every reachable state, for every ring size, packet size,  *)
(* write length and amount of data.                                        *)
THEOREM Invariant == Spec => []IInv
  BY InitInv, StepInv, PTL DEF Spec

(* The variables of the pipe and of its writer keep their types: no index  *)
(* of usbd_cdc_core.c leaves the buffer.                                   *)
THEOREM TypeCorrect == Spec => []TypeOK
<1>1. IInv => TypeOK
  BY DEF IInv, InInv, TypeOK
<1> QED
  BY <1>1, Invariant, PTL

(* The bytes of a packet are still in the ring when the FIFO-empty         *)
(* interrupt copies them, although the tail has passed them and the main   *)
(* loop takes the space behind the tail for free.                          *)
THEOREM PacketsWhole == Spec => []PacketContent
<1>1. IInv => PacketContent
  BY DEF IInv, InInv
<1> QED
  BY <1>1, Invariant, PTL

(* The pipe never goes idle after a full packet, and usbd_cdc_DataIn sends *)
(* an empty one only after a full one.                                     *)
THEOREM TransfersAreClosed == Spec => []TransfersClosed
<1>1. IInv => TransfersClosed
  BY DEF IInv, InInv
<1> QED
  BY <1>1, Invariant, PTL

(* VCP_Put takes all it is given whenever usb_api_process had seen that    *)
(* much room: the BUG_ON of api.c:201 cannot be reached.                   *)
THEOREM PutIsComplete == Spec => []PutComplete
<1>1. IInv => PutComplete
  BY DEF IInv
<1> QED
  BY <1>1, Invariant, PTL

-----------------------------------------------------------------------------
(* Every step is a step of the FIFO, or none.                              *)
LEMMA StepRefines ==
  ASSUME IInv, [Next]_vars
  PROVE  [Stream!Next]_(Stream!streamVars)
<1> USE DEF Stream!streamVars
<1>1. /\ InInv /\ InTypeOK
      /\ tx_unsent \in 0 .. TX_SIZE - 1 /\ TX_SIZE \in Nat \ {0} /\ IN_PKT \in Nat \ {0}
      /\ host_total \in Nat /\ tx_total \in Nat /\ tx_total - host_total \in 0 .. IN_PKT
  BY SpaceType, OnePacketAhead, InAssumption DEF IInv, InInv
<1>2. CASE Host
  <2>1. /\ host_pkt' = [i \in 1 .. tx_len |-> host_total + i - 1]
        /\ host_total' = host_total + tx_len /\ host_total = tx_total - tx_len
        /\ tx_written' = tx_written
    BY <1>1, <1>2, HostInInv DEF Host, InDrains
  <2>2. tx_len \in 0 .. IN_PKT /\ host_total + tx_len <= tx_written
    BY <1>1, <2>1 DEF InTypeOK, tx_written
  <2>3. tx_len \in 0 .. TX_SIZE - 1 + IN_PKT
    BY <1>1, <2>2
  <2>4. Stream!Deliver(tx_len)
    BY <2>1, <2>2 DEF Stream!Deliver
  <2> QED
    BY <2>3, <2>4 DEF Stream!Next
<1>3. CASE DataIn \/ TxFifo \/ usbd_cdc_SOF
  <2>1. tx_written' = tx_written
    BY <1>3, HandlerInv DEF InDrains
  <2>2. UNCHANGED <<host_pkt, host_total>>
    BY <1>3 DEF DataIn, TxFifo, usbd_cdc_SOF, usbd_cdc_DataIn, DCD_WriteEmptyTxFifo,
                schedule_cdc_in, inVars, hostVars
  <2> QED
    BY <2>1, <2>2
<1>4. CASE (\E n \in 1 .. MaxWrite : StartPut(n)) \/ PutSpace \/ UNCHANGED vars
  <2>1. UNCHANGED inVars
    BY <1>4 DEF StartPut, PutSpace, vars
  <2>2. tx_written' = tx_written
    BY <1>1, <2>1, InUnchanged DEF InDrains
  <2> QED
    BY <2>1, <2>2 DEF inVars, hostVars
<1>5. CASE PutCopy
  <2>1. tx_written' = tx_written
    BY <1>5, CopyInv
  <2> QED
    BY <1>5, <2>1 DEF PutCopy, hostVars
<1>6. CASE PutMark
  <2>1. /\ tx_written' = tx_written + wr_sz /\ wr_sz \in 1 .. TX_SIZE - 1
        /\ IInv'
    BY <1>6, MarkInv
  <2>2. UNCHANGED <<host_pkt, host_total, tx_total>>
    BY <1>6 DEF PutMark, VCP_MarkWritten, hostVars
  <2>3. tx_unsent' \in 0 .. TX_SIZE - 1
    <3>1. (InTypeOK => tx_unsent \in 0 .. TX_SIZE - 1)'
      BY SpaceType, PTL
    <3> QED
      BY <2>1, <3>1 DEF IInv, InInv
  <2>4. tx_written + wr_sz - host_total <= TX_SIZE - 1 + IN_PKT
    <3>1. tx_written + wr_sz = tx_total + tx_unsent'
      BY <2>1, <2>2 DEF tx_written
    <3>2. \A w, z, t, u, h, d, k \in Int :
             w + z = t + u /\ u <= d /\ t - h <= k => w + z - h <= d + k
      OBVIOUS
    <3>3. /\ tx_unsent' <= TX_SIZE - 1 /\ tx_total - host_total <= IN_PKT
          /\ tx_unsent' \in Int /\ TX_SIZE - 1 \in Int /\ tx_total \in Int
          /\ host_total \in Int /\ IN_PKT \in Int
      BY <1>1, <2>3
    <3>4. tx_written \in Int /\ wr_sz \in Int
      BY <1>1, <2>1 DEF tx_written
    <3> HIDE DEF tx_written
    <3> QED
      BY ONLY <3>1, <3>2, <3>3, <3>4, Zenon
  <2>5. Stream!Accept(wr_sz)
    BY <2>1, <2>2, <2>4 DEF Stream!Accept
  <2>6. wr_sz \in 0 .. TX_SIZE - 1 + IN_PKT
    BY <1>1, <2>1
  <2> QED
    BY <2>5, <2>6 DEF Stream!Next
<1> QED
  BY <1>2, <1>3, <1>4, <1>5, <1>6 DEF Next, MainLoop, Put

(* Transmission is a FIFO that holds the ring and one packet, for every    *)
(* ring size, packet size and write length.                                *)
THEOREM Refinement == Spec => ImplementsStream
<1>1. Init => Stream!Init
  BY InAssumption
  DEF Init, InInit, Stream!Init, tx_written, tx_unsent, ring_data_avail
<1>2. IInv /\ IInv' /\ [Next]_vars => [Stream!Next]_(Stream!streamVars)
  BY StepRefines
<1> QED
  BY <1>1, <1>2, Invariant, PTL DEF Spec, ImplementsStream, Stream!Spec
=============================================================================
