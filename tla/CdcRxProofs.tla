---------------------------- MODULE CdcRxProofs -----------------------------
(***************************************************************************)
(* Reception is correct for every ring size, packet size and read length:  *)
(* IInv is an inductive invariant of CdcRx, and from it follow the type    *)
(* invariant, the safety of the window, the completeness of VCP_Get, the   *)
(* stability of the bytes being copied, and that CdcRx implements          *)
(* ByteStream.  Of the invariant what protects the memory survives bus     *)
(* resets and reconfigurations (SafeInv), and so does, for a session that  *)
(* begins with an empty ring, the content of all but one packet.           *)
(***************************************************************************)
EXTENDS CdcSession, CdcOutProofs, SequenceTheorems

(* A step that leaves the reader alone and only adds to the ring keeps     *)
(* what the reader knows.                                                  *)
LEMMA ReaderUndisturbed ==
  ASSUME OutInv, RdTypeOK, SampleOK, ProgressOK, ReadComplete,
         OutGrows, OutInv', UNCHANGED rdVars, FrameOK'
  PROVE  RdTypeOK' /\ SampleOK' /\ ProgressOK' /\ ReadComplete'
<1> USE DEF rdVars
<1>1. /\ VCP_DataAvail \in Nat /\ VCP_DataAvailContig \in Nat
      /\ VCP_DataAvail' \in Nat /\ VCP_DataAvailContig' \in Nat
  <2>1. OutTypeOK /\ OutRingOK /\ OutTypeOK' /\ OutRingOK'
    BY DEF OutInv
  <2>2. (OutTypeOK /\ OutRingOK => /\ VCP_DataAvail \in 0 .. RX_SIZE - 1
                                   /\ VCP_DataAvailContig \in 0 .. VCP_DataAvail)'
    BY AvailType, PTL
  <2> QED
    BY <2>1, <2>2, AvailType
<1>2. RdTypeOK'
  BY DEF RdTypeOK
<1>3. SampleOK'
  BY <1>1 DEF SampleOK, RdTypeOK, OutGrows
<1>4. ProgressOK'
  <2>1. rd_pc \in {"copy", "mark"} => rx_tail' = rx_tail
    BY <1>1, AvailType DEF SampleOK, RdTypeOK, OutGrows, OutInv
  <2>2. /\ rx_size \in Nat /\ rx_tail \in Nat /\ rd_want \in Nat /\ rd_ret \in Nat
        /\ rd_seen \in Nat /\ rd_sz \in Nat
        /\ VCP_DataAvail' >= VCP_DataAvail
        /\ rx_tail = 0 => rx_tail' = 0
        /\ rx_head < rx_tail => rx_head' < rx_tail' /\ rx_size' = rx_size
    BY DEF OutInv, OutTypeOK, RdTypeOK, OutGrows
  <2>3. /\ rd_pc' = rd_pc /\ rd_want' = rd_want /\ rd_ret' = rd_ret
        /\ rd_seen' = rd_seen /\ rd_sz' = rd_sz
    OBVIOUS
  <2>4. rd_want' + rd_ret' <= MaxRead
    BY <2>3 DEF ProgressOK
  <2>5. rd_pc' \in {"avail", "copy", "mark"} /\ rd_ret' = 0 => rd_seen' <= VCP_DataAvail'
    BY <1>1, <2>2, <2>3 DEF ProgressOK
  <2>6. rd_pc' = "avail" /\ rd_ret' # 0 =>
          \/ rd_seen' <= rd_ret'
          \/ rx_tail' = 0 /\ rd_seen' <= rd_ret' + VCP_DataAvail'
    <3>1. rd_pc = "avail" /\ rd_ret # 0 =>
            rd_seen <= rd_ret \/ (rx_tail = 0 /\ rd_seen <= rd_ret + VCP_DataAvail)
      BY DEF ProgressOK
    <3>2. rd_seen <= rd_ret + VCP_DataAvail => rd_seen <= rd_ret + VCP_DataAvail'
      <4>1. \A a, b, c, d \in Nat : c <= d /\ a <= b + c => a <= b + d
        OBVIOUS
      <4> QED
        BY ONLY <1>1, <2>2, <4>1
    <3> QED
      BY <2>2, <2>3, <3>1, <3>2
  <2>7. rd_pc' \in {"copy", "mark"} /\ rd_sz' < rd_want' =>
          \/ rd_seen' <= rd_ret' + rd_sz'
          \/ rd_ret' = 0 /\ rx_head' < rx_tail' /\ rx_tail' + rd_sz' = rx_size'
    BY <2>1, <2>2, <2>3 DEF ProgressOK
  <2> QED
    BY <2>4, <2>5, <2>6, <2>7 DEF ProgressOK
<1>5. ReadComplete'
  BY DEF ReadComplete
<1> QED
  BY <1>2, <1>3, <1>4, <1>5

LEMMA FrameInv ==
  ASSUME FrameOK, CountFrame
  PROVE  FrameOK'
  BY FrameAssumption DEF FrameOK, CountFrame, FrameDue

(* Every interrupt handler preserves IInv and lets the ring only grow.     *)
LEMMA HandlerInv ==
  ASSUME IInv, HostOut \/ DataOut \/ usbd_cdc_SOF
  PROVE  IInv' /\ OutGrows /\ UNCHANGED rdVars
<1> USE DEF IInv
<1>1. UNCHANGED rdVars
  BY DEF HostOut, DataOut, usbd_cdc_SOF
<1>2. FrameOK'
  BY FrameInv DEF HostOut, DataOut, usbd_cdc_SOF, RxData, usbd_cdc_DataOut, RdTypeOK, FrameOK
<1>3. OutInv' /\ OutGrows
  <2>1. CASE HostOut
    BY <2>1, RxDataInv DEF HostOut
  <2>2. CASE DataOut
    BY <2>2, DataOutInv DEF DataOut
  <2>3. CASE usbd_cdc_SOF
    <3>1. CASE FrameDue
      BY <2>3, <3>1, ScheduleOutInv DEF usbd_cdc_SOF
    <3>2. CASE ~FrameDue
      BY <2>3, <3>2, OutUnchanged DEF usbd_cdc_SOF
    <3> QED
      BY <3>1, <3>2
  <2> QED
    BY <2>1, <2>2, <2>3
<1> QED
  BY <1>1, <1>2, <1>3, ReaderUndisturbed

-----------------------------------------------------------------------------
LEMMA InitInv == Init => IInv
<1> SUFFICES ASSUME Init PROVE IInv
  OBVIOUS
<1>1. OutInv
  BY OutInitInv DEF Init
<1>2. RdTypeOK /\ SampleOK /\ ProgressOK /\ ReadComplete
  BY RxAssumption, FrameAssumption
  DEF Init, RdTypeOK, SampleOK, ProgressOK, ReadComplete, FrameInit, FrameOK
<1> QED
  BY <1>1, <1>2 DEF IInv

(* Steps of the main loop that leave the ring alone.                       *)
LEMMA LookInv ==
  ASSUME IInv, (\E n \in 1 .. MaxRead : StartGet(n) \/ SkipAvail(n)) \/ GetAvail \/ GetCopy
  PROVE  IInv'
<1> USE RxAssumption DEF IInv
<1>1. UNCHANGED outVars /\ UNCHANGED frame_count
  BY DEF StartGet, SkipAvail, GetAvail, GetCopy
<1>2. OutInv' /\ VCP_DataAvail' = VCP_DataAvail /\ VCP_DataAvailContig' = VCP_DataAvailContig
      /\ UNCHANGED <<rx_head, rx_tail, rx_size, rx_buf>>
  BY <1>1, OutUnchanged DEF outVars, ringVars, VCP_DataAvail, VCP_DataAvailContig
<1>3. VCP_DataAvail \in Nat /\ VCP_DataAvailContig \in 0 .. VCP_DataAvail
  BY AvailType DEF OutInv
<1>4. RdTypeOK' /\ SampleOK' /\ ProgressOK' /\ ReadComplete'
  <2>1. ASSUME NEW n \in 1 .. MaxRead, StartGet(n)
        PROVE  RdTypeOK' /\ SampleOK' /\ ProgressOK' /\ ReadComplete'
    BY <2>1, <1>1, <1>2, <1>3
    DEF StartGet, RdTypeOK, SampleOK, ProgressOK, ReadComplete, FrameOK
  <2>2. ASSUME NEW n \in 1 .. MaxRead, SkipAvail(n)
        PROVE  RdTypeOK' /\ SampleOK' /\ ProgressOK' /\ ReadComplete'
    BY <2>2, <1>1, <1>2, <1>3
    DEF SkipAvail, RdTypeOK, SampleOK, ProgressOK, ReadComplete, FrameOK, MIN_
  <2>3. ASSUME GetAvail
        PROVE  RdTypeOK' /\ SampleOK' /\ ProgressOK' /\ ReadComplete'
    <3>1. \/ VCP_DataAvailContig = VCP_DataAvail
          \/ rx_head < rx_tail /\ rx_tail + VCP_DataAvailContig = rx_size
      BY DEF VCP_DataAvail, VCP_DataAvailContig, ring_data_avail, ring_data_contig,
             OutInv, OutTypeOK
    <3>2. rx_tail = 0 => VCP_DataAvailContig = VCP_DataAvail
      BY DEF VCP_DataAvail, VCP_DataAvailContig, ring_data_avail, ring_data_contig,
             OutInv, OutTypeOK
    <3>3. /\ rd_pc = "avail" /\ rd_pc' = IF rd_sz' = 0 THEN "idle" ELSE "copy"
          /\ rd_sz' = IF VCP_DataAvailContig < rd_want THEN VCP_DataAvailContig ELSE rd_want
          /\ UNCHANGED <<rd_want, rd_ret, rd_seen, rd_out, frame_count>>
          /\ rd_off' = 0
      BY <2>3 DEF GetAvail, MIN_
    <3>4. RdTypeOK'
      BY <3>3, <1>3 DEF RdTypeOK, FrameOK
    <3>5. SampleOK'
      BY <3>3, <1>2, <1>3 DEF RdTypeOK, SampleOK
    <3>6. ProgressOK'
      BY <3>3, <3>1, <3>2, <1>2, <1>3 DEF RdTypeOK, ProgressOK
    <3>7. ReadComplete'
      <4>1. VCP_DataAvailContig = 0 => VCP_DataAvail = 0
        BY <3>1, <1>3, OutAssumption DEF OutInv, OutTypeOK, OutRingOK, RingOK
      <4>2. rd_want = 0 => rd_sz' = 0
        BY <3>3, <1>3 DEF RdTypeOK
      <4>3. CASE rd_sz' # 0
        BY <3>3, <4>3 DEF ReadComplete
      <4>4. CASE rd_sz' = 0 /\ rd_want # 0
        BY <3>3, <4>1, <4>4, <1>3 DEF RdTypeOK, ProgressOK, ReadComplete
      <4>5. CASE rd_want = 0
        BY <3>3, <4>5 DEF ReadComplete
      <4> QED
        BY <4>3, <4>4, <4>5
    <3> QED
      BY <3>4, <3>5, <3>6, <3>7
  <2>4. ASSUME GetCopy
        PROVE  RdTypeOK' /\ SampleOK' /\ ProgressOK' /\ ReadComplete'
    <3>1. rx_buf[rx_tail + rd_off] = rx_read + rd_off
      BY <2>4, <1>3, ContigByte DEF GetCopy, SampleOK, RdTypeOK
    <3>2. rd_out' = <<rx_read + rd_off>> /\ rx_read + rd_off \in Nat
      BY <2>4, <3>1 DEF GetCopy, RdTypeOK, OutInv, OutTypeOK
    <3>3. rd_out' \in Seq(Nat \cup {JUNK})
      <4> HIDE DEF IInv
      <4>1. ASSUME NEW x \in Nat PROVE <<x>> \in Seq(Nat \cup {JUNK})
        <5>1. <<x>> \in [1 .. 1 -> Nat \cup {JUNK}]
          OBVIOUS
        <5> QED
          BY <5>1, SeqDef
      <4> QED
        BY <3>2, <4>1
    <3> QED
      BY <2>4, <1>1, <1>2, <1>3, <3>3
      DEF GetCopy, RdTypeOK, SampleOK, ProgressOK, ReadComplete, FrameOK
  <2> QED
    BY <2>1, <2>2, <2>3, <2>4
<1> QED
  BY <1>2, <1>4

(* The main loop takes bytes out of the ring.                              *)
LEMMA MarkInv ==
  ASSUME IInv, GetMark \/ SkipMark
  PROVE  IInv'
<1> USE RxAssumption DEF IInv
<1>1. /\ VCP_MarkRead(rd_sz) /\ frame_count' = frame_count
      /\ rd_sz' = rd_sz /\ rd_seen' = rd_seen /\ rd_out' = rd_out
  BY DEF GetMark, SkipMark
<1>2. VCP_DataAvail \in Nat /\ VCP_DataAvailContig \in 0 .. VCP_DataAvail
  BY AvailType DEF OutInv
<1>3. rd_sz \in 0 .. VCP_DataAvail
  BY <1>2 DEF GetMark, SkipMark, SampleOK, RdTypeOK
<1>4. /\ OutInv' /\ VCP_DataAvail' = VCP_DataAvail - rd_sz
      /\ rd_sz <= VCP_DataAvailContig /\ rx_tail + rd_sz = rx_size => rx_tail' = 0
  BY <1>1, <1>3, MarkReadInv
<1>5. CASE GetMark
  <2>1. /\ rd_pc = "mark"
        /\ rd_want' = rd_want - rd_sz
        /\ rd_ret' = rd_ret + rd_sz
        /\ rd_off' = 0
        /\ rd_pc' = IF rd_ret = 0 /\ rd_want' # 0 THEN "avail" ELSE "idle"
    BY <1>5 DEF GetMark
  <2>2. rd_sz \in 1 .. rd_want /\ rd_sz <= VCP_DataAvailContig
    BY <2>1 DEF SampleOK
  <2>3. rd_want + rd_ret <= MaxRead
    BY DEF ProgressOK
  <2>4. RdTypeOK'
    BY <1>1, <2>1, <2>2, <2>3 DEF RdTypeOK, FrameOK
  <2>5. SampleOK'
    BY <2>1 DEF SampleOK
  <2>6. rd_want' # 0 =>
          \/ rd_seen <= rd_ret + rd_sz
          \/ rd_ret = 0 /\ rx_tail + rd_sz = rx_size
    BY <2>1, <2>2 DEF ProgressOK, RdTypeOK
  <2>7. ProgressOK'
    <3>1. rd_ret' # 0
      BY <2>1, <2>2 DEF RdTypeOK
    <3>2. rd_want' + rd_ret' <= MaxRead
      BY <2>1, <2>2, <2>3 DEF RdTypeOK
    <3>3. CASE rd_pc' = "avail"
      <4>1. CASE rd_seen <= rd_ret + rd_sz
        BY <1>1, <2>1, <3>1, <3>2, <3>3, <4>1 DEF ProgressOK
      <4>2. CASE rd_ret = 0 /\ rx_tail + rd_sz = rx_size
        <5>1. rx_tail' = 0
          BY <1>4, <2>2, <4>2
        <5>2. rd_seen <= VCP_DataAvail
          BY <2>1, <4>2 DEF ProgressOK
        <5>3. rd_seen' <= rd_ret' + VCP_DataAvail'
          BY <1>1, <1>2, <1>3, <1>4, <2>1, <4>2, <5>2 DEF RdTypeOK
        <5> QED
          BY <3>1, <3>2, <3>3, <5>1, <5>3 DEF ProgressOK
      <4> QED
        BY <2>1, <2>6, <3>3, <4>1, <4>2
    <3>4. CASE rd_pc' = "idle"
      BY <3>1, <3>2, <3>4 DEF ProgressOK
    <3> QED
      BY <2>1, <3>3, <3>4
  <2>8. ReadComplete'
    <3>1. CASE rd_want' = 0 \/ rd_pc' # "idle"
      BY <3>1 DEF ReadComplete
    <3>2. CASE rd_want' # 0 /\ rd_ret # 0
      BY <1>1, <2>1, <2>6, <3>2 DEF ReadComplete, RdTypeOK
    <3> QED
      BY <2>1, <3>1, <3>2
  <2> QED
    BY <1>4, <2>4, <2>5, <2>7, <2>8
<1>6. CASE SkipMark
  <2>1. /\ rd_pc = "skip" /\ rd_pc' = "idle"
        /\ UNCHANGED <<rd_want, rd_off, rd_ret>>
    BY <1>6 DEF SkipMark
  <2>2. SampleOK' /\ ProgressOK' /\ RdTypeOK'
    BY <1>1, <2>1 DEF SampleOK, ProgressOK, RdTypeOK, FrameOK
  <2>3. ReadComplete'
    BY <2>1 DEF SampleOK, ReadComplete
  <2> QED
    BY <1>4, <2>2, <2>3
<1> QED
  BY <1>5, <1>6

-----------------------------------------------------------------------------
(* Every step of CdcRx preserves IInv.                                     *)
LEMMA StepInv == IInv /\ [Next]_vars => IInv'
<1> SUFFICES ASSUME IInv, [Next]_vars PROVE IInv'
  OBVIOUS
<1>1. CASE HostOut \/ DataOut \/ usbd_cdc_SOF
  BY <1>1, HandlerInv
<1>2. CASE (\E n \in 1 .. MaxRead : StartGet(n) \/ SkipAvail(n)) \/ GetAvail \/ GetCopy
  BY <1>2, LookInv
<1>3. CASE GetMark \/ SkipMark
  BY <1>3, MarkInv
<1>4. CASE UNCHANGED vars
  <2>1. /\ UNCHANGED outVars /\ UNCHANGED rdVars
        /\ VCP_DataAvail' = VCP_DataAvail
        /\ VCP_DataAvailContig' = VCP_DataAvailContig
    BY <1>4 DEF vars, outVars, ringVars, VCP_DataAvail, VCP_DataAvailContig
  <2>2. OutInv' /\ OutGrows /\ FrameOK'
    BY <1>4, <2>1, OutUnchanged DEF vars, IInv, RdTypeOK, FrameOK
  <2> QED
    BY <2>1, <2>2, ReaderUndisturbed DEF IInv
<1> QED
  BY <1>1, <1>2, <1>3, <1>4 DEF Next, MainLoop, Get

(* IInv holds in every reachable state, for every ring size, packet size,  *)
(* read length and amount of data.                                         *)
THEOREM Invariant == Spec => []IInv
  BY InitInv, StepInv, PTL DEF Spec

(* The variables of the pipe and of its reader keep their types: no index  *)
(* of usbd_cdc_core.c leaves the buffer.                                   *)
THEOREM TypeCorrect == Spec => []TypeOK
<1>1. IInv => TypeOK
  BY DEF IInv, OutInv, TypeOK
<1> QED
  BY <1>1, Invariant, PTL

(* A packet the endpoint may receive at any moment never overwrites an     *)
(* unread byte nor runs past the ring, although try_start_rx changes the   *)
(* size of the ring.                                                       *)
THEOREM WindowSafe == Spec => []WindowOK
<1>1. IInv => WindowOK
  BY DEF IInv, OutInv
<1> QED
  BY <1>1, Invariant, PTL

(* The ring always holds exactly the bytes received and not yet read.      *)
THEOREM ContentSafe == Spec => []OutContent
<1>1. IInv => OutContent
  BY DEF IInv, OutInv
<1> QED
  BY <1>1, Invariant, PTL

(* VCP_Get returns all it was asked for whenever usb_api_process had seen  *)
(* that much: the BUG_ON of api.c:181 cannot be reached.                   *)
THEOREM ReadIsComplete == Spec => []ReadComplete
<1>1. IInv => ReadComplete
  BY DEF IInv
<1> QED
  BY <1>1, Invariant, PTL

-----------------------------------------------------------------------------
(* No interrupt moves the tail or changes the bytes VCP_GetContig has      *)
(* sampled and not yet marked read.                                        *)
THEOREM CopyIsStable == Spec => StableUnderCopy
<1> DEFINE Stable ==
      (UNCHANGED rdVars /\ rd_pc \in {"copy", "mark"}) =>
        /\ rx_tail' = rx_tail
        /\ \A j \in 0 .. rd_sz - 1 : rx_buf'[rx_tail + j] = rx_buf[rx_tail + j]
<1>1. IInv /\ [Next]_vars => [Stable]_vars
  <2> SUFFICES ASSUME IInv, Next, UNCHANGED rdVars, rd_pc \in {"copy", "mark"}
               PROVE  Stable
    BY DEF vars
  <2>1. HostOut \/ DataOut \/ usbd_cdc_SOF
    BY DEF Next, MainLoop, Get, StartGet, SkipAvail, GetAvail, GetCopy, GetMark,
           SkipMark, rdVars, IInv, RdTypeOK
  <2>2. IInv' /\ OutGrows
    BY <2>1, HandlerInv
  <2>3. OutInv /\ OutInv'
    BY <2>2 DEF IInv
  <2>4. /\ VCP_DataAvailContig \in 0 .. VCP_DataAvail /\ VCP_DataAvail \in Nat
        /\ VCP_DataAvailContig' \in Nat
    <3>1. (OutTypeOK /\ OutRingOK => /\ VCP_DataAvail \in 0 .. RX_SIZE - 1
                                     /\ VCP_DataAvailContig \in 0 .. VCP_DataAvail)'
      BY AvailType, PTL
    <3> QED
      BY <2>3, <3>1, AvailType DEF OutInv
  <2>5. /\ rd_sz \in Nat /\ 0 < rd_sz /\ rd_sz <= VCP_DataAvailContig
        /\ VCP_DataAvailContig <= VCP_DataAvailContig'
        /\ rx_read' = rx_read
    BY <2>2 DEF IInv, SampleOK, RdTypeOK, OutGrows
  <2>6. rx_tail' = rx_tail
    BY <2>2, <2>4, <2>5 DEF OutGrows
  <2>7. ASSUME NEW j \in 0 .. rd_sz - 1
        PROVE  rx_buf'[rx_tail + j] = rx_buf[rx_tail + j]
    <3>1. j \in 0 .. VCP_DataAvailContig - 1 /\ j \in 0 .. VCP_DataAvailContig' - 1
      <4>1. VCP_DataAvailContig \in Nat /\ VCP_DataAvailContig' \in Nat
        BY <2>4
      <4>2. \A a, b, c \in Nat :
              a <= b /\ b <= c =>
                \A i \in 0 .. a - 1 : i \in 0 .. b - 1 /\ i \in 0 .. c - 1
        OBVIOUS
      <4> QED
        BY <2>5, <4>1, <4>2
    <3>2. rx_buf[rx_tail + j] = rx_read + j
      BY <2>3, <3>1, ContigByte
    <3>3. rx_buf'[rx_tail' + j] = rx_read' + j
      <4>1. (OutInv => ContigRight)'
        BY ContigBytes, PTL
      <4> QED
        BY <2>3, <3>1, <4>1 DEF ContigRight
    <3> QED
      BY <2>5, <2>6, <3>2, <3>3
  <2> QED
    BY <2>6, <2>7
<1> QED
  BY <1>1, Invariant, PTL DEF Spec, StableUnderCopy

-----------------------------------------------------------------------------
LEMMA AcceptedType == OutTypeOK => rx_accepted \in Nat
  BY OutAssumption DEF OutTypeOK, rx_accepted

(* Every step of reception is a step of the byte stream, or leaves it      *)
(* alone: packets are accepted, copied bytes delivered one by one, skipped *)
(* bytes discarded.                                                        *)
LEMMA StepRefines ==
  ASSUME IInv, IInv', [Next]_vars
  PROVE  [Stream!Next]_(Stream!streamVars)
<1> USE OutAssumption DEF Stream!streamVars, Stream!Next
<1>1. /\ rx_accepted - rx_read \in VCP_DataAvail .. RX_SIZE - 1
      /\ VCP_DataAvail \in Nat /\ VCP_DataAvailContig \in 0 .. VCP_DataAvail
      /\ rx_read \in Nat /\ rx_accepted \in Nat /\ rd_off \in Nat
      /\ OutInv
  <2>1. OutInv /\ OutTypeOK /\ OutRingOK /\ RdTypeOK
    BY DEF IInv, OutInv
  <2>2. rx_read \in Nat /\ rx_accepted \in Nat /\ rd_off \in Nat
    BY <2>1 DEF OutTypeOK, RdTypeOK, rx_accepted
  <2>3. VCP_DataAvail \in 0 .. RX_SIZE - 1 /\ VCP_DataAvailContig \in 0 .. VCP_DataAvail
    BY <2>1, AvailType
  <2>4. rx_accepted - rx_read \in VCP_DataAvail .. RX_SIZE - 1
    BY <2>1, Bounded
  <2> QED
    BY ONLY <2>1, <2>2, <2>3, <2>4
<1>2. rx_accepted' \in Nat
  <2>1. OutTypeOK'
    BY DEF IInv, OutInv
  <2>2. (OutTypeOK => rx_accepted \in Nat)'
    BY AcceptedType, PTL
  <2> QED
    BY <2>1, <2>2
<1>3. CASE HostOut \/ DataOut \/ usbd_cdc_SOF
  <2> DEFINE n == rx_accepted' - rx_accepted
  <2>1. OutGrows /\ rd_off' = rd_off /\ rd_out' = rd_out
    BY <1>3, HandlerInv DEF rdVars
  <2>2. rx_read' = rx_read /\ rx_accepted' >= rx_accepted
        /\ rx_accepted' - rx_read <= RX_SIZE - 1
    BY <2>1 DEF OutGrows
  <2>3. /\ n \in 0 .. RX_SIZE - 1
        /\ rx_accepted + n - (rx_read + rd_off) <= RX_SIZE - 1
        /\ rx_accepted' = rx_accepted + n
    <3>1. \A a, b, r, o, z \in Nat :
            a >= r /\ b >= a /\ b - r <= z - 1 =>
              /\ b - a \in 0 .. z - 1
              /\ a + (b - a) - (r + o) <= z - 1
              /\ b = a + (b - a)
      OBVIOUS
    <3>2. rx_accepted >= rx_read
      BY <1>1
    <3> QED
      BY <1>1, <1>2, <2>2, <3>1, <3>2
  <2>5. Stream!Accept(n)
    BY <2>1, <2>2, <2>3 DEF Stream!Accept
  <2> QED
    BY <2>3, <2>5
<1>4. CASE (\E n \in 1 .. MaxRead : StartGet(n) \/ SkipAvail(n)) \/ GetAvail
  <2>1. rd_off' = rd_off /\ rd_out' = rd_out
    BY <1>4 DEF StartGet, SkipAvail, GetAvail, IInv, SampleOK
  <2>2. UNCHANGED outVars
    BY <1>4 DEF StartGet, SkipAvail, GetAvail
  <2> QED
    BY <2>1, <2>2 DEF outVars, epVars, rx_accepted
<1>5. CASE GetCopy
  <2>1. /\ rd_pc = "copy" /\ rd_out' = <<rx_buf[rx_tail + rd_off]>>
        /\ rd_off' = rd_off + 1 /\ UNCHANGED outVars
    BY <1>5 DEF GetCopy
  <2>2. rd_off < rd_sz /\ rd_sz <= VCP_DataAvailContig /\ rd_sz \in Nat
    BY <2>1 DEF IInv, SampleOK, RdTypeOK
  <2>3. rx_buf[rx_tail + rd_off] = rx_read + rd_off
    BY <1>1, <2>2, ContigByte
  <2>4. rd_out' = [i \in 1 .. 1 |-> rx_read + rd_off + i - 1]
    BY <1>1, <2>1, <2>3
  <2>5. (rx_read + rd_off) + 1 <= rx_accepted
    BY <1>1, <2>2
  <2>6. rx_accepted' = rx_accepted /\ rx_read' = rx_read
    BY <2>1 DEF outVars, epVars, rx_accepted
  <2>7. Stream!Deliver(1)
    BY <1>1, <2>1, <2>4, <2>5, <2>6 DEF Stream!Deliver
  <2>8. 1 \in 0 .. RX_SIZE - 1
    BY <1>1, <2>2
  <2> QED
    BY <2>7, <2>8
<1>6. CASE GetMark
  <2>1. rd_off = rd_sz
    BY <1>6 DEF GetMark, IInv, SampleOK, RdTypeOK
  <2>2. /\ rx_read' = rx_read + rd_sz /\ rd_off' = 0 /\ rd_out' = rd_out
        /\ rx_accepted' = rx_accepted
    BY <1>6 DEF GetMark, VCP_MarkRead, epVars, rx_accepted
  <2>3. rx_read' + rd_off' = rx_read + rd_off
    BY <1>1, <2>1, <2>2
  <2> QED
    BY <2>2, <2>3
<1>7. CASE SkipMark
  <2>1. /\ rx_read' = rx_read + rd_sz /\ rd_off' = rd_off /\ rd_out' = rd_out
        /\ rx_accepted' = rx_accepted
    BY <1>7 DEF SkipMark, VCP_MarkRead, epVars, rx_accepted
  <2>2. rd_sz \in Nat /\ rd_sz <= VCP_DataAvail /\ rd_off = 0
    BY <1>7 DEF SkipMark, IInv, SampleOK, RdTypeOK
  <2>3. /\ (rx_read + rd_off) + rd_sz <= rx_accepted
        /\ rx_read' + rd_off' = (rx_read + rd_off) + rd_sz
        /\ rd_sz \in 0 .. RX_SIZE - 1
    BY <1>1, <2>1, <2>2
  <2>4. Stream!Discard(rd_sz)
    BY <2>1, <2>3 DEF Stream!Discard
  <2> QED
    BY <2>3, <2>4
<1>8. CASE UNCHANGED vars
  BY <1>8 DEF vars, outVars, epVars, rdVars, rx_accepted
<1> QED
  BY <1>3, <1>4, <1>5, <1>6, <1>7, <1>8 DEF Next, MainLoop, Get

(* Reception is a FIFO of at most RX_SIZE - 1 bytes, for every ring size,  *)
(* packet size and read length.                                            *)
THEOREM Refinement == Spec => ImplementsStream
<1>1. Init => Stream!Init
  BY DEF Init, OutInit, Stream!Init, rx_accepted
<1>2. IInv /\ IInv' /\ [Next]_vars => [Stream!Next]_(Stream!streamVars)
  BY StepRefines
<1> QED
  BY <1>1, <1>2, Invariant, PTL DEF Spec, ImplementsStream, Stream!Spec

-----------------------------------------------------------------------------
(* Several sessions                                                        *)

(* What usbd_cdc_Init leaves of IInv: it moves the transfer but not the    *)
(* head, so the window need not be free any more.  The indices stay in the *)
(* ring because a ring is only closed within the last OUT_PKT slots of the *)
(* buffer, and above a packet's length: a ring_wrap is enough for any      *)
(* packet counted and any read marked.                                     *)
SafeInv ==
  /\ OutTypeOK /\ RdTypeOK
  /\ OutRingOK
  /\ rx_ep = "armed" => rx_ptr + OUT_PKT <= RX_SIZE
  /\ ~rx_active => rx_ep = "nak"
  /\ rx_size > OUT_PKT /\ rx_size > RX_SIZE - OUT_PKT
  /\ rd_want + rd_ret <= MaxRead
  /\ rd_pc \in {"copy", "mark"} =>
        rd_sz <= rd_want /\ rd_off <= rd_sz /\ rx_tail + rd_sz <= RX_SIZE
  /\ rd_pc = "copy" => rd_off < rd_sz

(* The session began with an empty ring and has not received data yet: its *)
(* first packet may be stored apart from the head.                         *)
Fresh == rx_head = rx_tail /\ rx_total = began /\ first_end = began

(* A packet whose interrupt is pending is where the head is.               *)
PendingOK ==
  rx_ep = "full" => \A j \in 0 .. rx_cnt - 1 : rx_buf[rx_head + j] = rx_total + j

QuietInv ==
  /\ began \in Nat /\ first_end \in Nat
  /\ quiet => /\ ContentBut(First)
              /\ began <= first_end /\ first_end <= rx_total
              /\ Fresh \/ (WindowOK /\ PendingOK)
              /\ rd_pc \in {"copy", "mark", "skip"} => rd_sz <= VCP_DataAvail

SInv == SafeInv /\ QuietInv

LEMMA SessionInitInv == SessionInit => SInv
<1> SUFFICES ASSUME SessionInit PROVE SInv
  OBVIOUS
<1>1. IInv
  BY InitInv DEF SessionInit
<1>2. SafeInv
  <2>1. OutTypeOK /\ RdTypeOK /\ OutRingOK /\ WindowOK
    BY <1>1 DEF IInv, OutInv
  <2>2. /\ rx_active = TRUE /\ rx_size = RX_SIZE /\ rx_ptr = 0
        /\ rd_pc = "idle" /\ rd_want = 0 /\ rd_ret = 0
    BY DEF SessionInit, Init, OutInit
  <2> QED
    BY <2>1, <2>2, OutAssumption, RxAssumption DEF SafeInv
<1>3. QuietInv
  BY <1>1
  DEF SessionInit, Init, OutInit, IInv, OutInv, QuietInv, OutContent, ContentBut, Fresh, OutTypeOK
<1> QED
  BY <1>2, <1>3 DEF SInv

-----------------------------------------------------------------------------
(* Safety of the memory: the steps of the pipe, of the reader, of the core *)

(* What try_start_rx keeps of SafeInv.                                     *)
LEMMA TryStartSafe ==
  ASSUME OutTypeOK, NEW h \in 0 .. RX_SIZE - 1, RingOK(rx_size, h, rx_tail),
         rx_size > OUT_PKT, rx_size > RX_SIZE - OUT_PKT, try_start_rx(h)
  PROVE  /\ rx_ep' = "armed" => rx_ptr' + OUT_PKT <= RX_SIZE
         /\ ~rx_active' => rx_ep' = "nak"
         /\ rx_size' > OUT_PKT /\ rx_size' > RX_SIZE - OUT_PKT
         /\ rx_tail' <= rx_tail
<1> USE OutAssumption
    DEF OutTypeOK, ring_space_contig, ring_space_wrapped, ReopenedSize, ClosedSize, WrappedTail
<1> DEFINE size  == IF h >= rx_tail THEN RX_SIZE ELSE rx_size
           fits  == ring_space_contig(size, h, rx_tail) >= OUT_PKT
           wraps == ring_space_wrapped(size, h, rx_tail) >= OUT_PKT
<1>1. CASE fits
  BY <1>1 DEF try_start_rx, DCD_EP_PrepareRx
<1>2. CASE ~fits /\ wraps
  <2>1. /\ rx_head' = 0 /\ rx_size' = h
        /\ rx_tail' = IF rx_tail = h THEN 0 ELSE rx_tail
        /\ rx_active' = TRUE
        /\ rx_ep' = "armed" /\ rx_ptr' = 0 /\ rx_cnt' = 0
    BY <1>2 DEF try_start_rx, DCD_EP_PrepareRx
  <2>2. h >= rx_tail /\ rx_tail > OUT_PKT /\ RX_SIZE - h < OUT_PKT
    BY <1>2
  <2> QED
    BY <2>1, <2>2
<1>3. CASE ~fits /\ ~wraps
  BY <1>3 DEF try_start_rx
<1> QED
  BY <1>1, <1>2, <1>3

(* What the handlers do that leave the reader alone.                       *)
LEMMA HandlersSafe ==
  ASSUME SafeInv, HostOut \/ DataOut \/ usbd_cdc_SOF
  PROVE  SafeInv'
<1> USE OutAssumption, RxAssumption DEF SafeInv, RingOK
<1>1. UNCHANGED rdVars
  BY DEF HostOut, DataOut, usbd_cdc_SOF
<1>2. RdTypeOK'
  <2>1. FrameOK'
    BY FrameInv DEF HostOut, DataOut, usbd_cdc_SOF, RxData, usbd_cdc_DataOut, RdTypeOK, FrameOK
  <2> QED
    BY <1>1, <2>1 DEF rdVars, RdTypeOK
<1>3. CASE HostOut
  <2>1. PICK n \in 0 .. OUT_PKT : RxData(n)
    BY <1>3 DEF HostOut
  <2>2. OutTypeOK'
    BY <2>1, RxDataType
  <2> QED
    BY <1>1, <1>2, <2>1, <2>2 DEF RxData, ringVars, OutRingOK, rdVars
<1>4. ASSUME NEW h \in 0 .. RX_SIZE - 1, RingOK(rx_size, h, rx_tail), try_start_rx(h),
             rx_buf' = rx_buf, rx_total' \in Nat, rx_read' = rx_read
      PROVE  SafeInv'
  <2>1. OutTypeOK' /\ OutRingOK'
    BY <1>4, TryStart DEF OutTypeOK
  <2>2. /\ rx_ep' = "armed" => rx_ptr' + OUT_PKT <= RX_SIZE
        /\ ~rx_active' => rx_ep' = "nak"
        /\ rx_size' > OUT_PKT /\ rx_size' > RX_SIZE - OUT_PKT
        /\ rx_tail' <= rx_tail
    BY <1>4, TryStartSafe
  <2>3. rd_pc' \in {"copy", "mark"} =>
          rd_sz' <= rd_want' /\ rd_off' <= rd_sz' /\ rx_tail' + rd_sz' <= RX_SIZE
    <3>1. rx_tail \in Nat /\ rx_tail' \in Nat /\ rd_sz \in Nat /\ RX_SIZE \in Nat
      BY <2>1 DEF OutTypeOK, RdTypeOK
    <3>2. rd_pc \in {"copy", "mark"} =>
            rd_sz <= rd_want /\ rd_off <= rd_sz /\ rx_tail + rd_sz <= RX_SIZE
      OBVIOUS
    <3>3. /\ rd_pc' = rd_pc /\ rd_sz' = rd_sz /\ rd_want' = rd_want /\ rd_off' = rd_off
      BY <1>1 DEF rdVars
    <3> QED
      <4>1. \A a, b, c, d \in Nat : b <= a /\ a + c <= d => b + c <= d
        OBVIOUS
      <4>2. rx_tail' <= rx_tail
        BY <2>2
      <4> QED
        BY <3>1, <3>2, <3>3, <4>1, <4>2
  <2> QED
    BY <1>1, <1>2, <2>1, <2>2, <2>3 DEF rdVars
<1>5. CASE DataOut
  <2> DEFINE h == ring_wrap(rx_size, rx_head + rx_cnt)
  <2>1. RingOK(rx_size, h, rx_tail) /\ h \in 0 .. RX_SIZE - 1
    BY DEF OutTypeOK, OutRingOK, ring_wrap
  <2>2. /\ try_start_rx(h) /\ rx_buf' = rx_buf /\ rx_total' \in Nat /\ rx_read' = rx_read
    BY <1>5 DEF DataOut, usbd_cdc_DataOut, OutTypeOK
  <2> HIDE DEF h
  <2> QED
    BY <1>4, <2>1, <2>2
<1>6. CASE usbd_cdc_SOF
  <2>1. CASE UNCHANGED outVars
    BY <1>1, <1>2, <2>1
    DEF outVars, ringVars, epVars, rdVars, OutTypeOK, OutRingOK
  <2>2. CASE try_start_rx(rx_head) /\ UNCHANGED <<rx_buf, rx_total, rx_read>>
    BY <1>4, <2>2 DEF OutTypeOK, OutRingOK
  <2> QED
    BY <1>6, <2>1, <2>2 DEF usbd_cdc_SOF, schedule_cdc_out
<1> QED
  BY <1>3, <1>5, <1>6

(* The reader's steps.  A read that is marked ends at most one ring size   *)
(* past the end of the ring, whatever has become of the ring meanwhile;    *)
(* but what is skipped may take the tail out of the ring.                  *)
LEMMA ReaderSafe ==
  ASSUME SafeInv, TailInRing', MainLoop
  PROVE  SafeInv'
<1> USE OutAssumption, RxAssumption DEF SafeInv, RingOK
<1>1. /\ VCP_DataAvail \in 0 .. RX_SIZE - 1
      /\ VCP_DataAvailContig \in 0 .. VCP_DataAvail
      /\ rx_tail + VCP_DataAvailContig <= RX_SIZE
  BY AvailType DEF OutTypeOK, OutRingOK, VCP_DataAvailContig, ring_data_contig
<1>2. ASSUME UNCHANGED <<outVars, frame_count>>
      PROVE  /\ OutTypeOK' /\ OutRingOK' /\ FrameOK'
             /\ rx_ep' = "armed" => rx_ptr' + OUT_PKT <= RX_SIZE
             /\ ~rx_active' => rx_ep' = "nak"
             /\ rx_size' > OUT_PKT /\ rx_size' > RX_SIZE - OUT_PKT
             /\ rx_tail' = rx_tail
  BY <1>2 DEF outVars, ringVars, epVars, OutTypeOK, OutRingOK, RdTypeOK, FrameOK
<1>3. ASSUME NEW n \in 1 .. MaxRead, StartGet(n) PROVE SafeInv'
  BY <1>1, <1>2, <1>3 DEF StartGet, RdTypeOK
<1>4. ASSUME NEW n \in 1 .. MaxRead, SkipAvail(n) PROVE SafeInv'
  BY <1>1, <1>2, <1>4 DEF SkipAvail, RdTypeOK, MIN_
<1>5. CASE GetAvail
  BY <1>1, <1>2, <1>5 DEF GetAvail, RdTypeOK, MIN_, OutTypeOK
<1>6. CASE GetCopy
  <2>1. rx_buf[rx_tail + rd_off] \in Nat \cup {JUNK}
    BY <1>6 DEF GetCopy, OutTypeOK, RdTypeOK
  <2>2. rd_out' \in Seq(Nat \cup {JUNK})
    <3>1. ASSUME NEW x \in Nat \cup {JUNK} PROVE <<x>> \in Seq(Nat \cup {JUNK})
      BY ONLY <3>1
    <3> QED
      BY <1>6, <2>1, <3>1 DEF GetCopy
  <2> QED
    BY <1>2, <1>6, <2>2 DEF GetCopy, RdTypeOK
<1>7. CASE GetMark \/ SkipMark
  <2>1. /\ rx_tail' = ring_wrap(rx_size, rx_tail + rd_sz)
        /\ rx_read' = rx_read + rd_sz /\ frame_count' = frame_count
        /\ UNCHANGED <<rx_buf, rx_head, rx_size, rx_active, rx_total, rx_ep, rx_ptr, rx_cnt>>
    BY <1>7 DEF GetMark, SkipMark, VCP_MarkRead, epVars
  <2>2. rd_sz \in Nat /\ rx_tail' \in 0 .. rx_size - 1
    <3>1. rd_sz \in Nat /\ rx_tail \in 0 .. rx_size - 1 /\ rx_size \in Nat
      BY DEF OutTypeOK, OutRingOK, RdTypeOK
    <3>2. rx_tail' < rx_size
      BY <2>1 DEF TailInRing
    <3> QED
      BY <2>1, <3>1, <3>2 DEF ring_wrap
  <2>3. OutTypeOK' /\ OutRingOK' /\ FrameOK'
    BY <2>1, <2>2 DEF OutTypeOK, OutRingOK, RdTypeOK, FrameOK
  <2>4. RdTypeOK' /\ rd_want' + rd_ret' <= MaxRead /\ rd_pc' \in {"idle", "avail"}
    BY <1>7, <2>3 DEF GetMark, SkipMark, RdTypeOK
  <2> QED
    BY <2>1, <2>3, <2>4
<1> QED
  BY <1>3, <1>4, <1>5, <1>6, <1>7 DEF MainLoop, Get

(* Resetting, suspending and configuring the device.                       *)
CoreStep ==
  \/ BusReset \/ USBD_Suspend \/ USBD_Resume
  \/ USBD_SetAddress \/ SetConfiguration \/ ClearConfiguration

LEMMA CoreSafe ==
  ASSUME SafeInv, CoreStep
  PROVE  SafeInv'
<1> USE OutAssumption DEF SafeInv
<1>1. /\ UNCHANGED <<rx_buf, rx_head, rx_tail, rx_size, rx_total, frame_count, rdVars>>
      /\ rx_read' \in Nat
  BY DEF CoreStep, BusReset, USBD_Suspend, USBD_Resume, USBD_SetAddress, SetConfiguration,
     ClearConfiguration, usbd_cdc_Init, vars, outVars, ringVars, OutTypeOK
<1>2. /\ rx_ep' \in {"nak", "armed", "full"} /\ rx_ptr' \in 0 .. RX_SIZE - 1
      /\ rx_cnt' \in 0 .. OUT_PKT /\ rx_active' \in BOOLEAN
      /\ rx_ep' = "armed" => rx_ptr' + OUT_PKT <= RX_SIZE
      /\ ~rx_active' => rx_ep' = "nak"
  <2>1. CASE SetConfiguration
    BY <2>1 DEF SetConfiguration, usbd_cdc_Init, OutTypeOK
  <2>2. CASE BusReset \/ ClearConfiguration
    BY <2>2 DEF BusReset, ClearConfiguration, ringVars, OutTypeOK
  <2>3. CASE USBD_Suspend \/ USBD_Resume \/ USBD_SetAddress
    BY <2>3 DEF USBD_Suspend, USBD_Resume, USBD_SetAddress, vars, outVars, ringVars, epVars, OutTypeOK
  <2> QED
    BY <2>1, <2>2, <2>3 DEF CoreStep
<1>3. OutTypeOK' /\ OutRingOK' /\ RdTypeOK'
  BY <1>1, <1>2 DEF OutTypeOK, OutRingOK, RdTypeOK, rdVars, FrameOK
<1> QED
  BY <1>1, <1>2, <1>3 DEF rdVars

LEMMA SafeStep ==
  ASSUME SafeInv, TailInRing', [SessionNext]_sessionVars
  PROVE  SafeInv'
<1>1. CASE CoreStep
  BY <1>1, CoreSafe
<1>2. CASE SessionHostOut \/ SessionDataOut \/ SessionSOF
  BY <1>2, HandlersSafe DEF SessionHostOut, SessionDataOut, SessionSOF
<1>3. CASE SessionMain
  BY <1>3, ReaderSafe DEF SessionMain
<1>4. CASE UNCHANGED sessionVars
  BY <1>4 DEF sessionVars, vars, outVars, ringVars, epVars, rdVars, SafeInv, OutTypeOK,
              OutRingOK, RdTypeOK, FrameOK
<1> QED
  BY <1>1, <1>2, <1>3, <1>4 DEF SessionNext, CoreStep

(* Where the tail has left the ring, the model ends; that takes a skip     *)
(* longer than the ring, in a session that did not begin with it empty.    *)
TailLost == ~TailInRing /\ overlong /\ ~quiet

LEMMA TailLeaves ==
  ASSUME SInv, ~TailInRing', [SessionNext]_sessionVars
  PROVE  TailLost'
<1> USE OutAssumption, RxAssumption
<1>1. SafeInv /\ QuietInv /\ OutTypeOK /\ OutRingOK /\ RdTypeOK
  BY DEF SInv, SafeInv
<1>2. TailInRing /\ (SafeInv' => TailInRing')
  BY <1>1 DEF SafeInv, OutRingOK, RingOK, TailInRing, OutTypeOK
<1>3. SessionMain
  <2>1. CASE CoreStep
    BY <1>1, <1>2, <2>1, CoreSafe
  <2>2. CASE SessionHostOut \/ SessionDataOut \/ SessionSOF
    BY <1>1, <1>2, <2>2, HandlersSafe DEF SessionHostOut, SessionDataOut, SessionSOF
  <2>3. CASE UNCHANGED sessionVars
    BY <1>2, <2>3 DEF sessionVars, vars, outVars, ringVars, TailInRing
  <2> QED
    BY <2>1, <2>2, <2>3 DEF SessionNext, CoreStep
<1>4. GetMark \/ SkipMark
  <2>1. CASE UNCHANGED outVars
    BY <1>2, <2>1 DEF outVars, ringVars, TailInRing
  <2> QED
    BY <1>3, <2>1 DEF SessionMain, MainLoop, Get, StartGet, SkipAvail, GetAvail, GetCopy
<1>5. rx_tail' = ring_wrap(rx_size, rx_tail + rd_sz) /\ rx_size' = rx_size
  BY <1>4 DEF GetMark, SkipMark, VCP_MarkRead
<1>6. /\ rx_tail \in 0 .. rx_size - 1 /\ rx_size \in Nat /\ rd_sz \in Nat
      /\ ~(rx_tail' < rx_size)
  BY <1>1, <1>2, <1>5 DEF OutTypeOK, OutRingOK, RingOK, RdTypeOK, TailInRing
<1>7. rd_sz > rx_size
  BY <1>5, <1>6 DEF ring_wrap
<1>8. SkipMark
  <2>1. ASSUME GetMark PROVE FALSE
    <3>1. rx_tail + rd_sz <= RX_SIZE /\ rx_size > OUT_PKT /\ rx_size > RX_SIZE - OUT_PKT
      BY <1>1, <2>1 DEF GetMark, SafeInv
    <3> QED
      BY <1>5, <1>6, <3>1 DEF ring_wrap
  <2> QED
    BY <1>4, <2>1
<1>9. overlong' /\ quiet' = quiet
  BY <1>3, <1>7, <1>8 DEF SessionMain, NoteSkip, SkipMark, beganVars
<1>10. ~quiet
  <2>1. quiet => rd_sz <= VCP_DataAvail
    BY <1>1, <1>8 DEF QuietInv, SkipMark
  <2>2. VCP_DataAvail < rx_size
    BY <1>1, <1>6 DEF VCP_DataAvail, ring_data_avail, OutTypeOK, OutRingOK, RingOK
  <2>3. VCP_DataAvail \in Int
    BY <1>1, AvailType
  <2> QED
    BY <1>6, <1>7, <2>1, <2>2, <2>3
<1> QED
  BY <1>9, <1>10 DEF TailLost

-----------------------------------------------------------------------------
(* Content: the same steps, in a session that began with an empty ring     *)

LEMMA HistoryUndisturbed ==
  ASSUME QuietInv, UNCHANGED beganVars,
         quiet => /\ ContentBut(First)'
                  /\ first_end <= rx_total'
                  /\ (Fresh \/ (WindowOK /\ PendingOK))'
                  /\ rd_pc' \in {"copy", "mark", "skip"} => rd_sz' <= VCP_DataAvail'
  PROVE  QuietInv'
  BY DEF QuietInv, beganVars

LEMMA QuietCore ==
  ASSUME SafeInv, QuietInv, CoreStep
  PROVE  QuietInv'
<1> USE OutAssumption
<1>1. /\ UNCHANGED <<rx_buf, rx_head, rx_tail, rx_size, rx_total, frame_count, rdVars>>
      /\ VCP_DataAvail' = VCP_DataAvail
  BY DEF CoreStep, BusReset, USBD_Suspend, USBD_Resume, USBD_SetAddress, SetConfiguration,
     ClearConfiguration, usbd_cdc_Init, vars, outVars, ringVars, VCP_DataAvail
<1>2. CASE SetConfiguration
  <2>1. /\ rd_pc' = "idle" /\ rx_total \in Nat
        /\ began' = rx_total /\ first_end' = rx_total
        /\ quiet' => rx_head = rx_tail /\ rx_read' = rx_total
    BY <1>2, Zenon DEF SetConfiguration, rdVars, SafeInv, OutTypeOK
  <2>2. rx_head = rx_tail => VCP_DataAvail = 0
    BY DEF VCP_DataAvail, ring_data_avail, SafeInv, OutTypeOK
  <2>3. quiet' => ContentBut(First)' /\ Fresh'
    <3>1. ASSUME rx_head = rx_tail, rx_read' = rx_total
          PROVE  ContentBut(First)' /\ Fresh'
      BY <1>1, <2>1, <2>2, <3>1 DEF ContentBut, Fresh
    <3> QED
      BY <2>1, <3>1
  <2> QED
    BY <1>1, <2>1, <2>3 DEF QuietInv
<1>3. CASE CoreStep /\ ~SetConfiguration
  <2>1. UNCHANGED beganVars /\ rx_read' = rx_read
    BY <1>3 DEF CoreStep, BusReset, USBD_Suspend, USBD_Resume, USBD_SetAddress,
       ClearConfiguration, vars, outVars, historyVars
  <2>2. rx_ep' = "nak" \/ UNCHANGED <<rx_ep, rx_ptr, rx_cnt>>
    BY <1>3 DEF CoreStep, BusReset, USBD_Suspend, USBD_Resume, USBD_SetAddress,
       ClearConfiguration, vars, outVars, epVars
  <2>3. quiet => ContentBut(First)'
    BY <1>1, <2>1 DEF QuietInv, ContentBut, First, beganVars
  <2>4. quiet => (Fresh \/ (WindowOK /\ PendingOK))'
    BY <1>1, <2>1, <2>2 DEF QuietInv, Fresh, WindowOK, PendingOK, beganVars
  <2> QED
    BY <1>1, <2>1, <2>3, <2>4, HistoryUndisturbed DEF QuietInv, rdVars
<1> QED
  BY <1>2, <1>3

LEMMA QuietHostOut ==
  ASSUME SafeInv, QuietInv, SessionHostOut
  PROVE  QuietInv'
<1> USE OutAssumption
<1>1. PICK n \in 0 .. OUT_PKT : RxData(n)
  BY DEF SessionHostOut, HostOut
<1>2. /\ UNCHANGED <<rx_head, rx_tail, rx_size, rx_total, rx_ptr, rx_read>>
      /\ rx_ep = "armed" /\ rx_ep' = "full" /\ rx_cnt' = n
      /\ VCP_DataAvail' = VCP_DataAvail
  BY <1>1 DEF RxData, ringVars, VCP_DataAvail
<1>3. UNCHANGED beganVars /\ UNCHANGED rdVars
  BY DEF SessionHostOut, HostOut, historyVars
<1>4. OutTypeOK /\ OutRingOK
  BY DEF SafeInv
<1>5. ASSUME quiet, Fresh
      PROVE  ContentBut(First)' /\ Fresh'
  <2>1. VCP_DataAvail = 0
    BY <1>4, <1>5 DEF Fresh, VCP_DataAvail, ring_data_avail, OutTypeOK
  <2> QED
    BY <1>2, <1>3, <1>5, <2>1 DEF QuietInv, ContentBut, Fresh, beganVars
<1>6. ASSUME quiet, WindowOK, PendingOK
      PROVE  ContentBut(First)' /\ WindowOK' /\ PendingOK'
  <2>1. /\ \A j \in 0 .. n - 1 : rx_buf'[rx_head + j] = rx_total + j
        /\ \A j \in 0 .. VCP_DataAvail - 1 :
             rx_buf'[RingSlot(rx_size, rx_tail, j)] = rx_buf[RingSlot(rx_size, rx_tail, j)]
    BY <1>1, <1>4, <1>6, PacketStored
  <2>2. ContentBut(First)'
    BY <1>2, <1>3, <1>6, <2>1 DEF QuietInv, ContentBut, First, beganVars
  <2>3. WindowOK' /\ PendingOK'
    BY <1>2, <1>6, <2>1 DEF WindowOK, PendingOK
  <2> QED
    BY <2>2, <2>3
<1> QED
  BY <1>2, <1>3, <1>5, <1>6, HistoryUndisturbed DEF QuietInv, rdVars

(* try_start_rx, from a ring whose bytes up to the head h are right but    *)
(* for the first packet's.                                                 *)
LEMMA QuietStart ==
  ASSUME SafeInv, NEW h \in 0 .. RX_SIZE - 1, RingOK(rx_size, h, rx_tail), try_start_rx(h),
         rx_buf' = rx_buf, rx_read' = rx_read,
         NEW avail, avail = ring_data_avail(rx_size, h, rx_tail),
         rx_total' = rx_read + avail,
         \A j \in 0 .. avail - 1 :
            rx_read + j \in First' \/ rx_buf[RingSlot(rx_size, rx_tail, j)] = rx_read + j
  PROVE  /\ ContentBut(First)' /\ WindowOK' /\ PendingOK'
         /\ VCP_DataAvail' = avail
<1>1. /\ WindowOK' /\ rx_ep' # "full" /\ VCP_DataAvail' = avail
      /\ \A j \in 0 .. avail - 1 :
           RingSlot(rx_size', rx_tail', j) = RingSlot(rx_size, rx_tail, j)
  BY TryStart DEF SafeInv
<1> QED
  BY <1>1 DEF ContentBut, PendingOK

LEMMA QuietDataOut ==
  ASSUME SafeInv, QuietInv, SessionDataOut
  PROVE  QuietInv'
<1> USE OutAssumption
<1> DEFINE h     == ring_wrap(rx_size, rx_head + rx_cnt)
           avail == ring_data_avail(rx_size, h, rx_tail)
<1>1. /\ rx_ep = "full" /\ try_start_rx(h)
      /\ rx_total' = rx_total + rx_cnt /\ rx_read' = rx_read /\ rx_buf' = rx_buf
      /\ UNCHANGED rdVars
      /\ began' = began /\ quiet' = quiet
      /\ first_end' = IF first_end = began THEN rx_total' ELSE first_end
  BY DEF SessionDataOut, DataOut, usbd_cdc_DataOut
<1>2. /\ OutTypeOK /\ OutRingOK /\ rx_cnt \in Nat /\ rx_read \in Nat /\ rx_total \in Nat
      /\ began \in Nat /\ first_end \in Nat
      /\ VCP_DataAvail \in 0 .. RX_SIZE - 1
  BY AvailType DEF SafeInv, OutTypeOK, QuietInv
<1>3. RingOK(rx_size, h, rx_tail) /\ h \in 0 .. RX_SIZE - 1
  BY DEF SafeInv, OutTypeOK, OutRingOK, ring_wrap, RingOK
<1>4. began' \in Nat /\ first_end' \in Nat
  BY <1>1, <1>2
<1>5. ASSUME quiet
      PROVE  /\ began' <= first_end' /\ first_end' <= rx_total'
             /\ \A x \in First : x \in First'
  BY <1>1, <1>2, <1>5 DEF QuietInv, First
<1>6. ASSUME quiet, Fresh
      PROVE  /\ avail = VCP_DataAvail + rx_cnt
             /\ \A j \in 0 .. avail - 1 :
                  rx_read + j \in First' \/ rx_buf[RingSlot(rx_size, rx_tail, j)] = rx_read + j
  <2>1. VCP_DataAvail = 0 /\ avail = rx_cnt
    BY <1>6 DEF Fresh, VCP_DataAvail, ring_data_avail, ring_wrap, SafeInv, OutTypeOK,
                OutRingOK, RingOK
  <2>2. rx_read = began /\ rx_total = began /\ first_end = began
    BY <1>2, <1>6, <2>1 DEF Fresh, QuietInv, ContentBut
  <2>3. First' = began .. began + rx_cnt - 1
    <3>1. first_end' = began + rx_cnt /\ began' = began
      BY <1>1, <2>2, <1>2
    <3> QED
      BY <1>2, <3>1 DEF First
  <2>4. ASSUME NEW j \in 0 .. rx_cnt - 1 PROVE rx_read + j \in First'
    BY <1>2, <2>2, <2>3
  <2> HIDE DEF avail
  <2> QED
    BY <1>2, <2>1, <2>4
<1>7. ASSUME quiet, WindowOK, PendingOK
      PROVE  /\ avail = VCP_DataAvail + rx_cnt
             /\ \A j \in 0 .. avail - 1 :
                  rx_read + j \in First' \/ rx_buf[RingSlot(rx_size, rx_tail, j)] = rx_read + j
  <2>1. /\ avail = VCP_DataAvail + rx_cnt
        /\ \A j \in 0 .. avail - 1 : j >= VCP_DataAvail =>
             RingSlot(rx_size, rx_tail, j) = rx_head + (j - VCP_DataAvail)
    BY <1>1, <1>2, <1>7, PacketCounted
  <2>2. ASSUME NEW j \in 0 .. avail - 1
        PROVE  rx_read + j \in First' \/ rx_buf[RingSlot(rx_size, rx_tail, j)] = rx_read + j
    <3> HIDE DEF avail
    <3>1. CASE j < VCP_DataAvail
      <4>1. j \in 0 .. VCP_DataAvail - 1
        BY <1>2, <2>1, <3>1
      <4>2. rx_read + j \in First \/ rx_buf[RingSlot(rx_size, rx_tail, j)] = rx_read + j
        BY <1>7, <4>1 DEF QuietInv, ContentBut
      <4> QED
        BY <1>5, <1>7, <4>2
    <3>2. CASE j >= VCP_DataAvail
      <4> DEFINE i == j - VCP_DataAvail
      <4>1. i \in 0 .. rx_cnt - 1
        BY <1>2, <2>1, <3>2
      <4>2. rx_buf[rx_head + i] = rx_total + i
        BY <1>1, <1>7, <4>1 DEF PendingOK
      <4>3. rx_total + i = rx_read + j
        BY <1>2, <1>7, <2>1 DEF QuietInv, ContentBut
      <4> QED
        BY <2>1, <3>2, <4>2, <4>3
    <3> QED
      BY <1>2, <2>1, <3>1, <3>2
  <2> QED
    BY <2>1, <2>2
<1> HIDE DEF avail, h
<1>8. ASSUME quiet
      PROVE  /\ ContentBut(First)' /\ WindowOK' /\ PendingOK'
             /\ VCP_DataAvail' = VCP_DataAvail + rx_cnt
  <2>1. /\ avail = VCP_DataAvail + rx_cnt
        /\ \A j \in 0 .. avail - 1 :
             rx_read + j \in First' \/ rx_buf[RingSlot(rx_size, rx_tail, j)] = rx_read + j
    BY <1>6, <1>7, <1>8 DEF QuietInv
  <2>2. rx_total' = rx_read + avail
    BY <1>1, <1>2, <1>8, <2>1 DEF QuietInv, ContentBut
  <2>3. avail = ring_data_avail(rx_size, h, rx_tail)
    BY DEF avail
  <2> QED
    BY <1>1, <1>3, <2>1, <2>2, <2>3, QuietStart
<1>9. ASSUME quiet, rd_pc' \in {"copy", "mark", "skip"}
      PROVE  rd_sz' <= VCP_DataAvail'
  <2>1. rd_sz <= VCP_DataAvail /\ rd_sz \in Nat
    BY <1>1, <1>9 DEF QuietInv, rdVars, SafeInv, RdTypeOK
  <2>2. VCP_DataAvail' = VCP_DataAvail + rx_cnt
    BY <1>8, <1>9
  <2> QED
    BY <1>1, <1>2, <2>1, <2>2 DEF rdVars
<1> QED
  BY <1>1, <1>4, <1>5, <1>8, <1>9 DEF QuietInv

LEMMA QuietSOF ==
  ASSUME SafeInv, QuietInv, SessionSOF
  PROVE  QuietInv'
<1> USE OutAssumption
<1>1. UNCHANGED beganVars /\ UNCHANGED rdVars
  BY DEF SessionSOF, usbd_cdc_SOF, historyVars
<1>2. CASE UNCHANGED outVars
  <2>1. /\ UNCHANGED <<rx_buf, rx_head, rx_tail, rx_size, rx_total, rx_ep, rx_ptr, rx_cnt, rx_read>>
        /\ VCP_DataAvail' = VCP_DataAvail
    BY <1>2 DEF outVars, ringVars, epVars, VCP_DataAvail
  <2>2. quiet => /\ ContentBut(First)'
                 /\ (Fresh \/ (WindowOK /\ PendingOK))'
    BY <1>1, <2>1 DEF QuietInv, ContentBut, First, Fresh, WindowOK, PendingOK, beganVars
  <2> QED
    BY <1>1, <2>1, <2>2, HistoryUndisturbed DEF QuietInv, rdVars
<1>3. CASE try_start_rx(rx_head) /\ UNCHANGED <<rx_buf, rx_total, rx_read>>
  <2>1. rx_head \in 0 .. RX_SIZE - 1 /\ RingOK(rx_size, rx_head, rx_tail)
    BY DEF SafeInv, OutTypeOK, OutRingOK
  <2>2. ASSUME quiet
        PROVE  ContentBut(First)' /\ WindowOK' /\ PendingOK' /\ VCP_DataAvail' = VCP_DataAvail
    <3>1. /\ rx_total' = rx_read + VCP_DataAvail
          /\ \A j \in 0 .. VCP_DataAvail - 1 :
               rx_read + j \in First' \/ rx_buf[RingSlot(rx_size, rx_tail, j)] = rx_read + j
      BY <1>1, <1>3, <2>2 DEF QuietInv, ContentBut, First, beganVars
    <3>2. VCP_DataAvail = ring_data_avail(rx_size, rx_head, rx_tail)
      BY DEF VCP_DataAvail
    <3> QED
      BY <1>3, <2>1, <3>1, <3>2, QuietStart
  <2> QED
    BY <1>1, <1>3, <2>2, HistoryUndisturbed DEF QuietInv, rdVars
<1> QED
  BY <1>2, <1>3 DEF SessionSOF, usbd_cdc_SOF, schedule_cdc_out

LEMMA QuietMain ==
  ASSUME SafeInv, QuietInv, SessionMain
  PROVE  QuietInv'
<1> USE OutAssumption, RxAssumption
<1>1. UNCHANGED beganVars /\ MainLoop
  BY DEF SessionMain, NoteSkip
<1>2. /\ OutTypeOK /\ OutRingOK /\ RdTypeOK
      /\ VCP_DataAvail \in 0 .. RX_SIZE - 1 /\ VCP_DataAvailContig \in 0 .. VCP_DataAvail
  BY AvailType DEF SafeInv
<1>3. CASE (\E n \in 1 .. MaxRead : StartGet(n) \/ SkipAvail(n)) \/ GetAvail \/ GetCopy
  <2>1. UNCHANGED outVars
    BY <1>3 DEF StartGet, SkipAvail, GetAvail, GetCopy
  <2>2. /\ UNCHANGED <<rx_buf, rx_head, rx_tail, rx_size, rx_total, rx_ep, rx_ptr, rx_cnt, rx_read>>
        /\ VCP_DataAvail' = VCP_DataAvail
    BY <2>1 DEF outVars, ringVars, epVars, VCP_DataAvail
  <2>3. quiet => /\ ContentBut(First)'
                 /\ (Fresh \/ (WindowOK /\ PendingOK))'
    BY <1>1, <2>2 DEF QuietInv, ContentBut, First, Fresh, WindowOK, PendingOK, beganVars
  <2>4. ASSUME quiet, rd_pc' \in {"copy", "mark", "skip"}
        PROVE  rd_sz' <= VCP_DataAvail'
    <3>1. ASSUME NEW n \in 1 .. MaxRead, StartGet(n) \/ SkipAvail(n)
          PROVE  rd_sz' <= VCP_DataAvail'
      BY <1>2, <2>2, <2>4, <3>1 DEF StartGet, SkipAvail, MIN_
    <3>2. CASE GetAvail
      BY <1>2, <2>2, <3>2 DEF GetAvail, MIN_, RdTypeOK
    <3>3. CASE GetCopy
      BY <2>2, <2>4, <3>3 DEF GetCopy, QuietInv
    <3> QED
      BY <1>3, <3>1, <3>2, <3>3
  <2> QED
    BY <1>1, <2>2, <2>3, <2>4, HistoryUndisturbed DEF QuietInv
<1>4. CASE GetMark \/ SkipMark
  <2>1. /\ VCP_MarkRead(rd_sz) /\ rd_pc \in {"mark", "skip"}
        /\ rd_pc' \in {"idle", "avail"}
    BY <1>4 DEF GetMark, SkipMark
  <2>2. ASSUME quiet
        PROVE  ContentBut(First)' /\ (Fresh \/ (WindowOK /\ PendingOK))'
    <3>1. rd_sz \in 0 .. VCP_DataAvail
      BY <1>2, <2>1, <2>2 DEF QuietInv, RdTypeOK
    <3>2. /\ VCP_DataAvail' = VCP_DataAvail - rd_sz
          /\ WindowOK => WindowOK'
          /\ \A j \in 0 .. VCP_DataAvail' - 1 :
               RingSlot(rx_size', rx_tail', j) = RingSlot(rx_size, rx_tail, rd_sz + j)
      BY <1>2, <2>1, <3>1, MarkReadRing
    <3>3. /\ rx_read' = rx_read + rd_sz
          /\ rx_tail' = ring_wrap(rx_size, rx_tail + rd_sz)
          /\ UNCHANGED <<rx_buf, rx_head, rx_size, rx_total, rx_ep, rx_cnt>>
          /\ First' = First
      BY <1>1, <2>1 DEF VCP_MarkRead, epVars, First, beganVars
    <3>4. ASSUME NEW j \in 0 .. VCP_DataAvail' - 1
          PROVE  \/ rx_read' + j \in First'
                 \/ rx_buf'[RingSlot(rx_size', rx_tail', j)] = rx_read' + j
      <4>1. rd_sz + j \in 0 .. VCP_DataAvail - 1
        BY <1>2, <3>1, <3>2
      <4>2. \/ rx_read + (rd_sz + j) \in First
            \/ rx_buf[RingSlot(rx_size, rx_tail, rd_sz + j)] = rx_read + (rd_sz + j)
        BY <2>2, <4>1 DEF QuietInv, ContentBut
      <4>3. rx_read' + j = rx_read + (rd_sz + j)
        BY <1>2, <3>1, <3>3 DEF OutTypeOK
      <4> QED
        BY <3>2, <3>3, <4>2, <4>3
    <3>5. rx_total' = rx_read' + VCP_DataAvail'
      BY <1>2, <2>2, <3>1, <3>2, <3>3 DEF QuietInv, ContentBut, OutTypeOK
    <3>6. ContentBut(First)'
      BY <3>4, <3>5 DEF ContentBut
    <3>7. Fresh => Fresh'
      <4>1. ASSUME Fresh PROVE rx_tail' = rx_tail
        <5>1. VCP_DataAvail = 0
          BY <1>2, <4>1 DEF Fresh, VCP_DataAvail, ring_data_avail, OutTypeOK
        <5> QED
          BY <1>2, <3>1, <3>3, <5>1 DEF ring_wrap, OutTypeOK, OutRingOK, RingOK
      <4> QED
        BY <1>1, <3>3, <4>1 DEF Fresh, beganVars
    <3>8. PendingOK => PendingOK'
      BY <3>3 DEF PendingOK
    <3> QED
      BY <2>2, <3>2, <3>6, <3>7, <3>8 DEF QuietInv
  <2>3. rx_total' = rx_total
    BY <2>1 DEF VCP_MarkRead
  <2> QED
    BY <1>1, <2>1, <2>2, <2>3, HistoryUndisturbed DEF QuietInv
<1> QED
  BY <1>1, <1>3, <1>4 DEF MainLoop, Get

LEMMA SessionStepInv ==
  ASSUME SInv, TailInRing', [SessionNext]_sessionVars
  PROVE  SInv'
<1>1. SafeInv'
  BY SafeStep DEF SInv
<1>2. QuietInv'
  <2>1. CASE CoreStep
    BY <2>1, QuietCore DEF SInv
  <2>2. CASE SessionHostOut
    BY <2>2, QuietHostOut DEF SInv
  <2>3. CASE SessionDataOut
    BY <2>3, QuietDataOut DEF SInv
  <2>4. CASE SessionSOF
    BY <2>4, QuietSOF DEF SInv
  <2>5. CASE SessionMain
    BY <2>5, QuietMain DEF SInv
  <2>6. CASE UNCHANGED sessionVars
    BY <2>6 DEF SInv, sessionVars, vars, outVars, ringVars, epVars, rdVars, historyVars, beganVars,
                QuietInv, ContentBut, First, Fresh, WindowOK, PendingOK, VCP_DataAvail
  <2> QED
    BY <2>1, <2>2, <2>3, <2>4, <2>5, <2>6 DEF SessionNext, CoreStep
<1> QED
  BY <1>1, <1>2 DEF SInv

LEMMA SessionInvariant == SessionSpec => [](SInv \/ TailLost)
<1>1. ASSUME SInv \/ TailLost, [SessionNext]_sessionVars
      PROVE  (SInv \/ TailLost)'
  <2>1. CASE SInv
    BY <1>1, <2>1, SessionStepInv, TailLeaves
  <2>2. CASE TailLost
    <3>1. UNCHANGED sessionVars
      BY <1>1, <2>2 DEF SessionNext, TailLost
    <3> QED
      BY <2>2, <3>1 DEF TailLost, TailInRing, sessionVars, vars, outVars, ringVars,
                        historyVars, beganVars
  <2> QED
    BY <1>1, <2>1, <2>2
<1> QED
  BY <1>1, SessionInitInv, PTL DEF SessionSpec

(* Whatever resets, suspends and reconfigures the device at whatever       *)
(* moment, and in whatever state the ring then is: the indices of          *)
(* usbd_cdc_core.c stay inside the ring, no packet is stored past the end  *)
(* of the buffer and no byte is copied from beyond it, until VCP_MarkRead  *)
(* marks a skip that is longer than the ring has become.                   *)
THEOREM SessionsMemorySafe == SessionSpec => []SafeButForLongSkips
<1>1. SInv => MemorySafe
  BY OutAssumption DEF SInv, SafeInv, MemorySafe, OutTypeOK, RdTypeOK
<1>2. SInv \/ TailLost => SafeButForLongSkips
  BY <1>1 DEF SafeButForLongSkips, TailLost
<1> QED
  BY <1>2, SessionInvariant, PTL

(* A session that begins with an empty ring loses no byte, adds none, and  *)
(* hands over unchanged all but those of its first packet with data; it is *)
(* no session of this kind in which the tail leaves the ring.              *)
THEOREM SessionContentSafe == SessionSpec => []OnlyFirstSpoilt
<1>1. SInv \/ TailLost => OnlyFirstSpoilt
  BY DEF SInv, QuietInv, OnlyFirstSpoilt, TailLost
<1> QED
  BY <1>1, SessionInvariant, PTL
=============================================================================
