------------------------------- MODULE CdcTx --------------------------------
(***************************************************************************)
(* Transmission as the packet API uses it: the interrupt handlers of CdcIn *)
(* against a main loop that writes with usb_api_put_data (usb_api.c), that *)
(* is with VCP_Put.  The k-th byte it writes is the number k.              *)
(***************************************************************************)
EXTENDS CdcIn

CONSTANTS
  MaxWrite,   (* bound: the longest write the main loop makes    *)
  MaxBytes    (* bound: how many bytes the main loop writes      *)

ASSUME TxAssumption == MaxWrite \in Nat \ {0} /\ MaxBytes \in Nat

VARIABLES
  wr_pc,     (* where the main loop is                                     *)
  wr_want,   (* len of the VCP_PutContig under way                         *)
  wr_sz,     (* its sz                                                     *)
  wr_off,    (* bytes its memcpy has copied                                *)
  wr_ret,    (* bytes earlier VCP_PutContig calls of this VCP_Put returned *)
  wr_seen    (* has_space: what VCP_SpaceAvail returned before             *)

wrVars == <<wr_pc, wr_want, wr_sz, wr_off, wr_ret, wr_seen>>
vars   == <<inVars, frame_count, wrVars>>

Init ==
  /\ InInit
  /\ FrameInit
  /\ wr_pc = "idle"
  /\ wr_want = 0
  /\ wr_sz = 0
  /\ wr_off = 0
  /\ wr_ret = 0
  /\ wr_seen = 0

-----------------------------------------------------------------------------
(* usb_api_process samples VCP_SpaceAvail; then it, or a callback it       *)
(* calls, enters VCP_Put(buff, n).                                         *)
StartPut(n) ==
  /\ MainRuns
  /\ wr_pc = "idle"
  /\ tx_written + n <= MaxBytes
  /\ wr_pc' = "space"
  /\ wr_seen' = VCP_SpaceAvail
  /\ wr_want' = n
  /\ wr_ret' = 0
  /\ UNCHANGED <<wr_sz, wr_off, inVars, frame_count>>

(* VCP_PutContig: sz = MIN_(VCP_SpaceAvailContig(), len). *)
PutSpace ==
  /\ MainRuns
  /\ wr_pc = "space"
  /\ wr_sz' = MIN_(VCP_SpaceAvailContig, wr_want)
  /\ wr_off' = 0
  /\ wr_pc' = IF wr_sz' = 0 THEN "idle" ELSE "copy"
  /\ UNCHANGED <<wr_want, wr_ret, wr_seen, inVars, frame_count>>

(* VCP_PutContig: one byte of memcpy(VCP_SpacePtr(), buff, sz).            *)
PutCopy ==
  /\ MainRuns
  /\ wr_pc = "copy"
  /\ tx_buf' = [tx_buf EXCEPT ![tx_head + wr_off] = tx_written + wr_off]
  /\ wr_off' = wr_off + 1
  /\ wr_pc' = IF wr_off' = wr_sz THEN "mark" ELSE "copy"
  /\ UNCHANGED <<wr_want, wr_sz, wr_ret, wr_seen,
                 inRingVars, inEpVars, hostVars, frame_count>>

(* A slip: VCP_Put is content with one piece.                              *)
OnePiece == FALSE

(* VCP_Put calls VCP_PutContig again if the first call took some but not   *)
(* all of the bytes.                                                       *)
SecondPiece == wr_ret = 0 /\ wr_want # wr_sz

(* VCP_PutContig: VCP_MarkWritten(sz).                                     *)
PutMark ==
  /\ MainRuns
  /\ wr_pc = "mark"
  /\ VCP_MarkWritten(wr_sz)
  /\ wr_want' = wr_want - wr_sz
  /\ wr_ret' = wr_ret + wr_sz
  /\ wr_pc' = IF SecondPiece THEN "space" ELSE "idle"
  /\ UNCHANGED <<wr_sz, wr_off, wr_seen, frame_count>>

Put == PutSpace \/ PutCopy \/ PutMark

MainLoop == Put \/ \E n \in 1 .. MaxWrite : StartPut(n)

(* The start-of-frame interrupt, as far as transmission is concerned.      *)
usbd_cdc_SOF ==
  /\ CountFrame
  /\ IF FrameDue THEN schedule_cdc_in ELSE UNCHANGED inVars
  /\ UNCHANGED wrVars

DataIn == usbd_cdc_DataIn /\ UNCHANGED wrVars
TxFifo == DCD_WriteEmptyTxFifo /\ UNCHANGED wrVars

Host == HostIn /\ UNCHANGED wrVars

Next == DataIn \/ TxFifo \/ Host \/ usbd_cdc_SOF \/ MainLoop

Spec == Init /\ [][Next]_vars

(* Pending interrupts are taken, frames go on, the host polls the endpoint *)
(* and a VCP_Put once entered goes on.  The main loop need not write.      *)
Fairness ==
  /\ WF_vars(DataIn)
  /\ WF_vars(TxFifo)
  /\ WF_vars(Host)
  /\ WF_vars(usbd_cdc_SOF)
  /\ WF_vars(Put)

FairSpec == Spec /\ Fairness

-----------------------------------------------------------------------------
(* Safety                                                                  *)

WrTypeOK ==
  /\ FrameOK
  /\ wr_pc \in {"idle", "space", "copy", "mark"}
  /\ wr_want \in 0 .. MaxWrite
  /\ wr_sz \in 0 .. MaxWrite
  /\ wr_off \in 0 .. MaxWrite
  /\ wr_ret \in 0 .. MaxWrite
  /\ wr_seen \in 0 .. TX_SIZE - 1

(* The variables of the pipe and of the writer have their types. *)
TypeOK == InTypeOK /\ WrTypeOK

(* The space the writer sampled is still free while it fills it, and holds *)
(* the bytes copied so far: VCP_MarkWritten publishes nothing else.        *)
SpaceOK ==
  wr_pc \in {"copy", "mark"} =>
    /\ wr_sz \in 1 .. wr_want
    /\ wr_sz <= VCP_SpaceAvailContig
    /\ wr_off \in 0 .. wr_sz
    /\ wr_pc = "copy" <=> wr_off < wr_sz
    /\ \A j \in 0 .. wr_off - 1 : tx_buf[tx_head + j] = tx_written + j

(* A VCP_Put of no more than usb_api_process had seen room for takes all   *)
(* of it, although it writes in two contiguous pieces.  api_op_responde    *)
(* relies on it: BUG_ON(sz != sizeof(api->pkt)), api.c:201.                *)
PutComplete ==
  wr_pc = "idle" => wr_want = 0 \/ wr_ret >= wr_seen

(* How far a VCP_Put has come, against the space seen before it: the first *)
(* piece stops short only at the end of the buffer, from where the second  *)
(* goes on at index 0 with all the space there is.                         *)
ProgressOK ==
  /\ wr_want + wr_ret <= MaxWrite
  /\ wr_pc \in {"space", "copy", "mark"} /\ wr_ret = 0 => wr_seen <= VCP_SpaceAvail
  /\ wr_pc = "space" /\ wr_ret # 0 =>
       \/ wr_seen <= wr_ret
       \/ tx_head = 0 /\ wr_seen <= wr_ret + VCP_SpaceAvail
  /\ wr_pc \in {"copy", "mark"} /\ wr_sz < wr_want =>
       \/ wr_seen <= wr_ret + wr_sz
       \/ wr_ret = 0 /\ tx_head + wr_sz = TX_SIZE

(* The inductive invariant. *)
IInv == InInv /\ WrTypeOK /\ SpaceOK /\ ProgressOK /\ PutComplete

(* Transmission is a FIFO: what the host takes is exactly what was         *)
(* written, in order, each byte once.  It holds the ring and one packet.   *)
Stream == INSTANCE ByteStream WITH
  Capacity <- TX_SIZE - 1 + IN_PKT,
  sent     <- tx_written,
  taken    <- host_total,
  chunk    <- host_pkt

ImplementsStream == Stream!Spec

-----------------------------------------------------------------------------
(* Liveness, under Fairness                                                *)

(* Every byte written reaches the host. *)
ImplementsFairStream == Stream!FairSpec

(* If the writer has no more to say, the host's transfer ends: a full      *)
(* packet is followed by a shorter one.  (The bound on what is written     *)
(* stands for the writer falling silent.)                                  *)
TransferEnds == HostTransferOpen ~> ~HostTransferOpen
=============================================================================
