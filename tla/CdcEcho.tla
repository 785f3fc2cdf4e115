------------------------------ MODULE CdcEcho -------------------------------
(***************************************************************************)
(* The echo application (stm/usb_cdc_echo): both pipes of the class driver *)
(* and a main loop that calls VCP_Echo for ever.  VCP_Echo moves bytes     *)
(* from the receive ring to the transmit ring without a buffer of its own. *)
(***************************************************************************)
EXTENDS CdcOut, CdcIn

VARIABLES
  ec_pc,    (* where VCP_Echo is                *)
  ec_sz,    (* avail_data, then sz              *)
  ec_off    (* bytes its memcpy has copied      *)

echoVars == <<ec_pc, ec_sz, ec_off>>
vars     == <<outVars, inVars, frame_count, echoVars>>

Init ==
  /\ OutInit
  /\ InInit
  /\ FrameInit
  /\ ec_pc = "data"
  /\ ec_sz = 0
  /\ ec_off = 0

-----------------------------------------------------------------------------
(* avail_data = VCP_DataAvailContig() *)
EchoData ==
  /\ ec_pc = "data"
  /\ ec_sz' = VCP_DataAvailContig
  /\ ec_off' = 0
  /\ ec_pc' = "space"
  /\ UNCHANGED <<outVars, inVars>>

(* A slip: what is moved is not limited to the space there is.             *)
EchoUnbounded ==
  /\ ec_pc = "space"
  /\ ec_pc' = IF ec_sz = 0 THEN "data" ELSE "copy"
  /\ UNCHANGED <<ec_sz, ec_off, outVars, inVars>>

(* avail_space = VCP_SpaceAvailContig(); with nothing to move the loop     *)
(* breaks and the main loop enters VCP_Echo again.                         *)
EchoSpace ==
  /\ ec_pc = "space"
  /\ ec_sz' = MIN_(ec_sz, VCP_SpaceAvailContig)
  /\ ec_pc' = IF ec_sz' = 0 THEN "data" ELSE "copy"
  /\ UNCHANGED <<ec_off, outVars, inVars>>

(* One byte of memcpy(VCP_SpacePtr(), VCP_DataPtr(), sz). *)
EchoCopy ==
  /\ ec_pc = "copy"
  /\ tx_buf' = [tx_buf EXCEPT ![tx_head + ec_off] = rx_buf[rx_tail + ec_off]]
  /\ ec_off' = ec_off + 1
  /\ ec_pc' = IF ec_off' = ec_sz THEN "written" ELSE "copy"
  /\ UNCHANGED <<ec_sz, outVars, inRingVars, inEpVars, hostVars>>

(* VCP_MarkWritten(sz) ... *)
EchoWritten ==
  /\ ec_pc = "written"
  /\ VCP_MarkWritten(ec_sz)
  /\ ec_pc' = "read"
  /\ UNCHANGED <<ec_sz, ec_off, outVars>>

(* ... then VCP_MarkRead(sz), and the loop goes round. *)
EchoRead ==
  /\ ec_pc = "read"
  /\ VCP_MarkRead(ec_sz)
  /\ ec_pc' = "data"
  /\ UNCHANGED <<ec_sz, ec_off, inVars>>

VCP_Echo ==
  /\ MainRuns
  /\ EchoData \/ EchoSpace \/ EchoCopy \/ EchoWritten \/ EchoRead
  /\ UNCHANGED frame_count

(* The start-of-frame interrupt, whole: IN first, then OUT. *)
usbd_cdc_SOF ==
  /\ CountFrame
  /\ IF FrameDue THEN schedule_cdc_in /\ schedule_cdc_out
                 ELSE UNCHANGED <<inVars, outVars>>
  /\ UNCHANGED echoVars

DataOut == usbd_cdc_DataOut /\ UNCHANGED <<inVars, echoVars>>
DataIn  == usbd_cdc_DataIn /\ UNCHANGED <<outVars, echoVars>>
TxFifo  == DCD_WriteEmptyTxFifo /\ UNCHANGED <<outVars, echoVars>>

HostOut ==
  /\ \E n \in 0 .. OUT_PKT : RxData(n)
  /\ UNCHANGED <<inVars, echoVars>>

HostPoll == HostIn /\ UNCHANGED <<outVars, echoVars>>

Next ==
  HostOut \/ HostPoll \/ DataOut \/ DataIn \/ TxFifo \/ usbd_cdc_SOF \/ VCP_Echo

Spec == Init /\ [][Next]_vars

(* Each interrupt is taken, frames go on, the host polls for input and the    *)
(* main loop runs.  Nothing is assumed of what the host sends.             *)
Fairness ==
  /\ WF_vars(DataOut)
  /\ WF_vars(DataIn)
  /\ WF_vars(TxFifo)
  /\ WF_vars(HostPoll)
  /\ WF_vars(usbd_cdc_SOF)
  /\ WF_vars(VCP_Echo)

FairSpec == Spec /\ Fairness

-----------------------------------------------------------------------------
(* What VCP_Echo sampled of both rings still holds when it is used, and    *)
(* the two marks keep step: between them exactly ec_sz bytes are in both   *)
(* rings, and otherwise what was written is what was read.                 *)
EchoOK ==
  /\ ec_pc = "space" => ec_sz <= VCP_DataAvailContig
  /\ ec_pc \in {"copy", "written"} =>
       /\ ec_sz \in 1 .. VCP_DataAvailContig
       /\ ec_sz <= VCP_SpaceAvailContig
       /\ ec_off <= ec_sz
       /\ \A j \in 0 .. ec_off - 1 : tx_buf[tx_head + j] = tx_written + j
  /\ ec_pc = "read" => ec_sz \in 1 .. VCP_DataAvailContig
  /\ tx_written = rx_read + (IF ec_pc = "read" THEN ec_sz ELSE 0)

(* How far VCP_Echo has come. *)
ProgressOK ==
  /\ FrameOK
  /\ ec_pc \in {"data", "space", "copy", "written", "read"}
  /\ ec_sz \in Nat
  /\ ec_off \in Nat
  /\ ec_pc = "space" => ec_off = 0
  /\ ec_pc = "copy" => ec_off < ec_sz
  /\ ec_pc = "written" => ec_off = ec_sz

(* The inductive invariant. *)
IInv == OutInv /\ InInv /\ ProgressOK /\ EchoOK

(* The echo is a FIFO from the host back to the host: it gets exactly the  *)
(* bytes it sent, in order, each once.  This is what the echo test asserts *)
(* of the device (tools/elink_echo_test.py:19-25).                         *)
Stream == INSTANCE ByteStream WITH
  Capacity <- RX_SIZE - 1 + TX_SIZE - 1 + IN_PKT,
  sent     <- rx_accepted,
  taken    <- host_total,
  chunk    <- host_pkt

ImplementsStream == Stream!Spec

(* ... and every byte the host got through comes back, if it polls.         *)
ImplementsFairStream == Stream!FairSpec
=============================================================================
