------------------------------- MODULE CdcIn --------------------------------
(***************************************************************************)
(* The IN (device to host) pipe of the patched STM32 CDC class driver: the *)
(* transmit ring of stm/patches/usbd_cdc_core.c with its interrupt         *)
(* handlers, the endpoint and the host behind it, and the calls by which   *)
(* the main loop adds to the ring (usbd_cdc_vcp.c).  What the main loop    *)
(* does with them is left to CdcTx and CdcEcho.                            *)
(*                                                                         *)
(* The driver moves the tail when it sets a packet up (DCD_EP_Tx); the     *)
(* bytes leave the ring later, when the FIFO-empty interrupt copies them   *)
(* to the endpoint's FIFO.                                                 *)
(***************************************************************************)
EXTENDS RingBuff, UsbFrames, Sequences

CONSTANTS
  TX_SIZE,    (* USB_TX_BUFF_SIZE: 256 (full speed) or 1024 (high speed) *)
  IN_PKT,     (* CDC_DATA_IN_PACKET_SIZE: 64 or 512                      *)
  BLANK       (* what a buffer byte nobody has written holds             *)

ASSUME InAssumption ==
  /\ TX_SIZE \in Nat \ {0}
  /\ IN_PKT \in Nat \ {0}
  /\ BLANK \in Int \ Nat

VARIABLES
  tx_buf,     (* USB_Tx_Buffer                                           *)
  tx_head,    (* USB_Tx_buff_head                                        *)
  tx_tail,    (* USB_Tx_buff_tail                                        *)
  tx_active,  (* USB_Tx_Active                                           *)
  tx_total,   (* USB_Tx_total_bytes                                      *)
  tx_ep,      (* the IN endpoint: "idle", "load" its FIFO is to be       *)
              (* filled, "ready" a packet waits for the host, "sent" the *)
              (* host has it and the completion interrupt is pending     *)
  tx_ptr,     (* in_ep.xfer_buff as set up, as an index of tx_buf        *)
  tx_len,     (* in_ep.xfer_len                                          *)
  tx_fifo,    (* the packet in the endpoint's FIFO                       *)
  host_pkt,   (* the last packet the host took                           *)
  host_total  (* bytes the host has taken                                *)

inRingVars == <<tx_head, tx_tail, tx_active, tx_total>>
inEpVars   == <<tx_ep, tx_ptr, tx_len, tx_fifo>>
hostVars   == <<host_pkt, host_total>>
inVars     == <<tx_buf, inRingVars, inEpVars, hostVars>>

InInit ==
  /\ tx_buf = [i \in 0 .. TX_SIZE - 1 |-> BLANK]
  /\ tx_head = 0
  /\ tx_tail = 0
  /\ tx_active = FALSE
  /\ tx_total = 0
  /\ tx_ep = "idle"
  /\ tx_ptr = 0
  /\ tx_len = 0
  /\ tx_fifo = << >>
  /\ host_pkt = << >>
  /\ host_total = 0

-----------------------------------------------------------------------------
(* Interrupt handlers                                                      *)

(* DCD_EP_Tx and what follows it in both places it is called from: len     *)
(* bytes at the tail are set up as the next packet and the tail passes     *)
(* them.  The FIFO-empty interrupt is enabled only if there are any.       *)
DCD_EP_Tx(len) ==
  /\ tx_ptr' = tx_tail
  /\ tx_len' = len
  /\ tx_fifo' = << >>
  /\ tx_ep' = IF len > 0 THEN "load" ELSE "ready"
  /\ tx_tail' = ring_wrap(TX_SIZE, tx_tail + len)
  /\ tx_total' = tx_total + len

(* A slip: a packet may run past the end of the buffer. *)
PacketAcrossEnd == MIN_(ring_data_avail(TX_SIZE, tx_head, tx_tail), IN_PKT)

(* One packet's worth of what is contiguous at the tail. *)
NextPacket == MIN_(ring_data_contig(TX_SIZE, tx_head, tx_tail), IN_PKT)

(* A slip: the pipe waits for a full packet's worth. *)
FullPacketDue == ~tx_active /\ NextPacket = IN_PKT

(* An idle pipe with something to send. *)
PacketDue == ~tx_active /\ NextPacket > 0

(* Called from usbd_cdc_SOF when a frame is due: starts an idle pipe.      *)
schedule_cdc_in ==
  \/ /\ PacketDue
     /\ tx_active' = TRUE
     /\ DCD_EP_Tx(NextPacket)
     /\ UNCHANGED <<tx_buf, tx_head, hostVars>>
  \/ /\ ~PacketDue
     /\ UNCHANGED inVars

(* DCD_WriteEmptyTxFifo: the packet is copied to the FIFO.                 *)
DCD_WriteEmptyTxFifo ==
  /\ tx_ep = "load"
  /\ tx_fifo' = [i \in 1 .. tx_len |-> tx_buf[tx_ptr + i - 1]]
  /\ tx_ep' = "ready"
  /\ UNCHANGED <<tx_buf, inRingVars, tx_ptr, tx_len, hostVars, frame_count>>

(* The host polls the endpoint and takes the packet.  Retransmission of a  *)
(* damaged packet is the USB hardware's business and not seen here.        *)
HostIn ==
  /\ tx_ep = "ready"
  /\ host_pkt' = tx_fifo
  /\ host_total' = host_total + Len(tx_fifo)
  /\ tx_ep' = "sent"
  /\ UNCHANGED <<tx_buf, inRingVars, tx_ptr, tx_len, tx_fifo, frame_count>>

(* A slip: no empty packet ends a transfer. *)
NoEmptyPacket == tx_active /\ NextPacket > 0

(* A packet follows: data, or nothing if the last one was full.            *)
PacketFollows == tx_active /\ (NextPacket > 0 \/ tx_len = IN_PKT)

(* The transfer-complete interrupt of the IN endpoint: the next packet, or *)
(* a zero-length packet if the last one was full, or the pipe goes idle.   *)
usbd_cdc_DataIn ==
  /\ tx_ep = "sent"
  /\ IF PacketFollows
     THEN DCD_EP_Tx(NextPacket) /\ UNCHANGED tx_active
     ELSE /\ tx_active' = FALSE
          /\ tx_ep' = "idle"
          /\ UNCHANGED <<tx_tail, tx_total, tx_ptr, tx_len, tx_fifo>>
  /\ UNCHANGED <<tx_buf, tx_head, hostVars, frame_count>>

-----------------------------------------------------------------------------
(* What the main loop calls, each with interrupts off                      *)

(* The FIFO is empty when DCD_EP_Tx enables its FIFO-empty interrupt, so   *)
(* the interrupt is pending before the handler that called it returns, and *)
(* is taken before the main loop runs again.                               *)
MainRuns == tx_ep # "load"

VCP_SpaceAvail       == ring_space_avail(TX_SIZE, tx_head, tx_tail)
VCP_SpaceAvailContig == ring_space_contig(TX_SIZE, tx_head, tx_tail)

VCP_MarkWritten(sz) ==
  /\ tx_head' = ring_wrap(TX_SIZE, tx_head + sz)
  /\ UNCHANGED <<tx_buf, tx_tail, tx_active, tx_total, inEpVars, hostVars>>

-----------------------------------------------------------------------------
(* The inductive invariant of the pipe, in parts.                          *)

tx_unsent  == ring_data_avail(TX_SIZE, tx_head, tx_tail)
tx_written == tx_total + tx_unsent

InTypeOK ==
  /\ tx_buf \in [0 .. TX_SIZE - 1 -> Nat \cup {BLANK}]
  /\ RingOK(TX_SIZE, tx_head, tx_tail)
  /\ tx_active \in BOOLEAN
  /\ tx_total \in Nat
  /\ tx_ep \in {"idle", "load", "ready", "sent"}
  /\ tx_ptr \in 0 .. TX_SIZE - 1
  /\ tx_len \in 0 .. IN_PKT
  /\ tx_fifo \in Seq(Nat \cup {BLANK})
  /\ host_pkt \in Seq(Nat \cup {BLANK})
  /\ host_total \in Nat

(* The unsent bytes of the ring are in order, and follow those set up. *)
RingContent ==
  \A j \in 0 .. tx_unsent - 1 :
    tx_buf[RingSlot(TX_SIZE, tx_tail, j)] = tx_total + j

(* A packet set up is still whole when the FIFO is filled from the ring,   *)
(* although the tail has already passed it.                                *)
PacketContent ==
  tx_ep = "load" =>
    /\ tx_len > 0
    /\ tx_ptr + tx_len <= TX_SIZE
    /\ \A i \in 0 .. tx_len - 1 : tx_buf[tx_ptr + i] = tx_total - tx_len + i

(* The FIFO holds the packet the host is due next. *)
FifoContent ==
  /\ tx_ep \in {"load", "ready"} => host_total = tx_total - tx_len
  /\ tx_ep \in {"idle", "sent"} => host_total = tx_total
  /\ tx_ep = "ready" => tx_fifo = [i \in 1 .. tx_len |-> host_total + i - 1]
  /\ tx_ep = "sent" => Len(host_pkt) = tx_len

(* The driver knows whether a packet is under way. *)
TxActiveOK == tx_active <=> tx_ep # "idle"

(* The host sees the end of a transfer only by a packet shorter than the   *)
(* endpoint's size: the pipe never goes idle after a full one, and sends   *)
(* an empty packet only after a full one.                                  *)
HostTransferOpen == Len(host_pkt) = IN_PKT
TransfersClosed ==
  /\ ~tx_active => ~HostTransferOpen
  /\ tx_ep = "ready" /\ tx_len = 0 => HostTransferOpen

InInv ==
  /\ InTypeOK /\ RingContent /\ PacketContent /\ FifoContent
  /\ TxActiveOK /\ TransfersClosed
=============================================================================
