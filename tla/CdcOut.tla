------------------------------- MODULE CdcOut -------------------------------
(***************************************************************************)
(* The OUT (host to device) pipe of the patched STM32 CDC class driver:    *)
(* the receive ring of stm/patches/usbd_cdc_core.c, its interrupt          *)
(* handlers, and the two calls by which the main loop looks at it          *)
(* (usbd_cdc_vcp.c).  What the main loop does with these calls is left to  *)
(* the modules that extend this one: CdcRx and CdcEcho.                    *)
(*                                                                         *)
(* One action is one interrupt handler or one section run with interrupts  *)
(* off: nothing finer can be observed on the single core.                  *)
(*                                                                         *)
(* The ring has no fixed size.  A packet is received into one piece of     *)
(* memory, so a handler that finds too little room before the end of the   *)
(* buffer closes the ring early (rx_size := head) and goes on at index 0.  *)
(***************************************************************************)
EXTENDS RingBuff, UsbFrames

CONSTANTS
  RX_SIZE,    (* USB_RX_BUFF_SIZE: 256 (full speed) or 1024 (high speed) *)
  OUT_PKT,    (* CDC_DATA_OUT_PACKET_SIZE: 64 or 512                     *)
  WORD,       (* bytes the FIFO is popped by: 4                          *)
  JUNK,       (* what a buffer byte nobody has received holds            *)
  MaxBytes    (* bound: how many bytes the host sends in all             *)

ASSUME OutAssumption ==
  /\ RX_SIZE \in Nat
  /\ OUT_PKT \in Nat \ {0}
  /\ OUT_PKT < RX_SIZE
  /\ WORD \in Nat \ {0}
  /\ OUT_PKT % WORD = 0
  /\ MaxBytes \in Nat
  /\ JUNK \in Int \ Nat

VARIABLES
  rx_buf,     (* USB_Rx_Buffer                                           *)
  rx_head,    (* USB_Rx_buff_head                                        *)
  rx_tail,    (* USB_Rx_buff_tail                                        *)
  rx_size,    (* USB_Rx_buff_size                                        *)
  rx_active,  (* USB_Rx_Active                                           *)
  rx_total,   (* USB_Rx_total_bytes                                      *)
  rx_ep,      (* the OUT endpoint: "nak" no transfer is set up, "armed"  *)
              (* it takes the next packet, "full" a packet is in memory  *)
              (* and its transfer-complete interrupt is pending          *)
  rx_ptr,     (* out_ep.xfer_buff as set up, as an index of rx_buf       *)
  rx_cnt,     (* out_ep.xfer_count                                       *)
  rx_read     (* bytes marked read so far: the number of the tail's byte *)

ringVars == <<rx_head, rx_tail, rx_size, rx_active>>
epVars   == <<rx_ep, rx_ptr, rx_cnt>>
outVars  == <<rx_buf, ringVars, rx_total, epVars, rx_read>>

(* Bytes the host has delivered and seen acknowledged. *)
rx_accepted == rx_total + (IF rx_ep = "full" THEN rx_cnt ELSE 0)

(* The device when usbd_cdc_Init has run for the first time: an empty ring *)
(* and a transfer set up at the start of the buffer.                       *)
OutInit ==
  /\ rx_buf = [i \in 0 .. RX_SIZE - 1 |-> JUNK]
  /\ rx_head = 0
  /\ rx_tail = 0
  /\ rx_size = RX_SIZE
  /\ rx_active = TRUE
  /\ rx_total = 0
  /\ rx_ep = "armed"
  /\ rx_ptr = 0
  /\ rx_cnt = 0
  /\ rx_read = 0

-----------------------------------------------------------------------------
(* Interrupt handlers                                                      *)

(* DCD_EP_PrepareRx: the endpoint takes one packet, into rx_buf from ptr   *)
(* on.  It clears xfer_count.                                              *)
DCD_EP_PrepareRx(ptr) ==
  /\ rx_ep' = "armed"
  /\ rx_ptr' = ptr
  /\ rx_cnt' = 0

(* The slots a packet of n bytes is stored to: the FIFO is popped by whole *)
(* words, so the last word may spill up to WORD - 1 bytes past the packet. *)
PacketSlots(n) == {rx_ptr + i : i \in 0 .. n - 1}
SpillSlots(n)  == {rx_ptr + i : i \in {k \in n .. OUT_PKT - 1 : k - (k % WORD) < n}}

(* DCD_HandleRxStatusQueueLevel_ISR: a packet of n bytes (none, for a      *)
(* zero-length packet) is copied from the FIFO to where the transfer was   *)
(* set up.  The endpoint then refuses further packets: a transfer is one   *)
(* packet long.                                                            *)
RxData(n) ==
  /\ rx_ep = "armed"
  /\ rx_accepted + n <= MaxBytes
  /\ rx_buf' = [s \in DOMAIN rx_buf |->
                  IF s \in PacketSlots(n) THEN rx_total + (s - rx_ptr)
                  ELSE IF s \in SpillSlots(n) THEN JUNK ELSE rx_buf[s]]
  /\ rx_cnt' = n
  /\ rx_ep' = "full"
  /\ UNCHANGED <<ringVars, rx_total, rx_ptr, rx_read, frame_count>>

(* A ring whose head has not been wrapped past its tail has its full size  *)
(* again.                                                                  *)
ReopenedSize(head) == IF head >= rx_tail THEN RX_SIZE ELSE rx_size

(* Slips: the tail of an empty ring stays at the end the wrap has cut off; *)
(* the tail is taken to the start in any case.                             *)
StrandedTail(head) == rx_tail
ClearedTail(head)  == 0

(* The tail after the ring has been closed at the head: an empty ring goes *)
(* on at index 0, like its head.                                           *)
WrappedTail(head) == IF rx_tail = head THEN 0 ELSE rx_tail

(* A slip: the ring is not closed where the head was wrapped.              *)
OpenEnd(head) == RX_SIZE

(* The size of a ring closed early.                                        *)
ClosedSize(head) == head

(* try_start_rx, with the head its caller has set.  Receives at the head   *)
(* if a whole packet fits there, else at index 0 if one fits below the     *)
(* tail, else not at all.  (DCD_SetEPStatus does not change an OUT         *)
(* endpoint without a transfer: the endpoint refuses packets either way.)  *)
try_start_rx(head) ==
  LET size  == ReopenedSize(head)
      fits  == ring_space_contig(size, head, rx_tail) >= OUT_PKT
      wraps == ring_space_wrapped(size, head, rx_tail) >= OUT_PKT
  IN \/ /\ fits
        /\ rx_head' = head
        /\ rx_size' = size
        /\ rx_active' = TRUE
        /\ DCD_EP_PrepareRx(head)
        /\ UNCHANGED rx_tail
     \/ /\ ~fits /\ wraps
        /\ rx_head' = 0
        /\ rx_size' = ClosedSize(head)
        /\ rx_tail' = WrappedTail(head)
        /\ rx_active' = TRUE
        /\ DCD_EP_PrepareRx(0)
     \/ /\ ~fits /\ ~wraps
        /\ rx_head' = head
        /\ rx_size' = size
        /\ rx_active' = FALSE
        /\ rx_ep' = "nak"
        /\ UNCHANGED <<rx_tail, rx_ptr, rx_cnt>>

(* The transfer-complete interrupt of the OUT endpoint.                    *)
usbd_cdc_DataOut ==
  /\ rx_ep = "full"
  /\ rx_total' = rx_total + rx_cnt
  /\ try_start_rx(ring_wrap(rx_size, rx_head + rx_cnt))
  /\ UNCHANGED <<rx_buf, rx_read, frame_count>>

(* A slip: a stopped pipe is not restarted. *)
NeverRestarted == UNCHANGED outVars

(* Called from usbd_cdc_SOF when a frame is due. *)
schedule_cdc_out ==
  \/ /\ ~rx_active
     /\ try_start_rx(rx_head)
     /\ UNCHANGED <<rx_buf, rx_total, rx_read>>
  \/ /\ rx_active
     /\ UNCHANGED outVars

-----------------------------------------------------------------------------
(* What the main loop calls, each with interrupts off                      *)

VCP_DataAvail       == ring_data_avail(rx_size, rx_head, rx_tail)
VCP_DataAvailContig == ring_data_contig(rx_size, rx_head, rx_tail)

VCP_MarkRead(sz) ==
  /\ rx_tail' = ring_wrap(rx_size, rx_tail + sz)
  /\ rx_read' = rx_read + sz
  /\ UNCHANGED <<rx_buf, rx_head, rx_size, rx_active, rx_total, epVars>>

-----------------------------------------------------------------------------
(* The inductive invariant of the pipe, in parts.                          *)

OutTypeOK ==
  /\ rx_buf \in [0 .. RX_SIZE - 1 -> Nat \cup {JUNK}]
  /\ rx_size \in 1 .. RX_SIZE
  /\ rx_head \in 0 .. RX_SIZE - 1
  /\ rx_tail \in 0 .. RX_SIZE - 1
  /\ rx_active \in BOOLEAN
  /\ rx_total \in Nat
  /\ rx_ep \in {"nak", "armed", "full"}
  /\ rx_ptr \in 0 .. RX_SIZE - 1
  /\ rx_cnt \in 0 .. OUT_PKT
  /\ rx_read \in Nat

(* Both indices stay inside the ring although its size varies. *)
OutRingOK == RingOK(rx_size, rx_head, rx_tail)

(* The window [head, head + OUT_PKT) the next packet goes to lies inside   *)
(* the ring, holds no unread byte, and filling it does not make the ring   *)
(* look empty.                                                             *)
WindowOK ==
  rx_ep # "nak" =>
    /\ rx_ptr = rx_head
    /\ rx_head + OUT_PKT <= rx_size
    /\ rx_tail = 0 => rx_head + OUT_PKT < rx_size
    /\ rx_head < rx_tail => rx_head + OUT_PKT < rx_tail

(* The driver knows whether a transfer is set up. *)
ActiveOK == rx_active <=> rx_ep # "nak"

(* The unread bytes are the bytes received and not yet marked read, in     *)
(* order; so are the bytes of a packet whose interrupt is pending.         *)
OutContent ==
  /\ rx_total = rx_read + VCP_DataAvail
  /\ \A j \in 0 .. VCP_DataAvail - 1 :
        rx_buf[RingSlot(rx_size, rx_tail, j)] = rx_read + j
  /\ rx_ep = "full" =>
        \A j \in 0 .. rx_cnt - 1 : rx_buf[rx_head + j] = rx_total + j

OutInv == OutTypeOK /\ OutRingOK /\ WindowOK /\ ActiveOK /\ OutContent
=============================================================================
