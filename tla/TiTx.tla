-------------------------------- MODULE TiTx --------------------------------
(***************************************************************************)
(* Transmission on TI: the transmit USBBuffer of ti/patches/usbbuffer.c    *)
(* over the CDC class of ti/patches/usbdcdc.c, against a main loop that    *)
(* writes, the host that polls, and the end and the beginning of sessions. *)
(* The k-th byte written is the number k.                                  *)
(*                                                                         *)
(* A packet stays in the ring until it is known to be sent: the read index *)
(* moves when the completion interrupt comes, by the size the class has    *)
(* kept in ui16LastTxSize.                                                 *)
(***************************************************************************)
EXTENDS TiRing, TiLink, Sequences

CONSTANTS
  TX_SIZE,    (* USB_BUFFER_SIZE: 256                                      *)
  IN_PKT,     (* DATA_IN_EP_MAX_SIZE: 64                                   *)
  MaxBytes,   (* bound: how many bytes the main loop writes                *)
  BLANK       (* what a buffer byte nobody has written holds               *)

ASSUME TxAssumption ==
  /\ TX_SIZE \in Nat \ {0}
  /\ IN_PKT \in Nat \ {0}
  /\ MaxBytes \in Nat
  /\ BLANK \in Int \ Nat

VARIABLES
  tx_buf, tx_wr, tx_rd,  (* the ring of g_sTxBuffer and its indices        *)
  ui32LastSent,          (* of the buffer: size of the last packet         *)
  tx_busy,               (* of the class: iCDCTxState # eCDCStateIdle      *)
  ui16LastTxSize,        (* of the class: bytes put since the last         *)
                         (* completion                                     *)
  in_ep,      (* the IN endpoint: "empty", "ready" a packet waits for the  *)
              (* host, "sent" the completion interrupt is pending          *)
  in_fifo,    (* its FIFO                                                  *)
  wr_pc,      (* where the main loop is in USBBufferWrite                  *)
  wr_left,    (* bytes it has still to write                               *)
  tx_written, (* bytes written so far                                      *)
  host_next,  (* the next byte the host is due                             *)
  host_pkt,   (* the last packet the host took                             *)
  host_open,  (* it was full: the host waits for more                      *)
  announced,  (* the application has heard of the last configuration       *)
  spoilt      (* a packet was under way when the device was last           *)
              (* configured, and no transfer has ended since               *)

ringVars == <<tx_buf, tx_wr, tx_rd>>
epVars   == <<ui32LastSent, tx_busy, ui16LastTxSize, in_ep, in_fifo>>
wrVars   == <<wr_pc, wr_left, tx_written>>
hostVars == <<host_next, host_pkt, host_open>>
histVars == <<announced, spoilt>>
vars     == <<ringVars, epVars, wrVars, hostVars, histVars, linkVars>>

Init ==
  /\ LinkInit
  /\ tx_buf = [i \in 0 .. TX_SIZE - 1 |-> BLANK]
  /\ tx_wr = 0 /\ tx_rd = 0
  /\ ui32LastSent = 0
  /\ tx_busy = FALSE
  /\ ui16LastTxSize = 0
  /\ in_ep = "empty" /\ in_fifo = << >>
  /\ wr_pc = "idle" /\ wr_left = 0 /\ tx_written = 0
  /\ host_next = 0 /\ host_pkt = << >> /\ host_open = FALSE
  /\ announced = TRUE
  /\ spoilt = FALSE

Used == USBRingBufUsed(TX_SIZE, tx_wr, tx_rd)
Free == USBRingBufFree(TX_SIZE, tx_wr, tx_rd)

(* The number of the oldest byte in the ring. *)
tx_gone == tx_written - Used

-----------------------------------------------------------------------------
(* Slips: no empty packet; a packet that straddles the end of the buffer   *)
(* is remembered by its first piece only.                                  *)
NoEmptyPacket(len) == len > 0
FirstPieceOnly(rd, len) == MIN_(len, TX_SIZE - rd)

(* What is to be sent: data, or nothing if the last packet was full.       *)
PacketFollows(len) == len > 0 \/ ui32LastSent = IN_PKT
LastSent(rd, len) == len

USBDCDCTxPacketAvailable(busy) == IF busy THEN 0 ELSE IN_PKT

(* USBDCDCPacketWrite of a packet, whose last piece sends it; last and ep  *)
(* are ui16LastTxSize and the endpoint's state.  USBEndpointDataPut        *)
(* refuses while a packet waits.                                           *)
USBDCDCPacketWrite(pkt, last, ep) ==
  LET put == ep # "ready" IN
    /\ tx_busy' = put
    /\ ui16LastTxSize' = IF put THEN last + Len(pkt) ELSE last
    /\ in_ep' = IF put THEN "ready" ELSE ep
    /\ in_fifo' = IF put THEN pkt ELSE in_fifo

(* ScheduleNextTransmission, interrupts off, with the read index at rd.  A *)
(* packet that straddles the end of the buffer is written in two pieces.   *)
ScheduleNextTransmission(rd, busy, last, ep) ==
  LET packet == USBDCDCTxPacketAvailable(busy)
      len    == MIN_(packet, USBRingBufUsed(TX_SIZE, tx_wr, rd))
  IN
    IF packet > 0 /\ PacketFollows(len)
    THEN /\ ui32LastSent' = LastSent(rd, len)
         /\ USBDCDCPacketWrite(
              [i \in 1 .. len |-> tx_buf[RingSlot(TX_SIZE, rd, i - 1)]], last, ep)
    ELSE /\ tx_busy' = busy
         /\ ui16LastTxSize' = last
         /\ in_ep' = ep
         /\ UNCHANGED <<ui32LastSent, in_fifo>>

(* A slip: every packet counts as a full one. *)
FullPacket == IN_PKT

(* What USB_EVENT_TX_COMPLETE tells the buffer. *)
Transmitted == ui16LastTxSize

(* A slip, the one of usb_stall_bug.txt: the end of an empty packet is not *)
(* reported to the buffer.                                                 *)
SilentEmptyPacket == ui16LastTxSize = 0

(* The buffer is told of every completion. *)
NotReported == FALSE

(* The completion interrupt: ProcessDataToHost, HandleTxComplete.  What    *)
(* the host has not had by then it will never get (host_next).             *)
ProcessDataToHost ==
  /\ in_ep = "sent"
  /\ UNCHANGED <<tx_buf, tx_wr, wrVars, host_pkt, host_open, announced, linkVars>>
  /\ IF NotReported
     THEN /\ tx_busy' = FALSE
          /\ in_ep' = "empty"
          /\ UNCHANGED <<tx_rd, ui32LastSent, ui16LastTxSize, in_fifo>>
     ELSE /\ tx_rd' = USBRingBufAdvanceRead(TX_SIZE, tx_wr, tx_rd, Transmitted)
          /\ ScheduleNextTransmission(tx_rd', FALSE, 0, "empty")
  /\ spoilt' = (spoilt /\ (host_open \/ ui32LastSent = IN_PKT))
  /\ host_next' = IF spoilt THEN tx_gone' ELSE host_next

(* The host polls the endpoint and takes the packet. *)
HostIn ==
  /\ configured
  /\ in_ep = "ready"
  /\ in_ep' = "sent"
  /\ host_pkt' = in_fifo
  /\ host_next' = host_next + Len(in_fifo)
  /\ host_open' = (Len(in_fifo) = IN_PKT)
  /\ UNCHANGED <<ringVars, ui32LastSent, tx_busy, ui16LastTxSize, in_fifo,
                 wrVars, histVars, linkVars>>

-----------------------------------------------------------------------------
(* The main loop.  It runs when no interrupt is pending.                   *)
MainRuns == in_ep # "sent"

(* usb_api_process, or the echo loop, samples USBBufferSpaceAvailable and  *)
(* writes no more than that.                                               *)
StartWrite(n) ==
  /\ MainRuns
  /\ wr_pc = "idle"
  /\ n <= Free
  /\ tx_written + n <= MaxBytes
  /\ wr_pc' = "free"
  /\ wr_left' = n
  /\ UNCHANGED <<tx_written, ringVars, epVars, hostVars, histVars, linkVars>>

(* USBBufferWrite: ui32Space = USBRingBufFree(...). *)
WriteFree ==
  /\ MainRuns
  /\ wr_pc = "free"
  /\ wr_left' = MIN_(wr_left, Free)
  /\ wr_pc' = IF wr_left' = 0 THEN "schedule" ELSE "copy"
  /\ UNCHANGED <<tx_written, ringVars, epVars, hostVars, histVars, linkVars>>

(* One byte of USBRingBufWrite. *)
WriteCopy ==
  /\ MainRuns
  /\ wr_pc = "copy"
  /\ tx_buf' = [tx_buf EXCEPT ![tx_wr] = tx_written]
  /\ tx_wr' = ring_wrap(TX_SIZE, tx_wr + 1)
  /\ tx_written' = tx_written + 1
  /\ wr_left' = wr_left - 1
  /\ wr_pc' = IF wr_left' = 0 THEN "schedule" ELSE "copy"
  /\ UNCHANGED <<tx_rd, epVars, hostVars, histVars, linkVars>>

(* USBBufferWrite calls ScheduleNextTransmission. *)
WriteSchedule ==
  /\ MainRuns
  /\ wr_pc = "schedule"
  /\ ScheduleNextTransmission(tx_rd, tx_busy, ui16LastTxSize, in_ep)
  /\ wr_pc' = "idle"
  /\ UNCHANGED <<wr_left, tx_written, ringVars, hostVars, histVars, linkVars>>

USBBufferWrite == WriteFree \/ WriteCopy \/ WriteSchedule

-----------------------------------------------------------------------------
(* Sessions                                                                *)

BusReset   == ResetBus /\ UNCHANGED <<ringVars, epVars, wrVars, hostVars, histVars>>
Disconnect == HandleDisconnect /\ UNCHANGED <<ringVars, epVars, wrVars, hostVars, histVars>>

(* HandleConfigChange, and ControlHandler's flush if it is announced.      *)
(* Whether a packet in the endpoint, or its completion, outlives the reset *)
(* or the endpoint's configuration is the controller's affair.             *)
HandleConfigChange ==
  /\ Configure
  /\ tx_busy' = FALSE
  /\ in_ep' \in {in_ep, "empty"}
  /\ tx_rd' = IF Announced THEN tx_wr ELSE tx_rd
  /\ host_next' = IF Announced THEN tx_written ELSE host_next
  /\ host_open' = FALSE
  /\ announced' = Announced
  /\ spoilt' = (spoilt \/ in_ep # "empty")
  /\ UNCHANGED <<tx_buf, tx_wr, ui32LastSent, ui16LastTxSize, in_fifo, wrVars, host_pkt>>

Link == BusReset \/ Disconnect \/ HandleConfigChange

MainLoop == USBBufferWrite \/ \E n \in 1 .. TX_SIZE - 1 : StartWrite(n)

Next == ProcessDataToHost \/ HostIn \/ MainLoop \/ Link

Spec == Init /\ [][Next]_vars

(* A pending interrupt is taken, a host that has configured the device     *)
(* polls it, and a USBBufferWrite once begun goes on.  The main loop need  *)
(* not write, and the host may go away or stay.                            *)
FairSpec ==
  /\ Spec
  /\ WF_vars(ProcessDataToHost)
  /\ WF_vars(HostIn)
  /\ WF_vars(USBBufferWrite)

-----------------------------------------------------------------------------
(* Safety                                                                  *)

(* The variables have their types. *)
TypeOK ==
  /\ LinkOK
  /\ tx_buf \in [0 .. TX_SIZE - 1 -> Nat \cup {BLANK}]
  /\ RingOK(TX_SIZE, tx_wr, tx_rd)
  /\ ui32LastSent \in 0 .. IN_PKT
  /\ tx_busy \in BOOLEAN
  /\ ui16LastTxSize \in Nat
  /\ in_ep \in {"empty", "ready", "sent"}
  /\ in_fifo \in Seq(Nat) /\ Len(in_fifo) <= IN_PKT
  /\ wr_pc \in {"idle", "free", "copy", "schedule"}
  /\ wr_left \in 0 .. TX_SIZE - 1
  /\ tx_written \in 0 .. MaxBytes
  /\ host_next \in Nat
  /\ host_pkt \in Seq(Nat)
  /\ host_open \in BOOLEAN /\ announced \in BOOLEAN /\ spoilt \in BOOLEAN

(* The ring gives up a byte only when the host has it: "Update the         *)
(* transmit buffer read pointer to remove the data that has now been       *)
(* transmitted", usbbuffer.c:453.                                          *)
OnlySentRemoved == [][ProcessDataToHost => tx_gone' <= host_next]_vars

(* ... which holds but for a packet that was under way when the device was *)
(* configured, and holds again once a transfer has ended.                  *)
OnlySpoiltLost ==
  [][ProcessDataToHost /\ ~spoilt => tx_gone' <= host_next]_vars

(* What the class and the endpoint know agrees with the ring: the packet   *)
(* under way is the ring's oldest bytes, and its size is what the          *)
(* completion will remove.                                                 *)
PacketAgrees ==
  ~spoilt =>
    /\ tx_busy <=> in_ep # "empty"
    /\ in_ep = "empty" => ui16LastTxSize = 0
    /\ in_ep # "empty" => /\ ui16LastTxSize = Len(in_fifo)
                          /\ ui32LastSent = Len(in_fifo)
    /\ in_ep = "ready" =>
         in_fifo = [i \in 1 .. Len(in_fifo) |-> host_next + i - 1]

(* The host sees the end of a transfer only by a packet that is not full:  *)
(* the pipe does not go idle without it, and sends an empty packet only    *)
(* where it is due.                                                        *)
TransfersClosed ==
  ~spoilt =>
    /\ in_ep = "empty" => ~host_open
    /\ in_ep = "ready" /\ in_fifo = << >> => host_open

(* USBBufferWrite takes all it is given, if that is no more than           *)
(* USBBufferSpaceAvailable said before: ASSERT(rd == wr) of the echo       *)
(* application, BUG_ON(sz != sizeof(api->pkt)) of api.c:201.               *)
WriteComplete == wr_pc = "free" => wr_left <= Free

(* The ring holds the bytes not known to be sent, in order. *)
RingContent ==
  /\ tx_gone >= 0
  /\ \A j \in 0 .. Used - 1 : tx_buf[RingSlot(TX_SIZE, tx_rd, j)] = tx_gone + j

(* What the writer has still to write has room. *)
WriteOK ==
  /\ wr_pc = "copy" => wr_left > 0
  /\ wr_pc \in {"free", "copy"} => /\ wr_left <= Free
                                  /\ tx_written + wr_left <= MaxBytes

(* How far the host has come, by the state of the endpoint; and a full     *)
(* packet is never the last.                                               *)
HostOK ==
  ~spoilt =>
    /\ in_ep # "sent" => host_next = tx_gone
    /\ in_ep = "sent" => /\ host_next = tx_gone + Len(in_fifo)
                         /\ host_open <=> Len(in_fifo) = IN_PKT
    /\ in_ep # "empty" => Len(in_fifo) <= Used
    /\ in_ep = "empty" => ui32LastSent # IN_PKT

(* The inductive invariant. *)
IInv ==
  /\ TypeOK /\ RingContent /\ WriteOK /\ HostOK
  /\ PacketAgrees /\ TransfersClosed

(* What the host has, and what was flushed before it could have it.        *)
Taken == IF tx_gone > host_next THEN tx_gone ELSE host_next

(* Transmission is a FIFO: the host takes what was written, in order, each *)
(* byte once; what is flushed it never gets.                               *)
Stream == INSTANCE ByteStream WITH
  Capacity <- TX_SIZE - 1,
  sent     <- tx_written,
  taken    <- Taken,
  chunk    <- host_pkt

ImplementsStream == [][spoilt \/ spoilt' \/ Stream!Next]_(Stream!streamVars)

-----------------------------------------------------------------------------
(* Liveness, under fairness                                                *)

(* What is written leaves the ring, in a session the application has heard *)
(* of: the end of a packet, empty or not, always starts the next one.      *)
Drains ==
  \A k \in 0 .. MaxBytes - 1 :
    (tx_written > k /\ wr_pc = "idle")
      ~> (tx_gone > k \/ ~configured \/ ~announced)
=============================================================================
