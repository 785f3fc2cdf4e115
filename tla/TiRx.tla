-------------------------------- MODULE TiRx --------------------------------
(***************************************************************************)
(* Reception on TI: the receive USBBuffer of ti/patches/usbbuffer.c over   *)
(* the CDC class of ti/patches/usbdcdc.c, with the class requests that     *)
(* hold reception up, against a main loop that reads and the end and the   *)
(* beginning of sessions.  The k-th byte the host sends is the number k.   *)
(*                                                                         *)
(* A request that must not overtake the data sent before it is deferred    *)
(* while the ring holds data, and blocks reception meanwhile; the tick     *)
(* carries it out once the ring is empty.  A packet stays in the endpoint  *)
(* while reception is blocked or the ring is full; the tick tries again.   *)
(***************************************************************************)
EXTENDS TiRing, TiLink, Sequences, FiniteSets

CONSTANTS
  RX_SIZE,      (* USB_BUFFER_SIZE: 256                                    *)
  OUT_PKT,      (* DATA_OUT_EP_MAX_SIZE: 64                                *)
  MaxBytes,     (* bound: how many bytes the host sends                    *)
  MaxRequests,  (* bound: how many class requests it makes                 *)
  MaxBreak,     (* bound: the longest break, in ticks                      *)
  JUNK          (* what a buffer byte nobody has written holds             *)

ASSUME RxAssumption ==
  /\ RX_SIZE \in Nat \ {0}
  /\ OUT_PKT \in Nat \ {0}
  /\ MaxBytes \in Nat /\ MaxRequests \in Nat /\ MaxBreak \in Nat
  /\ JUNK \in Int \ Nat

VARIABLES
  rx_buf, rx_wr, rx_rd,  (* the ring of g_sRxBuffer and its indices        *)
  out_fifo,     (* what is left of the packet in the OUT endpoint          *)
  out_rdy,      (* a packet is there: USB_DEV_RX_PKT_RDY                   *)
  out_irq,      (* the endpoint's interrupt is pending                     *)
  deferred,     (* ui16DeferredOpFlags: a set of the names below           *)
  rx_blocked,   (* bRxBlocked                                              *)
  break_left,   (* ui16BreakDuration                                       *)
  ep0_wait,     (* iCDCRequestState: the data of a SET_LINE_CODING is due  *)
  requests,     (* class requests so far                                   *)
  rd_pc,        (* where the main loop is                                  *)
  rd_left,      (* bytes it has still to take                              *)
  rd_last,      (* the byte it took last                                   *)
  rd_total,     (* bytes taken or flushed                                  *)
  host_sent,    (* bytes the endpoint has accepted                         *)
  asked_at,     (* host_sent when the oldest deferred request was made, or *)
                (* 0 if none is                                            *)
  owed,         (* the operations whose latest request the application has *)
                (* not been told of                                        *)
  spoilt        (* the flush of a new session hit a read half done, or     *)
                (* bytes were lost in a session that began unannounced     *)

ringVars == <<rx_buf, rx_wr, rx_rd>>
epVars   == <<out_fifo, out_rdy>>
opVars   == <<deferred, rx_blocked, break_left, ep0_wait>>
hostVars == <<host_sent, requests, asked_at, owed>>
rdVars   == <<rd_pc, rd_left, rd_last, rd_total>>
vars     == <<ringVars, epVars, out_irq, opVars, hostVars, rdVars, spoilt, linkVars>>

(* CDC_DO_SEND_BREAK, _LINE_CODING_CHANGE, _LINE_STATE_CHANGE.  The other  *)
(* flags are "clear", CDC_DO_CLEAR_BREAK, and "packet", CDC_DO_PACKET_RX.  *)
RX_BLOCK_OPS == {"break", "coding", "state"}

Init ==
  /\ LinkInit
  /\ rx_buf = [i \in 0 .. RX_SIZE - 1 |-> JUNK]
  /\ rx_wr = 0 /\ rx_rd = 0
  /\ out_fifo = << >> /\ out_rdy = FALSE /\ out_irq = FALSE
  /\ deferred = {}
  /\ rx_blocked = FALSE
  /\ break_left = 0
  /\ ep0_wait = FALSE
  /\ host_sent = 0 /\ requests = 0 /\ asked_at = 0 /\ owed = {}
  /\ rd_pc = "idle" /\ rd_left = 0 /\ rd_last = << >> /\ rd_total = 0
  /\ spoilt = FALSE

Used == USBRingBufUsed(RX_SIZE, rx_wr, rx_rd)
Pending == deferred \cap RX_BLOCK_OPS

(* Bytes moved to the ring, or lost with their packet. *)
rx_total == host_sent - Len(out_fifo)

-----------------------------------------------------------------------------
(* Data from the host                                                      *)

(* A slip: a packet counts as read when some of it is. *)
AckPartial(n) == n > 0 \/ out_fifo = << >>

(* USBDCDCPacketRead acknowledges a packet when its last byte is read.     *)
WholePacket(n) == n = Len(out_fifo)

(* HandleRxAvailable, with reception not blocked: USBDCDCPacketRead into   *)
(* what is contiguous at the write index, and a second time into the rest  *)
(* of the ring.  flags are the deferred operations so far.                 *)
HandleRxAvailable(flags) ==
  LET first  == MIN_(Len(out_fifo), USBRingBufContigFree(RX_SIZE, rx_wr, rx_rd))
      wr     == ring_wrap(RX_SIZE, rx_wr + first)
      second == MIN_(Len(out_fifo) - first, USBRingBufContigFree(RX_SIZE, wr, rx_rd))
      n      == first + second
      ack    == out_rdy /\ WholePacket(n)
  IN
    /\ rx_buf' = [i \in 0 .. RX_SIZE - 1 |->
                    LET j == ring_data_avail(RX_SIZE, i, rx_wr)
                    IN  IF j < n THEN out_fifo[j + 1] ELSE rx_buf[i]]
    /\ rx_wr' = ring_wrap(RX_SIZE, wr + second)
    /\ out_fifo' = IF ack THEN << >> ELSE SubSeq(out_fifo, n + 1, Len(out_fifo))
    /\ out_rdy' = (out_rdy /\ ~ack)
    /\ deferred' = IF ack THEN flags \ {"packet"} ELSE flags
    /\ UNCHANGED rx_rd

NoPacket(flags) == deferred' = flags /\ UNCHANGED <<ringVars, epVars>>

(* Slips: a packet that comes while reception is blocked is left to        *)
(* nobody; it is read all the same.                                        *)
NotNoted(flags) == IF rx_blocked THEN flags ELSE flags \cup {"packet"}
NeverBlocked(bl) == FALSE

NotePacket(flags) == flags \cup {"packet"}
Blocked(bl) == bl

(* The OUT interrupt: ProcessDataFromHost.  The packet may be gone.        *)
ProcessDataFromHost ==
  /\ out_irq
  /\ out_irq' = FALSE
  /\ IF out_rdy /\ ~Blocked(rx_blocked)
     THEN HandleRxAvailable(NotePacket(deferred))
     ELSE NoPacket(IF out_rdy THEN NotePacket(deferred) ELSE deferred)
  /\ UNCHANGED <<rx_blocked, break_left, ep0_wait, hostVars, rdVars, spoilt, linkVars>>

(* The host sends a packet, maybe empty; it must wait until the last one   *)
(* is acknowledged.                                                        *)
HostOut ==
  /\ configured
  /\ ~out_rdy
  /\ \E n \in 0 .. OUT_PKT :
       /\ host_sent + n <= MaxBytes
       /\ out_fifo' = [i \in 1 .. n |-> host_sent + i - 1]
       /\ host_sent' = host_sent + n
  /\ out_rdy' = TRUE
  /\ out_irq' = TRUE
  /\ UNCHANGED <<ringVars, opVars, requests, asked_at, owed, rdVars, spoilt, linkVars>>

-----------------------------------------------------------------------------
(* Requests of the host on endpoint 0                                      *)

DeviceConsumedAllData == Used = 0

(* A slip: the flag that remembers to end a break is set in any case. *)
NeverCleared(flags, on) == (flags \ {"break"}) \cup {"clear"}

(* A slip: the whole word of flags is reset, not the bits of a break. *)
ResetsAll(flags, on) == IF on THEN {"clear"} ELSE {}

(* SendBreak, SendLineCodingChange or SendLineStateChange: what is left of *)
(* the flags when the application has been told of the operation.          *)
SendBreak(flags, on) == (flags \ {"break", "clear"}) \cup (IF on THEN {"clear"} ELSE {})

(* The handlers note the operation, send it at once if all data has been   *)
(* consumed, or else block reception; done are the flags if it is sent.    *)
DeferOrSend(op, done) ==
  /\ deferred' = IF DeviceConsumedAllData THEN done ELSE deferred \cup {op}
  /\ rx_blocked' = (rx_blocked \/ ~DeviceConsumedAllData)
  /\ asked_at' = CASE Pending' = {} -> 0
                   [] Pending = {} /\ Pending' # {} -> host_sent
                   [] OTHER -> asked_at
  /\ owed' = IF DeviceConsumedAllData THEN owed \ {op} ELSE owed \cup {op}

Request ==
  /\ configured
  /\ ~ep0_wait
  /\ requests < MaxRequests
  /\ requests' = requests + 1
  /\ UNCHANGED <<host_sent, ringVars, epVars, out_irq, rdVars, spoilt, linkVars>>

(* HandleRequests: USB_CDC_SET_CONTROL_LINE_STATE *)
SetControlLineState ==
  /\ Request
  /\ DeferOrSend("state", deferred \ {"state"})
  /\ UNCHANGED <<break_left, ep0_wait>>

(* HandleRequests: USB_CDC_SEND_BREAK *)
SendBreakRequest ==
  /\ Request
  /\ \E d \in 0 .. MaxBreak :
       /\ break_left' = d
       /\ DeferOrSend("break", SendBreak(deferred, d > 0))
  /\ UNCHANGED ep0_wait

(* HandleRequests: USB_CDC_SET_LINE_CODING, whose data is yet to come ...  *)
SetLineCoding ==
  /\ Request
  /\ ep0_wait' = TRUE
  /\ UNCHANGED <<deferred, rx_blocked, break_left, asked_at, owed>>

(* ... and HandleEP0Data when it has: data of the wrong size is refused.   *)
HandleEP0Data ==
  /\ configured
  /\ ep0_wait
  /\ ep0_wait' = FALSE
  /\ \/ DeferOrSend("coding", deferred \ {"coding"})
     \/ UNCHANGED <<deferred, rx_blocked, asked_at, owed>>
  /\ UNCHANGED <<break_left, requests, host_sent, ringVars, epVars, out_irq,
                 rdVars, spoilt, linkVars>>

HostRequest == SetControlLineState \/ SendBreakRequest \/ SetLineCoding \/ HandleEP0Data

-----------------------------------------------------------------------------
(* A slip: the tick lifts the block although operations are still due.     *)
UnblockAtOnce == FALSE

(* The block is lifted when all data is consumed: the operations it was    *)
(* for have just been sent.                                                *)
StaysBlocked == rx_blocked /\ ~DeviceConsumedAllData

(* CDCTickHandler, from the start-of-frame interrupt: a break may end, and *)
(* its SendBreak resets the flag of a break deferred meanwhile; if all     *)
(* data is consumed the operations still deferred are sent, a break always *)
(* as one to begin, and the block is lifted; a waiting packet is read.     *)
CDCTickHandler ==
  /\ deferred # {}
  /\ LET ends == "clear" \in deferred /\ break_left <= 1
         due  == IF ends THEN SendBreak(deferred, FALSE) ELSE deferred
         left == IF ~DeviceConsumedAllData THEN due
                 ELSE (IF "break" \in due THEN SendBreak(due, TRUE) ELSE due)
                        \ RX_BLOCK_OPS
     IN
       /\ break_left' = IF "clear" \in deferred /\ ~ends THEN break_left - 1
                                                         ELSE break_left
       /\ rx_blocked' = StaysBlocked
       /\ IF ~StaysBlocked /\ "packet" \in left
          THEN HandleRxAvailable(left)
          ELSE NoPacket(left)
       /\ owed' = IF DeviceConsumedAllData THEN owed \ due ELSE owed
  /\ asked_at' = IF Pending' = {} THEN 0 ELSE asked_at
  /\ UNCHANGED <<ep0_wait, out_irq, host_sent, requests, rdVars, spoilt, linkVars>>

-----------------------------------------------------------------------------
(* The main loop.  A packet that has just arrived may find it at any step. *)

(* The application samples USBBufferDataAvailable and reads no more.       *)
StartRead(n) ==
  /\ rd_pc = "idle"
  /\ n <= Used
  /\ rd_left' = n
  /\ rd_pc' \in {"avail", "skip"}
  /\ UNCHANGED <<rd_last, rd_total, ringVars, epVars, out_irq, opVars,
                 hostVars, spoilt, linkVars>>

(* USBBufferRead: ui32Avail = USBRingBufUsed(...). *)
ReadAvail ==
  /\ rd_pc = "avail"
  /\ rd_left' = MIN_(rd_left, Used)
  /\ rd_pc' = IF rd_left' = 0 THEN "idle" ELSE "copy"
  /\ UNCHANGED <<rd_last, rd_total, ringVars, epVars, out_irq, opVars,
                 hostVars, spoilt, linkVars>>

(* One byte of USBRingBufRead: it does not look at the write index.        *)
ReadCopy ==
  /\ rd_pc = "copy"
  /\ rd_last' = <<rx_buf[rx_rd]>>
  /\ rx_rd' = ring_wrap(RX_SIZE, rx_rd + 1)
  /\ rd_total' = rd_total + 1
  /\ rd_left' = rd_left - 1
  /\ rd_pc' = IF rd_left' = 0 THEN "idle" ELSE "copy"
  /\ UNCHANGED <<rx_buf, rx_wr, epVars, out_irq, opVars, hostVars,
                 spoilt, linkVars>>

(* usb_api_get_data without a buffer: USBBufferDataRemoved(skip).          *)
Skip ==
  /\ rd_pc = "skip"
  /\ rx_rd' = USBRingBufAdvanceRead(RX_SIZE, rx_wr, rx_rd, rd_left)
  /\ rd_total' = rd_total + MIN_(rd_left, Used)
  /\ rd_pc' = "idle"
  /\ rd_left' = 0
  /\ UNCHANGED <<rd_last, rx_buf, rx_wr, epVars, out_irq, opVars,
                 hostVars, spoilt, linkVars>>

Reading == ReadAvail \/ ReadCopy \/ Skip
Starting == \E n \in 1 .. RX_SIZE - 1 : StartRead(n)
MainLoop == Reading \/ Starting

-----------------------------------------------------------------------------
(* Sessions                                                                *)

stackVars == <<ringVars, epVars, out_irq, opVars, hostVars, rdVars, spoilt>>

BusReset   == ResetBus /\ UNCHANGED stackVars
Disconnect == HandleDisconnect /\ UNCHANGED stackVars

(* HandleConfigChange: deferred operations and the block stay.  If it is   *)
(* announced, ControlHandler flushes the ring.  Whether a packet in the    *)
(* endpoint outlives the reset is the controller's affair.                 *)
HandleConfigChange ==
  /\ Configure
  /\ \/ UNCHANGED <<epVars, out_irq>>
     \/ /\ out_fifo' = << >> /\ out_rdy' = FALSE /\ out_irq' = FALSE
  /\ ep0_wait' = FALSE
  /\ asked_at' = IF Pending # {} /\ out_fifo' # out_fifo THEN host_sent ELSE asked_at
  /\ IF Announced
     THEN /\ rx_rd' = rx_wr
          /\ rd_total' = host_sent - Len(out_fifo')
          /\ spoilt' = (rd_pc # "idle")
     ELSE /\ spoilt' = (spoilt \/ out_fifo' # out_fifo)
          /\ UNCHANGED <<rx_rd, rd_total>>
  /\ UNCHANGED <<rx_buf, rx_wr, deferred, rx_blocked, break_left, host_sent,
                 requests, owed, rd_pc, rd_left, rd_last>>

Link == BusReset \/ Disconnect \/ HandleConfigChange

Next ==
  \/ HostOut \/ HostRequest \/ ProcessDataFromHost \/ CDCTickHandler
  \/ MainLoop \/ Link

Spec == Init /\ [][Next]_vars

(* A pending interrupt is taken, a configured device gets frames, and so   *)
(* ticks, and the main loop reads whenever there is something to read.     *)
(* Nothing is assumed of the host.                                         *)
FairSpec ==
  /\ Spec
  /\ WF_vars(ProcessDataFromHost)
  /\ WF_vars(configured /\ CDCTickHandler)
  /\ WF_vars(Reading)
  /\ WF_vars(Starting)

-----------------------------------------------------------------------------
(* Safety                                                                  *)

(* The variables have their types; indices stay in the ring even in a      *)
(* spoilt session.                                                         *)
TypeOK ==
  /\ LinkOK
  /\ rx_buf \in [0 .. RX_SIZE - 1 -> Nat \cup {JUNK}]
  /\ RingOK(RX_SIZE, rx_wr, rx_rd)
  /\ out_fifo \in Seq(Nat) /\ Len(out_fifo) <= OUT_PKT
  /\ out_rdy \in BOOLEAN /\ out_irq \in BOOLEAN
  /\ deferred \subseteq RX_BLOCK_OPS \cup {"clear", "packet"}
  /\ rx_blocked \in BOOLEAN
  /\ break_left \in 0 .. MaxBreak
  /\ ep0_wait \in BOOLEAN
  /\ requests \in 0 .. MaxRequests
  /\ rd_pc \in {"idle", "avail", "copy", "skip"}
  /\ rd_left \in 0 .. RX_SIZE - 1
  /\ rd_last \in Seq(Nat \cup {JUNK})
  /\ rd_total \in Nat
  /\ host_sent \in 0 .. MaxBytes
  /\ asked_at \in 0 .. MaxBytes
  /\ owed \subseteq RX_BLOCK_OPS
  /\ spoilt \in BOOLEAN

(* A packet in the endpoint has an interrupt pending or is noted for the   *)
(* tick: the driver never forgets one.                                     *)
PacketNoted == out_rdy => out_irq \/ "packet" \in deferred

(* Deferred requests hold up the data sent after them, whatever else       *)
(* happens.                                                                *)
NotOvertaken ==
  Pending # {} => rx_blocked /\ rx_total <= asked_at

(* Of the operations the application has yet to be told of, all but a      *)
(* break are still deferred, whatever else is sent, ended or reset by the  *)
(* same word of flags; and it is told of none twice.                       *)
OnlyBreaksLost ==
  /\ owed \ {"break"} \subseteq deferred
  /\ Pending \subseteq owed

(* USBBufferRead and the skip take all that USBBufferDataAvailable has     *)
(* shown: BUG_ON(sz != sizeof(api->pkt)), api.c:181.                       *)
ReadComplete == rd_pc \in {"avail", "skip"} => rd_left <= Used

(* ... as it does unless a flush comes in between. *)
ReadUnspoilt == spoilt \/ ReadComplete

(* What is left of the packet in the endpoint are the bytes sent last. *)
FifoOK ==
  /\ ~out_rdy => out_fifo = << >>
  /\ Len(out_fifo) <= host_sent
  /\ \A i \in 1 .. Len(out_fifo) : out_fifo[i] = rx_total + i - 1

(* The ring holds the bytes before them, in order. *)
RingContent ==
  \/ spoilt
  \/ /\ rx_total = rd_total + Used
     /\ \A j \in 0 .. Used - 1 : rx_buf[RingSlot(RX_SIZE, rx_rd, j)] = rd_total + j

(* What the reader has still to take is there. *)
ReadOK ==
  /\ rd_pc = "copy" => rd_left > 0
  /\ spoilt \/ (rd_pc # "idle" => rd_left <= Used)

(* The inductive invariant. *)
IInv ==
  /\ TypeOK /\ FifoOK /\ RingContent /\ ReadOK
  /\ PacketNoted /\ NotOvertaken

(* Reception is a FIFO, until a flush hits a read half done. *)
Stream == INSTANCE ByteStream WITH
  Capacity <- RX_SIZE - 1 + OUT_PKT,
  sent     <- host_sent,
  taken    <- rd_total,
  chunk    <- rd_last

ImplementsStream == [][spoilt \/ spoilt' \/ Stream!Next]_(Stream!streamVars)

-----------------------------------------------------------------------------
(* Liveness, under fairness                                                *)

(* Whatever was deferred and blocked meanwhile, every byte is read: the    *)
(* host falls silent, as MaxBytes bounds what it sends, and the reader     *)
(* catches up.                                                             *)
Delivered ==
  (host_sent > rd_total) ~> (host_sent = rd_total \/ ~configured \/ spoilt)

(* A request deferred for the data before it is carried out once that is   *)
(* read, the application told of the line coding or the line state asked   *)
(* for; and a break that is on or deferred is over some time.  Nothing is  *)
(* said of a deferred break's beginning: the tick that ends an earlier     *)
(* break drops it, although "the call is ignored (with the operation being *)
(* retried on the next timer tick)", usbdcdc.c:746.                        *)
Unsettled == (owed \ {"break"}) \cup (deferred \cap {"break", "clear"})
Notified == (Unsettled # {}) ~> (Unsettled = {} \/ ~configured)
=============================================================================
