------------------------------- MODULE CdcRx --------------------------------
(***************************************************************************)
(* Reception as the packet API uses it: the interrupt handlers of CdcOut   *)
(* against a main loop that reads with usb_api_get_data (usb_api.c), that  *)
(* is with VCP_Get or, to skip bytes, with VCP_DataAvail and VCP_MarkRead. *)
(*                                                                         *)
(* Interrupts may come between any two sections of the main loop, and      *)
(* between any two bytes of its memcpy.                                    *)
(***************************************************************************)
EXTENDS CdcOut, Sequences

CONSTANT MaxRead      (* bound: the longest read the main loop asks for *)

ASSUME RxAssumption == MaxRead \in Nat \ {0}

VARIABLES
  rd_pc,     (* where the main loop is                                     *)
  rd_want,   (* max_len of the VCP_GetContig under way                     *)
  rd_sz,     (* its sz                                                     *)
  rd_off,    (* bytes its memcpy has copied                                *)
  rd_ret,    (* bytes earlier VCP_GetContig calls of this VCP_Get returned *)
  rd_seen,   (* has_data: what VCP_DataAvail returned before this VCP_Get  *)
  rd_out     (* the run of bytes last copied out                           *)

rdVars == <<rd_pc, rd_want, rd_sz, rd_off, rd_ret, rd_seen, rd_out>>
vars   == <<outVars, frame_count, rdVars>>

Init ==
  /\ OutInit
  /\ FrameInit
  /\ rd_pc = "idle"
  /\ rd_want = 0
  /\ rd_sz = 0
  /\ rd_off = 0
  /\ rd_ret = 0
  /\ rd_seen = 0
  /\ rd_out = << >>

-----------------------------------------------------------------------------
(* usb_api_process samples VCP_DataAvail; then it, or a callback it calls, *)
(* enters VCP_Get(buff, n).                                                *)
StartGet(n) ==
  /\ rd_pc = "idle"
  /\ rd_pc' = "avail"
  /\ rd_seen' = VCP_DataAvail
  /\ rd_want' = n
  /\ rd_ret' = 0
  /\ UNCHANGED <<rd_sz, rd_off, rd_out, outVars, frame_count>>

(* VCP_GetContig: sz = MIN_(VCP_DataAvailContig(), max_len); nothing is    *)
(* copied if it is zero, and VCP_Get is done.                              *)
GetAvail ==
  /\ rd_pc = "avail"
  /\ rd_sz' = MIN_(VCP_DataAvailContig, rd_want)
  /\ rd_off' = 0
  /\ rd_pc' = IF rd_sz' = 0 THEN "idle" ELSE "copy"
  /\ UNCHANGED <<rd_want, rd_ret, rd_seen, rd_out, outVars, frame_count>>

(* VCP_GetContig: one byte of memcpy(buff, VCP_DataPtr(), sz).             *)
GetCopy ==
  /\ rd_pc = "copy"
  /\ rd_out' = <<rx_buf[rx_tail + rd_off]>>
  /\ rd_off' = rd_off + 1
  /\ rd_pc' = IF rd_off' = rd_sz THEN "mark" ELSE "copy"
  /\ UNCHANGED <<rd_want, rd_sz, rd_ret, rd_seen, outVars, frame_count>>

(* VCP_GetContig: VCP_MarkRead(sz).  VCP_Get calls VCP_GetContig a second  *)
(* time if the first call returned some but not all it asked for.          *)
GetMark ==
  /\ rd_pc = "mark"
  /\ VCP_MarkRead(rd_sz)
  /\ rd_want' = rd_want - rd_sz
  /\ rd_ret' = rd_ret + rd_sz
  /\ rd_off' = 0
  /\ rd_pc' = IF rd_ret = 0 /\ rd_want' # 0 THEN "avail" ELSE "idle"
  /\ UNCHANGED <<rd_sz, rd_seen, rd_out, frame_count>>

(* usb_api_get_data(0, n): skip = MIN_(VCP_DataAvail(), n) ...             *)
SkipAvail(n) ==
  /\ rd_pc = "idle"
  /\ rd_sz' = MIN_(VCP_DataAvail, n)
  /\ rd_pc' = "skip"
  /\ rd_want' = 0
  /\ rd_ret' = 0
  /\ rd_seen' = 0
  /\ UNCHANGED <<rd_off, rd_out, outVars, frame_count>>

(* ... then VCP_MarkRead(skip), which may pass the end of the ring.        *)
SkipMark ==
  /\ rd_pc = "skip"
  /\ VCP_MarkRead(rd_sz)
  /\ rd_pc' = "idle"
  /\ UNCHANGED <<rd_want, rd_sz, rd_off, rd_ret, rd_seen, rd_out, frame_count>>

Get == GetAvail \/ GetCopy \/ GetMark \/ SkipMark

MainLoop ==
  \/ \E n \in 1 .. MaxRead : StartGet(n) \/ SkipAvail(n)
  \/ Get

(* The start-of-frame interrupt, as far as reception is concerned.         *)
usbd_cdc_SOF ==
  /\ CountFrame
  /\ IF FrameDue THEN schedule_cdc_out ELSE UNCHANGED outVars
  /\ UNCHANGED rdVars

HostOut == (\E n \in 0 .. OUT_PKT : RxData(n)) /\ UNCHANGED rdVars
DataOut == usbd_cdc_DataOut /\ UNCHANGED rdVars

Next == HostOut \/ DataOut \/ usbd_cdc_SOF \/ MainLoop

Spec == Init /\ [][Next]_vars

(* Pending interrupts are taken, frames go on, and the main loop keeps     *)
(* calling usb_api_process, which reads.  Nothing is assumed of the host.  *)
Fairness ==
  /\ WF_vars(DataOut)
  /\ WF_vars(usbd_cdc_SOF)
  /\ WF_vars(Get)
  /\ WF_vars(\E n \in 1 .. MaxRead : StartGet(n) \/ SkipAvail(n))

FairSpec == Spec /\ Fairness

-----------------------------------------------------------------------------
(* Safety                                                                  *)

RdTypeOK ==
  /\ FrameOK
  /\ rd_pc \in {"idle", "avail", "copy", "mark", "skip"}
  /\ rd_want \in 0 .. MaxRead
  /\ rd_sz \in 0 .. MaxRead
  /\ rd_off \in 0 .. MaxRead
  /\ rd_ret \in 0 .. MaxRead
  /\ rd_seen \in Nat
  /\ rd_out \in Seq(Nat \cup {JUNK})

(* The variables of the pipe and of the reader have their types.           *)
TypeOK == OutTypeOK /\ RdTypeOK

(* What the reader sampled is still there when it uses the sample: the     *)
(* bytes it is about to copy are contiguous from the tail, those it is     *)
(* about to skip are unread, whatever interrupts came in between.          *)
SampleOK ==
  /\ rd_pc \in {"copy", "mark"} =>
        /\ rd_sz \in 1 .. rd_want
        /\ rd_sz <= VCP_DataAvailContig
        /\ rd_off <= rd_sz
        /\ rd_pc = "copy" <=> rd_off < rd_sz
  /\ rd_pc \notin {"copy", "mark"} => rd_off = 0
  /\ rd_pc = "skip" => rd_want = 0 /\ rd_sz <= VCP_DataAvail

(* How far a VCP_Get has come towards the bytes seen before it.  The first *)
(* VCP_GetContig falls short of both what was asked and what was seen only *)
(* if it reads up to the end of the ring; the second then starts at index  *)
(* 0, where the rest is contiguous.                                        *)
ProgressOK ==
  /\ rd_want + rd_ret <= MaxRead
  /\ rd_pc \in {"avail", "copy", "mark"} /\ rd_ret = 0 => rd_seen <= VCP_DataAvail
  /\ rd_pc = "avail" /\ rd_ret # 0 =>
       \/ rd_seen <= rd_ret
       \/ rx_tail = 0 /\ rd_seen <= rd_ret + VCP_DataAvail
  /\ rd_pc \in {"copy", "mark"} /\ rd_sz < rd_want =>
       \/ rd_seen <= rd_ret + rd_sz
       \/ rd_ret = 0 /\ rx_head < rx_tail /\ rx_tail + rd_sz = rx_size

(* A VCP_Get asking for no more than usb_api_process had seen available    *)
(* returns all it asked for, although it reads in two contiguous pieces    *)
(* while packets arrive.  api_process relies on it: BUG_ON(api->valid_sz   *)
(* != sizeof(api->pkt)), api.c:181.                                        *)
ReadComplete ==
  rd_pc = "idle" => rd_want = 0 \/ rd_ret >= rd_seen

IInv == OutInv /\ RdTypeOK /\ SampleOK /\ ProgressOK /\ ReadComplete

(* No interrupt moves the tail or changes a byte the reader is copying:    *)
(* try_start_rx moves the tail itself when it closes the ring early.       *)
StableUnderCopy ==
  [][ (UNCHANGED rdVars /\ rd_pc \in {"copy", "mark"}) =>
        /\ rx_tail' = rx_tail
        /\ \A j \in 0 .. rd_sz - 1 : rx_buf'[rx_tail + j] = rx_buf[rx_tail + j] ]_vars

(* Reception is a FIFO of at most RX_SIZE - 1 bytes: what is copied out or *)
(* skipped is exactly what the host sent, in order, each byte once.        *)
Stream == INSTANCE ByteStream WITH
  Capacity <- RX_SIZE - 1,
  sent     <- rx_accepted,
  taken    <- rx_read + rd_off,
  chunk    <- rd_out

ImplementsStream == Stream!Spec

-----------------------------------------------------------------------------
(* Liveness, under Fairness                                                *)

(* A pipe stopped for want of room takes packets again, once the reader    *)
(* has made room: the frame interrupt restarts it, no data interrupt will. *)
Resumes == rx_ep = "nak" ~> rx_ep = "armed"
=============================================================================
