----------------------------- MODULE CdcSession -----------------------------
(***************************************************************************)
(* Reception over several sessions.  The host resets the bus and           *)
(* enumerates the device again, or takes its configuration away and gives  *)
(* it back; the indices of the receive ring outlive both.  At any moment   *)
(* it may suspend the bus and resume it.  CdcRx describes the first        *)
(* session; here is what connects it to the next ones.                     *)
(*                                                                         *)
(* Transmission is left out: what becomes of a packet that waits in the    *)
(* endpoint when the bus is reset is the controller's affair.              *)
(***************************************************************************)
EXTENDS CdcRx

CONSTANT MaxSessions     (* bound: how often the device is configured      *)

ASSUME SessionAssumption == MaxSessions \in Nat \ {0}

VARIABLES
  device_status,  (* pdev->dev.device_status: "default", "addressed",      *)
                  (* "configured" or "suspended"                           *)
  device_config,  (* pdev->dev.device_config                               *)
  ep_active,      (* the data endpoints are active                         *)
  sessions,       (* how often the device has been configured              *)
  quiet,          (* the ring was empty when the session began             *)
  began,          (* rx_total when the session began ...                   *)
  first_end,      (* ... and when its first packet with data had arrived   *)
  overlong        (* a skip has been marked that was longer than the ring  *)

coreVars == <<device_status, device_config, ep_active>>
beganVars   == <<sessions, quiet, began, first_end>>
historyVars == <<beganVars, overlong>>
sessionVars == <<vars, coreVars, historyVars>>

SessionInit ==
  /\ Init
  /\ device_status = "configured" /\ device_config = 1
  /\ ep_active = TRUE
  /\ sessions = 1
  /\ quiet = TRUE
  /\ began = 0
  /\ first_end = 0
  /\ overlong = FALSE

-----------------------------------------------------------------------------
(* The bus is reset: USBD_Reset does not call the class driver.  A         *)
(* completion interrupt still pending is cleared, and its packet with it.  *)
(* USBD_Reset leaves device_config alone.                                  *)
BusReset ==
  /\ device_status' = "default"
  /\ ep_active' = FALSE
  /\ rx_ep' = IF rx_ep = "full" THEN "nak" ELSE rx_ep
  /\ UNCHANGED <<rx_buf, ringVars, rx_total, rx_ptr, rx_cnt, rx_read,
                 frame_count, rdVars, device_config, historyVars>>

(* The bus has been idle for 3 ms: no completion is pending, and there are *)
(* no frames until it is resumed or reset.                                 *)
USBD_Suspend ==
  /\ device_status # "suspended"
  /\ rx_ep # "full" \/ ~ep_active
  /\ device_status' = "suspended"
  /\ UNCHANGED <<vars, device_config, ep_active, historyVars>>

(* Whatever the device was before, it counts as configured now.            *)
USBD_Resume ==
  /\ device_status = "suspended"
  /\ device_status' = "configured"
  /\ UNCHANGED <<vars, device_config, ep_active, historyVars>>

(* SET_ADDRESS, refused to a configured device. *)
USBD_SetAddress ==
  /\ device_status = "default"
  /\ device_status' = "addressed"
  /\ UNCHANGED <<vars, device_config, ep_active, historyVars>>

(* A slip: the head goes to where the packet will be, and the tail does    *)
(* not follow.                                                             *)
HeadOnlyReset ==
  /\ rx_active' = TRUE
  /\ rx_ep' = "armed"
  /\ rx_head' = 0 /\ rx_ptr' = 0 /\ rx_cnt' = 0
  /\ UNCHANGED <<rx_buf, rx_tail, rx_size, rx_total>>

(* usbd_cdc_Init: the ring is left as it is, and a packet is received into *)
(* the start of the buffer.  A completion interrupt that was masked while  *)
(* the device was not configured comes at once, for no bytes.              *)
usbd_cdc_Init ==
  /\ rx_active' = TRUE
  /\ rx_ep' = IF rx_ep = "full" THEN "full" ELSE "armed"
  /\ rx_ptr' = 0
  /\ rx_cnt' = 0
  /\ UNCHANGED <<rx_buf, rx_head, rx_tail, rx_size, rx_total>>

(* SET_CONFIGURATION(1).  It changes no index, so a VCP call it interrupts *)
(* might as well have ended before: the first packet comes much later.     *)
(* (rx_read only counts: bytes an earlier session has lost are not missed  *)
(* any more once the ring is empty.)  A device that counts as configured   *)
(* closes the endpoints and begins anew if its device_config is another,   *)
(* and only acknowledges the request if it is the same.                    *)
SetConfiguration ==
  /\ \/ device_status = "addressed"
     \/ device_status = "configured" /\ device_config = 0
  /\ sessions < MaxSessions
  /\ rd_pc = "idle"
  /\ usbd_cdc_Init
  /\ device_status' = "configured"
  /\ device_config' = 1
  /\ ep_active' = TRUE
  /\ sessions' = sessions + 1
  /\ quiet' = (rx_head = rx_tail)
  /\ rx_read' = IF quiet' THEN rx_total ELSE rx_read
  /\ began' = rx_total
  /\ first_end' = rx_total
  /\ UNCHANGED <<frame_count, rdVars, overlong>>

(* SET_CONFIGURATION(0), usbd_cdc_DeInit.  A completion that comes with it *)
(* is dropped by USBD_DataOutStage, or masked with its endpoint.           *)
ClearConfiguration ==
  /\ device_status = "configured"
  /\ device_status' = "addressed"
  /\ device_config' = 0
  /\ ep_active' = FALSE
  /\ rx_ep' \in (IF rx_ep = "full" /\ ep_active THEN {"nak", "full"} ELSE {rx_ep})
  /\ UNCHANGED <<rx_buf, ringVars, rx_total, rx_ptr, rx_cnt, rx_read,
                 frame_count, rdVars, historyVars>>

-----------------------------------------------------------------------------
(* The host can reach the endpoint.  A device resumed before it was ever   *)
(* configured counts as configured although it cannot.                     *)
Live == ep_active /\ device_status = "configured"

(* The endpoint takes packets while it is active, and its completion       *)
(* interrupt is masked otherwise; USBD_DataOutStage calls the class driver *)
(* in a configured device only.                                            *)
SessionHostOut ==
  /\ Live
  /\ HostOut
  /\ UNCHANGED <<coreVars, historyVars>>

SessionDataOut ==
  /\ Live
  /\ DataOut
  /\ first_end' = IF first_end = began THEN rx_total' ELSE first_end
  /\ UNCHANGED <<coreVars, sessions, quiet, began, overlong>>

(* USBD_SOF calls the class driver whatever the device's status, and the   *)
(* main loop knows nothing of it.                                          *)
SessionSOF ==
  /\ device_status # "suspended"
  /\ usbd_cdc_SOF
  /\ UNCHANGED <<coreVars, historyVars>>

(* A skip is never longer than the ring was when it was sampled; but the   *)
(* ring may have been closed early since.                                  *)
NoteSkip ==
  /\ overlong' = (overlong \/ (rd_pc = "skip" /\ rd_sz > rx_size))
  /\ UNCHANGED <<coreVars, beganVars>>

SessionMain == MainLoop /\ NoteSkip

(* The tail is in the ring.  What the unsigned differences of ring_buff.h  *)
(* come to where it is not, and so what then happens, is not modelled:     *)
(* the model ends there.                                                   *)
TailInRing == rx_tail < rx_size

SessionNext ==
  /\ TailInRing
  /\ \/ BusReset \/ USBD_Suspend \/ USBD_Resume
     \/ USBD_SetAddress \/ SetConfiguration \/ ClearConfiguration
     \/ SessionHostOut \/ SessionDataOut \/ SessionSOF \/ SessionMain

SessionSpec == SessionInit /\ [][SessionNext]_sessionVars

(* As in CdcRx: nothing is assumed of the host. *)
SessionFairness ==
  /\ WF_sessionVars(SessionDataOut)
  /\ WF_sessionVars(SessionSOF)
  /\ WF_sessionVars(Get /\ NoteSkip)
  /\ WF_sessionVars((\E n \in 1 .. MaxRead : StartGet(n) \/ SkipAvail(n)) /\ NoteSkip)

SessionFairSpec == SessionSpec /\ SessionFairness

-----------------------------------------------------------------------------
(* The bytes of the session's first packet with data. *)
First == began .. first_end - 1

(* The indices are inside the ring, a packet is never stored past the      *)
(* buffer's end, nor a byte copied from beyond it.                         *)
MemorySafe ==
  /\ OutTypeOK /\ RdTypeOK
  /\ OutRingOK
  /\ rx_ep = "armed" => rx_ptr + OUT_PKT <= RX_SIZE
  /\ rd_pc = "copy" => rx_tail + rd_off < RX_SIZE

(* Whatever state the ring was in when the device was configured, memory   *)
(* is safe, but for what VCP_MarkRead makes of a skip that is longer than  *)
(* the ring.                                                               *)
SafeButForLongSkips == overlong \/ MemorySafe

(* The bytes in the ring are those received and not yet read, and hold     *)
(* what the host sent, but for those numbered in Except.                   *)
ContentBut(Except) ==
  /\ rx_total = rx_read + VCP_DataAvail
  /\ \A j \in 0 .. VCP_DataAvail - 1 :
        rx_read + j \in Except \/ rx_buf[RingSlot(rx_size, rx_tail, j)] = rx_read + j

(* A session that begins with an empty ring spoils its first packet at     *)
(* most: no byte is lost, none is added, and all later ones are right.     *)
OnlyFirstSpoilt == quiet => ContentBut(First)

(* "assert ord(rbuff[j]) == ((rxi ^ (rxi >> 8)) & 0xff)": what the device  *)
(* reads, and so echoes, is what the host has sent in this session, if the *)
(* earlier ones have left nothing behind.                                  *)
FreshSessionOK == quiet => ContentBut({})

(* A pipe that stops for want of room in a session starts again in it,     *)
(* unless the session ends or is suspended, or an overlong skip takes the  *)
(* tail out of the ring.                                                   *)
SessionResumes ==
  (Live /\ rx_ep = "nak") ~> (~Live \/ rx_ep = "armed" \/ ~TailInRing)
=============================================================================
