----------------------------- MODULE UsbFrames ------------------------------
(***************************************************************************)
(* The start-of-frame counter of usbd_cdc_SOF.  The host starts a frame    *)
(* every millisecond; one frame in CDC_IN_FRAME_INTERVAL + 1 gives both    *)
(* data pipes a chance to restart.                                         *)
(***************************************************************************)
EXTENDS Integers

CONSTANT CDC_IN_FRAME_INTERVAL  (* frames skipped between two restarts: 1 in the code *)

ASSUME FrameAssumption == CDC_IN_FRAME_INTERVAL \in Nat

VARIABLE frame_count            (* FrameCount, static in usbd_cdc_SOF *)

FrameInit == frame_count = 0
FrameOK == frame_count \in 0 .. CDC_IN_FRAME_INTERVAL

(* FrameCount++ == CDC_IN_FRAME_INTERVAL *)
FrameDue == frame_count = CDC_IN_FRAME_INTERVAL

CountFrame == frame_count' = IF FrameDue THEN 0 ELSE frame_count + 1
=============================================================================
