---------------------------- MODULE MCCdcSession ----------------------------
(* CdcSession on small rings.  A byte nobody has received holds -1.        *)
EXTENDS CdcSession

MCJunk == -1

(* A main loop that never enters VCP_Get, but skips: one byte, or all that *)
(* the ring holds.  VCP_Get moves the tail like skips that happen to end   *)
(* in the ring.                                                            *)
SkipsOnly ==
  /\ rd_pc' # "avail"
  /\ rd_pc = "idle" /\ rd_pc' = "skip" => rd_sz' \in {1, VCP_DataAvail}

(* Packets are empty, hold one byte, or are full. *)
FewSizes == rx_ep = "armed" /\ rx_ep' = "full" => rx_cnt' \in {0, 1, OUT_PKT}

(* With few lengths to a ring, it can be a larger one, in which a skip can *)
(* take the tail past the end.                                             *)
SkippingSpec ==
  /\ SessionInit /\ [][SessionNext /\ SkipsOnly /\ FewSizes]_sessionVars
  /\ SessionFairness
=============================================================================
