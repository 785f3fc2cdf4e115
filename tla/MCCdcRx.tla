------------------------------ MODULE MCCdcRx -------------------------------
(* CdcRx on small rings.  A byte nobody has received holds -1.             *)
EXTENDS CdcRx

MCJunk == -1
=============================================================================
