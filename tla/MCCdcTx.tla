------------------------------ MODULE MCCdcTx -------------------------------
(* CdcTx on small rings.  A byte nobody has written holds -1.              *)
EXTENDS CdcTx

MCBlank == -1
=============================================================================
