----------------------------- MODULE MCCdcEcho ------------------------------
(* CdcEcho on small rings.  A byte nobody has received holds -1, one       *)
(* nobody has written -2.                                                  *)
EXTENDS CdcEcho

MCJunk  == -1
MCBlank == -2
=============================================================================
