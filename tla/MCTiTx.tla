------------------------------- MODULE MCTiTx -------------------------------
(* TiTx on a small ring.  A byte nobody has written holds -1.              *)
EXTENDS TiTx

MCBlank == -1
=============================================================================
