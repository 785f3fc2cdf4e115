------------------------------- MODULE MCTiRx -------------------------------
(* TiRx on a small ring.  A byte nobody has received holds -1.             *)
EXTENDS TiRx

MCJunk == -1
=============================================================================
