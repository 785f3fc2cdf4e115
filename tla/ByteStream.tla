----------------------------- MODULE ByteStream -----------------------------
(***************************************************************************)
(* What every byte pipe of the stack promises: a bounded FIFO of bytes.    *)
(* The k-th byte accepted (counting from 0) is written as the number k, so *)
(* a pipe that loses, repeats, reorders or corrupts a byte hands out a     *)
(* chunk that is not the run of consecutive numbers that is due.  The      *)
(* program never looks at the bytes it moves here, so the numbering is     *)
(* without loss of generality.                                             *)
(*                                                                         *)
(* CdcRx, CdcTx and CdcEcho are shown to implement this module, and TiRx   *)
(* and TiTx to do so within a session.                                     *)
(***************************************************************************)
EXTENDS Integers

CONSTANT Capacity   (* the most bytes the pipe holds at once *)

VARIABLES
  sent,    (* bytes accepted from the writer     *)
  taken,   (* bytes handed to the reader         *)
  chunk    (* the run of bytes last handed over  *)

streamVars == <<sent, taken, chunk>>

Init ==
  /\ sent = 0
  /\ taken = 0
  /\ chunk = << >>

(* The writer's next n bytes are accepted. *)
Accept(n) ==
  /\ sent + n - taken <= Capacity
  /\ sent' = sent + n
  /\ UNCHANGED <<taken, chunk>>

(* The reader gets the next n bytes, in order. *)
Deliver(n) ==
  /\ taken + n <= sent
  /\ taken' = taken + n
  /\ chunk' = [i \in 1 .. n |-> taken + i - 1]
  /\ UNCHANGED sent

(* The reader drops the next n bytes without looking at them. *)
Discard(n) ==
  /\ taken + n <= sent
  /\ taken' = taken + n
  /\ UNCHANGED <<sent, chunk>>

Next == \E n \in 0 .. Capacity : Accept(n) \/ Deliver(n) \/ Discard(n)

Spec == Init /\ [][Next]_streamVars

(* A pipe that holds bytes does not sit on them. *)
Take == taken < sent /\ \E n \in 1 .. Capacity : Deliver(n) \/ Discard(n)

FairSpec == Spec /\ WF_streamVars(Take)
=============================================================================
