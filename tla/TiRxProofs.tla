----------------------------- MODULE TiRxProofs -----------------------------
(***************************************************************************)
(* Reception on TI is correct for every buffer size, packet size and       *)
(* number of requests and sessions: IInv is an inductive invariant of      *)
(* TiRx, and from it follow the type invariant, that no packet is          *)
(* forgotten, that data does not overtake a request, that only a flush     *)
(* makes a read fall short, and that TiRx implements ByteStream.           *)
(***************************************************************************)
EXTENDS TiRx, SequenceTheorems, TLAPS

USE DEF RingOK

OpFlags == RX_BLOCK_OPS \cup {"clear", "packet"}

(* TypeOK by what the variables belong to. *)
RingType ==
  /\ rx_buf \in [0 .. RX_SIZE - 1 -> Nat \cup {JUNK}]
  /\ RingOK(RX_SIZE, rx_wr, rx_rd)
FifoType ==
  /\ out_fifo \in Seq(Nat) /\ Len(out_fifo) <= OUT_PKT
  /\ out_rdy \in BOOLEAN /\ out_irq \in BOOLEAN
  /\ host_sent \in 0 .. MaxBytes
OpsType ==
  /\ deferred \subseteq OpFlags
  /\ rx_blocked \in BOOLEAN
  /\ break_left \in 0 .. MaxBreak
  /\ ep0_wait \in BOOLEAN
  /\ requests \in 0 .. MaxRequests
  /\ asked_at \in 0 .. MaxBytes
  /\ owed \subseteq RX_BLOCK_OPS
ReadType ==
  /\ rd_pc \in {"idle", "avail", "copy", "skip"}
  /\ rd_left \in 0 .. RX_SIZE - 1
  /\ rd_last \in Seq(Nat \cup {JUNK})
  /\ rd_total \in Nat
  /\ spoilt \in BOOLEAN

LEMMA TypeParts == TypeOK <=> LinkOK /\ RingType /\ FifoType /\ OpsType /\ ReadType
  BY DEF TypeOK, RingType, FifoType, OpsType, ReadType, OpFlags

LEMMA Collect ==
  ASSUME LinkOK', RingType', FifoType', OpsType', ReadType',
         FifoOK', RingContent', ReadOK', PacketNoted', NotOvertaken'
  PROVE  IInv'
<1>1. TypeOK'
  BY DEF TypeOK, RingType, FifoType, OpsType, ReadType, OpFlags
<1> QED
  BY <1>1 DEF IInv

LEMMA UsedType ==
  ASSUME RingType
  PROVE  Used \in 0 .. RX_SIZE - 1 /\ RX_SIZE \in Nat \ {0}
  BY RxAssumption DEF RingType, Used, USBRingBufUsed, ring_data_avail

LEMMA TotalType ==
  ASSUME FifoType, FifoOK
  PROVE  /\ Len(out_fifo) \in 0 .. OUT_PKT /\ host_sent \in Nat
         /\ rx_total \in Nat /\ rx_total <= host_sent
         /\ host_sent = rx_total + Len(out_fifo)
<1>1. Len(out_fifo) \in Nat
  BY LenProperties DEF FifoType
<1> QED
  BY <1>1, RxAssumption DEF FifoType, FifoOK, rx_total

-----------------------------------------------------------------------------
(* Reading n bytes from the endpoint into the ring.                        *)

(* What a SubSeq of the packet is. *)
LEMMA FifoRest ==
  ASSUME FifoType, NEW n \in 0 .. Len(out_fifo)
  PROVE  LET rest == SubSeq(out_fifo, n + 1, Len(out_fifo))
         IN  /\ rest \in Seq(Nat)
             /\ Len(rest) = Len(out_fifo) - n
             /\ \A i \in 1 .. Len(out_fifo) - n : rest[i] = out_fifo[n + i]
             /\ n = Len(out_fifo) => rest = << >>
<1> DEFINE L == Len(out_fifo)
           rest == SubSeq(out_fifo, n + 1, L)
<1>1. /\ L \in Nat /\ n \in Nat /\ n <= L /\ n + 1 \in Int /\ L \in Int
      /\ \A i \in 1 .. L : out_fifo[i] \in Nat
  BY LenProperties DEF FifoType
<1>2. \A i \in n + 1 .. L : out_fifo[i] \in Nat
  BY <1>1
<1>3. /\ rest \in Seq(Nat)
      /\ Len(rest) = IF n + 1 <= L THEN L - (n + 1) + 1 ELSE 0
      /\ \A i \in 1 .. L - (n + 1) + 1 : rest[i] = out_fifo[n + 1 + i - 1]
  BY ONLY <1>1, <1>2, SubSeqProperties
<1>4. n = L => rest = << >>
  <2>1. n = L => L < n + 1
    BY <1>1
  <2> QED
    BY <1>1, <2>1, SubSeqEmpty
<1>5. Len(rest) = L - n
  BY <1>1, <1>3
<1>6. ASSUME NEW i \in 1 .. L - n PROVE rest[i] = out_fifo[n + i]
  <2>1. i \in 1 .. L - (n + 1) + 1 /\ n + 1 + i - 1 = n + i
    BY <1>1
  <2> QED
    BY <1>3, <2>1
<1> HIDE DEF rest
<1> QED
  BY <1>3, <1>4, <1>5, <1>6 DEF rest

(* The two pieces HandleRxAvailable reads into. *)
LEMMA TwoPieces ==
  ASSUME RingType, NEW L \in Nat
  PROVE  LET first  == MIN_(L, USBRingBufContigFree(RX_SIZE, rx_wr, rx_rd))
             wr     == ring_wrap(RX_SIZE, rx_wr + first)
             second == MIN_(L - first, USBRingBufContigFree(RX_SIZE, wr, rx_rd))
             n      == first + second
             next   == ring_wrap(RX_SIZE, wr + second)
         IN  /\ n \in 0 .. L /\ Used + n <= RX_SIZE - 1
             /\ next \in 0 .. RX_SIZE - 1
             /\ ring_data_avail(RX_SIZE, next, rx_rd) = Used + n
<1> DEFINE first  == MIN_(L, USBRingBufContigFree(RX_SIZE, rx_wr, rx_rd))
           wr     == ring_wrap(RX_SIZE, rx_wr + first)
           second == MIN_(L - first, USBRingBufContigFree(RX_SIZE, wr, rx_rd))
           next   == ring_wrap(RX_SIZE, wr + second)
<1> USE DEF RingType, Used, USBRingBufUsed, USBRingBufContigFree
<1>1. /\ first \in 0 .. L /\ wr \in 0 .. RX_SIZE - 1
      /\ Used + first <= RX_SIZE - 1
      /\ ring_data_avail(RX_SIZE, wr, rx_rd) = Used + first
  BY DEF MIN_, ring_space_contig, ring_wrap, ring_data_avail
<1> HIDE DEF first, wr
<1>2. /\ second \in 0 .. L - first /\ next \in 0 .. RX_SIZE - 1
      /\ ring_data_avail(RX_SIZE, wr, rx_rd) + second <= RX_SIZE - 1
      /\ ring_data_avail(RX_SIZE, next, rx_rd) = ring_data_avail(RX_SIZE, wr, rx_rd) + second
  BY <1>1 DEF MIN_, ring_space_contig, ring_wrap, ring_data_avail
<1>3. Used \in 0 .. RX_SIZE - 1
  BY UsedType
<1> HIDE DEF second, next, Used
<1>4. /\ first + second \in 0 .. L /\ Used + (first + second) <= RX_SIZE - 1
      /\ ring_data_avail(RX_SIZE, next, rx_rd) = Used + (first + second)
  BY <1>1, <1>2, <1>3, RxAssumption
<1> QED
  BY <1>2, <1>4 DEF first, wr, second, next

(* HandleRxAvailable moves the bytes from the packet to the ring, in order, *)
(* forgets neither a packet it leaves in the endpoint nor an operation, and *)
(* takes nothing from the reader.                                          *)
LEMMA HandleRx ==
  ASSUME TypeOK, FifoOK, RingContent, ReadOK,
         NEW flags \in SUBSET OpFlags, "packet" \in flags,
         HandleRxAvailable(flags),
         UNCHANGED <<host_sent, rdVars, spoilt>>, out_irq' \in BOOLEAN
  PROVE  /\ RingType' /\ FifoType' /\ FifoOK' /\ RingContent' /\ ReadOK' /\ ReadType'
         /\ deferred' \subseteq OpFlags
         /\ deferred' \cap RX_BLOCK_OPS = flags \cap RX_BLOCK_OPS
         /\ PacketNoted'
<1>0. LinkOK /\ RingType /\ FifoType /\ OpsType /\ ReadType
  BY TypeParts
<1> DEFINE L      == Len(out_fifo)
           first  == MIN_(L, USBRingBufContigFree(RX_SIZE, rx_wr, rx_rd))
           wr     == ring_wrap(RX_SIZE, rx_wr + first)
           second == MIN_(L - first, USBRingBufContigFree(RX_SIZE, wr, rx_rd))
           n      == first + second
           rest   == SubSeq(out_fifo, n + 1, L)
<1>1. /\ L \in 0 .. OUT_PKT /\ rx_total \in Nat /\ host_sent = rx_total + L /\ L \in Nat
      /\ OUT_PKT \in Nat
  BY <1>0, TotalType, RxAssumption
<1>2. /\ n \in 0 .. L /\ Used + n <= RX_SIZE - 1
      /\ ring_wrap(RX_SIZE, wr + second) \in 0 .. RX_SIZE - 1
      /\ ring_data_avail(RX_SIZE, ring_wrap(RX_SIZE, wr + second), rx_rd) = Used + n
  BY <1>0, <1>1, TwoPieces
<1>3. /\ rest \in Seq(Nat) /\ Len(rest) = L - n
      /\ \A i \in 1 .. L - n : rest[i] = out_fifo[n + i]
      /\ n = L => rest = << >>
  BY <1>0, <1>2, FifoRest
<1>4. /\ rx_wr' = ring_wrap(RX_SIZE, wr + second) /\ rx_rd' = rx_rd
      /\ rx_buf' = [i \in 0 .. RX_SIZE - 1 |->
                      IF ring_data_avail(RX_SIZE, i, rx_wr) < n
                      THEN out_fifo[ring_data_avail(RX_SIZE, i, rx_wr) + 1]
                      ELSE rx_buf[i]]
      /\ out_fifo' = IF out_rdy /\ n = L THEN << >> ELSE rest
      /\ out_rdy' = (out_rdy /\ ~(out_rdy /\ n = L))
      /\ deferred' = IF out_rdy /\ n = L THEN flags \ {"packet"} ELSE flags
  BY DEF HandleRxAvailable, WholePacket
<1> HIDE DEF n, rest
<1>5. /\ Used' = Used + n /\ Used \in 0 .. RX_SIZE - 1 /\ RX_SIZE \in Nat
      /\ Used' \in 0 .. RX_SIZE - 1
  <2>1. Used' = ring_data_avail(RX_SIZE, rx_wr', rx_rd')
    BY DEF Used, USBRingBufUsed
  <2>2. Used \in 0 .. RX_SIZE - 1 /\ RX_SIZE \in Nat
    BY <1>0, UsedType
  <2> QED
    BY <1>1, <1>2, <1>4, <2>1, <2>2
<1>6. RingType'
  <2>1. ASSUME NEW i \in 0 .. RX_SIZE - 1, ring_data_avail(RX_SIZE, i, rx_wr) < n
        PROVE  out_fifo[ring_data_avail(RX_SIZE, i, rx_wr) + 1] \in Nat
    <3>1. ring_data_avail(RX_SIZE, i, rx_wr) + 1 \in 1 .. L
      BY <1>0, <1>1, <1>2, <2>1 DEF ring_data_avail, RingType
    <3> QED
      BY <1>0, <3>1, LenProperties DEF FifoType
  <2>2. rx_buf' \in [0 .. RX_SIZE - 1 -> Nat \cup {JUNK}]
    BY <1>0, <1>4, <2>1 DEF RingType
  <2> QED
    BY <1>0, <1>2, <1>4, <2>2 DEF RingType
<1>7. out_fifo' = rest
  BY <1>3, <1>4
<1>8. /\ Len(out_fifo') = L - n /\ rx_total' = rx_total + n /\ host_sent' = host_sent
  <2>1. Len(out_fifo') = L - n
    BY <1>3, <1>7
  <2>2. rx_total' = host_sent - (L - n)
    BY <2>1 DEF rx_total
  <2>3. n \in Nat /\ L \in Nat /\ rx_total \in Nat /\ host_sent = rx_total + L
    BY <1>1, <1>2
  <2>4. \A t, l, k, h \in Nat : h = t + l => h - (l - k) = t + k
    OBVIOUS
  <2>5. host_sent \in Nat
    BY <2>3
  <2> QED
    BY ONLY <2>1, <2>2, <2>3, <2>4, <2>5, UNCHANGED host_sent
<1>9. FifoType'
  <2>1. L - n <= OUT_PKT
    BY <1>1, <1>2
  <2> QED
    BY <1>0, <1>3, <1>4, <1>7, <1>8, <2>1 DEF FifoType
<1>10. FifoOK'
  <2>1. ~out_rdy' => out_fifo' = << >>
    <3>1. CASE out_rdy
      BY <1>4, <3>1
    <3>2. CASE ~out_rdy
      <4>1. L = 0
        BY <3>2, EmptySeq DEF FifoOK
      <4>2. n = L
        BY <1>2, <4>1
      <4> QED
        BY <1>3, <1>7, <4>2
    <3> QED
      BY <3>1, <3>2
  <2>2. Len(out_fifo') <= host_sent'
    BY <1>1, <1>2, <1>8
  <2>3. ASSUME NEW i \in 1 .. Len(out_fifo')
        PROVE  out_fifo'[i] = rx_total' + i - 1
    <3>1. i \in 1 .. L - n /\ n + i \in 1 .. L
      BY <1>1, <1>2, <1>8
    <3>2. out_fifo[n + i] = rx_total + (n + i) - 1
      BY <3>1 DEF FifoOK
    <3>3. rx_total + (n + i) - 1 = rx_total' + i - 1
      BY <1>1, <1>2, <1>8, <3>1
    <3> QED
      BY <1>3, <1>7, <3>1, <3>2, <3>3
  <2> QED
    BY <2>1, <2>2, <2>3 DEF FifoOK
<1>11. RingContent'
  <2> SUFFICES ASSUME ~spoilt PROVE RingContent'
    BY DEF RingContent
  <2>1. rx_total = rd_total + Used /\ rd_total' = rd_total /\ rd_total \in Nat
    BY <1>0 DEF RingContent, rdVars, ReadType
  <2>2. rx_total' = rd_total' + Used'
    BY <1>2, <1>5, <1>8, <2>1
  <2>3. ASSUME NEW j \in 0 .. Used' - 1
        PROVE  rx_buf'[RingSlot(RX_SIZE, rx_rd', j)] = rd_total' + j
    <3> DEFINE s == RingSlot(RX_SIZE, rx_rd, j)
    <3>1. /\ s \in 0 .. RX_SIZE - 1
          /\ ring_data_avail(RX_SIZE, s, rx_wr) =
               IF j < Used THEN RX_SIZE - Used + j ELSE j - Used
      BY <1>0, <1>2, <1>5 DEF RingType, RingSlot, ring_wrap, ring_data_avail, Used, USBRingBufUsed
    <3> HIDE DEF s
    <3>2. CASE j < Used
      <4>1. ~(ring_data_avail(RX_SIZE, s, rx_wr) < n)
        BY <1>2, <1>5, <3>1, <3>2
      <4>2. rx_buf'[s] = rx_buf[s]
        BY <1>4, <3>1, <4>1
      <4>3. rx_buf[s] = rd_total + j
        <5>1. j \in 0 .. Used - 1
          BY <1>5, <3>2
        <5> QED
          BY <5>1 DEF RingContent, s
      <4> QED
        BY <1>4, <2>1, <4>2, <4>3 DEF s
    <3>3. CASE ~(j < Used)
      <4> DEFINE k == j - Used
      <4>1. k \in 0 .. n - 1 /\ k + 1 \in 1 .. L
        BY <1>1, <1>2, <1>5, <3>3
      <4>2. ring_data_avail(RX_SIZE, s, rx_wr) = k
        BY <3>1, <3>3
      <4>3. rx_buf'[s] = out_fifo[k + 1]
        BY <1>2, <1>4, <3>1, <4>1, <4>2
      <4>4. out_fifo[k + 1] = rx_total + (k + 1) - 1
        BY <4>1 DEF FifoOK
      <4>5. rx_total + (k + 1) - 1 = rd_total + j
        BY <1>1, <1>5, <2>1, <4>1
      <4> QED
        BY <1>4, <2>1, <4>3, <4>4, <4>5 DEF s
    <3> QED
      BY <3>2, <3>3
  <2> QED
    BY <2>2, <2>3 DEF RingContent
<1>12. ReadOK' /\ ReadType'
  <2>1. UNCHANGED <<rd_pc, rd_left, rd_last, rd_total, spoilt>>
    BY DEF rdVars
  <2>2. rd_left <= Used => rd_left <= Used'
    BY <1>0, <1>2, <1>5 DEF ReadType
  <2> QED
    BY <1>0, <2>1, <2>2 DEF ReadOK, ReadType
<1>13. /\ deferred' \subseteq OpFlags
       /\ deferred' \cap RX_BLOCK_OPS = flags \cap RX_BLOCK_OPS
       /\ PacketNoted'
  BY <1>4 DEF OpFlags, RX_BLOCK_OPS, PacketNoted
<1> QED
  BY <1>6, <1>9, <1>10, <1>11, <1>12, <1>13

(* Steps that touch neither the packet, the ring nor the reader. *)
LEMMA DataAlone ==
  ASSUME TypeOK, FifoOK, RingContent, ReadOK,
         UNCHANGED <<ringVars, epVars, host_sent, rdVars, spoilt>>, out_irq' \in BOOLEAN
  PROVE  /\ RingType' /\ FifoType' /\ FifoOK' /\ RingContent' /\ ReadOK' /\ ReadType'
         /\ Used' = Used /\ rx_total' = rx_total
<1>1. UNCHANGED <<rx_buf, rx_wr, rx_rd, out_fifo, out_rdy, host_sent,
                  rd_pc, rd_left, rd_last, rd_total, spoilt>>
  BY DEF ringVars, epVars, rdVars
<1>2. Used' = Used /\ rx_total' = rx_total
  BY <1>1 DEF Used, rx_total
<1>3. RingType' /\ FifoType' /\ ReadType'
  BY <1>1, TypeParts DEF RingType, FifoType, ReadType
<1>4. FifoOK' /\ RingContent' /\ ReadOK'
  BY <1>1, <1>2 DEF FifoOK, RingContent, ReadOK
<1> QED
  BY <1>2, <1>3, <1>4

-----------------------------------------------------------------------------
LEMMA InitInv == Init => IInv
<1> SUFFICES ASSUME Init PROVE IInv
  OBVIOUS
<1>1. << >> \in Seq(Nat) /\ << >> \in Seq(Nat \cup {JUNK}) /\ Len(<< >>) = 0
  BY EmptySeq
<1>2. Used = 0 /\ rx_total = 0
  <2>1. Used = 0
    BY RxAssumption DEF Init, Used, USBRingBufUsed, ring_data_avail
  <2>2. Len(out_fifo) = 0
    <3>1. out_fifo = << >>
      BY DEF Init
    <3> QED
      BY ONLY <1>1, <3>1, Zenon
  <2>3. rx_total = 0 - 0
    BY <2>2 DEF Init, rx_total
  <2> QED
    BY ONLY <2>1, <2>3
<1>3. LinkOK
  BY LinkAssumption DEF Init, LinkInit, LinkOK
<1>4. RingType /\ FifoType /\ OpsType /\ ReadType
  <2>1. RingType
    BY RxAssumption DEF Init, RingType
  <2>5. OpsType
    <3>1. /\ break_left \in 0 .. MaxBreak /\ requests \in 0 .. MaxRequests
          /\ asked_at \in 0 .. MaxBytes
      BY RxAssumption DEF Init
    <3>2. rx_blocked \in BOOLEAN /\ ep0_wait \in BOOLEAN /\ deferred = {} /\ owed = {}
      BY DEF Init
    <3>3. owed \subseteq RX_BLOCK_OPS
      BY <3>2
    <3>4. deferred \subseteq OpFlags
      BY <3>2
    <3> QED
      BY ONLY <3>1, <3>2, <3>3, <3>4, SMT DEF OpsType
  <2>2. out_fifo = << >> /\ rd_last = << >> /\ host_sent = 0
    BY DEF Init
  <2>3. FifoType
    <3>1. 0 <= OUT_PKT /\ 0 \in 0 .. MaxBytes
      BY RxAssumption
    <3>2. out_rdy \in BOOLEAN /\ out_irq \in BOOLEAN
      BY DEF Init
    <3> QED
      BY ONLY <1>1, <2>2, <3>1, <3>2, Zenon DEF FifoType
  <2>4. ReadType
    <3>1. rd_left \in 0 .. RX_SIZE - 1 /\ rd_total \in Nat
      BY RxAssumption DEF Init
    <3>2. rd_pc \in {"idle", "avail", "copy", "skip"} /\ spoilt \in BOOLEAN
      BY DEF Init
    <3> QED
      BY ONLY <1>1, <2>2, <3>1, <3>2, Zenon DEF ReadType
  <2> QED
    BY <2>1, <2>3, <2>4, <2>5
<1>5. FifoOK /\ RingContent /\ ReadOK
  BY <1>1, <1>2 DEF Init, FifoOK, RingContent, ReadOK
<1>6. PacketNoted /\ NotOvertaken
  BY DEF Init, PacketNoted, NotOvertaken, Pending
<1> QED
  BY <1>3, <1>4, <1>5, <1>6, TypeParts DEF IInv

(* The host sends a packet. *)
LEMMA HostOutInv ==
  ASSUME IInv, HostOut
  PROVE  /\ IInv'
         /\ \E n \in 0 .. OUT_PKT : host_sent' = host_sent + n
<1>0. LinkOK /\ RingType /\ FifoType /\ OpsType /\ ReadType
  BY TypeParts DEF IInv
<1>1. PICK n \in 0 .. OUT_PKT :
        /\ host_sent + n <= MaxBytes
        /\ out_fifo' = [i \in 1 .. n |-> host_sent + i - 1]
        /\ host_sent' = host_sent + n
  BY DEF HostOut
<1>2. /\ ~out_rdy /\ out_rdy' = TRUE /\ out_irq' = TRUE
      /\ UNCHANGED <<rx_buf, rx_wr, rx_rd, deferred, rx_blocked, break_left, ep0_wait,
                     requests, asked_at, owed, rd_pc, rd_left, rd_last, rd_total, spoilt,
                     configured, bConnected, sessions>>
  BY DEF HostOut, ringVars, opVars, rdVars, linkVars
<1>3. /\ host_sent = rx_total /\ host_sent \in Nat /\ n \in Nat
  BY <1>0, <1>2, TotalType, EmptySeq, RxAssumption DEF IInv, FifoOK
<1>4. out_fifo' \in Seq(Nat) /\ Len(out_fifo') = n
  <2>1. out_fifo' \in [1 .. n -> Nat]
    BY <1>1, <1>3
  <2>2. out_fifo' \in Seq(Nat)
    BY <1>3, <2>1, SeqDef
  <2>3. 1 .. Len(out_fifo') = 1 .. n /\ Len(out_fifo') \in Nat
    BY <2>1, <2>2, LenProperties
  <2> QED
    BY <1>3, <2>2, <2>3
<1>5. rx_total' = rx_total /\ Used' = Used
  <2>0. rx_total' = host_sent' - Len(out_fifo')
    BY DEF rx_total
  <2>2. host_sent' = host_sent + n /\ Len(out_fifo') = n
    BY <1>1, <1>4
  <2>1. rx_total' = rx_total
    BY <1>3, <2>0, <2>2
  <2> QED
    BY <1>2, <2>1 DEF Used
<1>6. LinkOK' /\ RingType' /\ FifoType' /\ OpsType' /\ ReadType'
  <2>1. LinkOK' /\ RingType' /\ OpsType' /\ ReadType'
    BY <1>0, <1>2 DEF LinkOK, RingType, OpsType, ReadType
  <2>2. host_sent' \in 0 .. MaxBytes /\ n <= OUT_PKT
    BY <1>1, <1>3, RxAssumption
  <2> QED
    BY <1>2, <1>4, <2>1, <2>2 DEF FifoType
<1>7. FifoOK'
  <2>1. Len(out_fifo') <= host_sent'
    BY <1>1, <1>3, <1>4
  <2>2. \A i \in 1 .. Len(out_fifo') : out_fifo'[i] = rx_total' + i - 1
    BY <1>1, <1>3, <1>4, <1>5
  <2> QED
    BY <1>2, <2>1, <2>2 DEF FifoOK
<1>8. RingContent' /\ ReadOK' /\ PacketNoted' /\ NotOvertaken'
  BY <1>2, <1>5 DEF IInv, RingContent, ReadOK, PacketNoted, NotOvertaken, Pending
<1> QED
  BY <1>1, <1>6, <1>7, <1>8, Collect

(* An operation that cannot be sent at once blocks what is sent after it. *)
LEMMA DeferInv ==
  ASSUME IInv, NEW op \in RX_BLOCK_OPS, NEW done \in SUBSET OpFlags,
         done \cap RX_BLOCK_OPS \subseteq deferred,
         "packet" \in deferred => "packet" \in done,
         DeferOrSend(op, done),
         UNCHANGED <<ringVars, epVars, out_irq, host_sent, rdVars, spoilt>>
  PROVE  /\ deferred' \subseteq OpFlags /\ rx_blocked' \in BOOLEAN
         /\ asked_at' \in 0 .. MaxBytes /\ owed' \subseteq RX_BLOCK_OPS
         /\ PacketNoted' /\ NotOvertaken'
<1>0. FifoType /\ OpsType
  BY TypeParts DEF IInv
<1>1. UNCHANGED <<out_rdy, out_irq, host_sent, spoilt>> /\ rx_total' = rx_total
  BY DEF epVars, rx_total
<1>2. rx_total \in Nat /\ rx_total <= host_sent /\ host_sent \in 0 .. MaxBytes
  BY <1>0, TotalType DEF IInv, FifoType
<1>3. /\ deferred' = IF Used = 0 THEN done ELSE deferred \cup {op}
      /\ rx_blocked' = (rx_blocked \/ ~(Used = 0))
  BY DEF DeferOrSend, DeviceConsumedAllData
<1>4. /\ Pending' = {} => asked_at' = 0
      /\ Pending = {} /\ Pending' # {} => asked_at' = host_sent
      /\ Pending # {} /\ Pending' # {} => asked_at' = asked_at
  BY DEF DeferOrSend
<1>5. Pending' = deferred' \cap RX_BLOCK_OPS /\ Pending = deferred \cap RX_BLOCK_OPS
  BY DEF Pending
<1>6. deferred' \subseteq OpFlags /\ rx_blocked' \in BOOLEAN
  BY <1>0, <1>3 DEF OpsType, OpFlags
<1>7. asked_at' \in 0 .. MaxBytes
  BY <1>0, <1>2, <1>4, RxAssumption DEF OpsType
<1>8. PacketNoted' /\ owed' \subseteq RX_BLOCK_OPS
  BY <1>0, <1>1, <1>3 DEF IInv, PacketNoted, DeferOrSend, OpsType
<1>9. NotOvertaken'
  <2> SUFFICES ASSUME Pending' # {}
               PROVE  rx_blocked' /\ rx_total <= asked_at'
    BY <1>1 DEF NotOvertaken
  <2>1. CASE Used = 0
    <3>1. Pending # {}
      BY <1>3, <1>5, <2>1
    <3> QED
      BY <1>3, <1>4, <3>1 DEF IInv, NotOvertaken
  <2>2. CASE Used # 0
    BY <1>2, <1>3, <1>4, <2>2 DEF IInv, NotOvertaken
  <2> QED
    BY <2>1, <2>2
<1> QED
  BY <1>6, <1>7, <1>8, <1>9

(* The host's requests. *)
LEMMA RequestInv ==
  ASSUME IInv, HostRequest
  PROVE  IInv' /\ UNCHANGED <<host_sent, rdVars>>
<1>0. LinkOK /\ RingType /\ FifoType /\ OpsType /\ ReadType
  BY TypeParts DEF IInv
<1>1. /\ UNCHANGED <<ringVars, epVars, host_sent, rdVars, spoilt, out_irq>>
      /\ UNCHANGED linkVars
  BY DEF HostRequest, SetControlLineState, SendBreakRequest, SetLineCoding,
         HandleEP0Data, Request
<1>2. /\ RingType' /\ FifoType' /\ FifoOK' /\ RingContent' /\ ReadOK' /\ ReadType'
      /\ Used' = Used /\ rx_total' = rx_total
  BY <1>0, <1>1, DataAlone DEF IInv, FifoType
<1>3. LinkOK'
  BY <1>0, <1>1 DEF LinkOK, linkVars
<1>4. requests' \in 0 .. MaxRequests /\ ep0_wait' \in BOOLEAN /\ break_left' \in 0 .. MaxBreak
  <2>1. requests' \in 0 .. MaxRequests
    BY <1>0, RxAssumption
    DEF OpsType, HostRequest, SetControlLineState, SendBreakRequest, SetLineCoding,
        HandleEP0Data, Request
  <2>2. UNCHANGED ep0_wait \/ ep0_wait' = TRUE \/ ep0_wait' = FALSE
    BY DEF HostRequest, SetControlLineState, SendBreakRequest, SetLineCoding, HandleEP0Data
  <2>3. UNCHANGED break_left \/ break_left' \in 0 .. MaxBreak
    BY DEF HostRequest, SetControlLineState, SendBreakRequest, SetLineCoding, HandleEP0Data
  <2> QED
    BY <1>0, <2>1, <2>2, <2>3 DEF OpsType
<1>5. /\ deferred' \subseteq OpFlags /\ rx_blocked' \in BOOLEAN
      /\ asked_at' \in 0 .. MaxBytes /\ owed' \subseteq RX_BLOCK_OPS
      /\ PacketNoted' /\ NotOvertaken'
  <2>1. CASE UNCHANGED <<deferred, rx_blocked, asked_at, owed>>
    BY <1>0, <1>1, <1>2, <2>1
    DEF IInv, OpsType, epVars, PacketNoted, NotOvertaken, Pending
  <2>2. CASE DeferOrSend("state", deferred \ {"state"})
    <3>1. deferred \ {"state"} \in SUBSET OpFlags /\ "state" \in RX_BLOCK_OPS
      BY <1>0 DEF OpsType, OpFlags, RX_BLOCK_OPS
    <3> QED
      BY <1>1, <2>2, <3>1, DeferInv
  <2>3. CASE DeferOrSend("coding", deferred \ {"coding"})
    <3>1. deferred \ {"coding"} \in SUBSET OpFlags /\ "coding" \in RX_BLOCK_OPS
      BY <1>0 DEF OpsType, OpFlags, RX_BLOCK_OPS
    <3> QED
      BY <1>1, <2>3, <3>1, DeferInv
  <2>4. CASE \E d \in 0 .. MaxBreak : DeferOrSend("break", SendBreak(deferred, d > 0))
    <3>1. PICK d \in 0 .. MaxBreak : DeferOrSend("break", SendBreak(deferred, d > 0))
      BY <2>4
    <3>2. /\ SendBreak(deferred, d > 0) \in SUBSET OpFlags
          /\ SendBreak(deferred, d > 0) \cap RX_BLOCK_OPS \subseteq deferred
          /\ "packet" \in deferred => "packet" \in SendBreak(deferred, d > 0)
          /\ "break" \in RX_BLOCK_OPS
      BY <1>0 DEF SendBreak, OpsType, OpFlags, RX_BLOCK_OPS
    <3> QED
      BY ONLY <1>1, <3>1, <3>2, DeferInv, IInv
  <2> QED
    BY <2>1, <2>2, <2>3, <2>4
    DEF HostRequest, SetControlLineState, SendBreakRequest, SetLineCoding, HandleEP0Data
<1>6. OpsType'
  BY <1>4, <1>5 DEF OpsType
<1> QED
  BY <1>1, <1>2, <1>3, <1>5, <1>6, Collect

(* The interrupt of the OUT endpoint. *)
LEMMA PacketInv ==
  ASSUME IInv, ProcessDataFromHost
  PROVE  IInv'
<1>0. LinkOK /\ RingType /\ FifoType /\ OpsType /\ ReadType
  BY TypeParts DEF IInv
<1>1. /\ out_irq' = FALSE
      /\ UNCHANGED <<host_sent, rdVars, spoilt>>
      /\ UNCHANGED <<rx_blocked, break_left, ep0_wait, requests, asked_at, owed>>
      /\ UNCHANGED <<configured, bConnected, sessions>>
  BY DEF ProcessDataFromHost, hostVars, linkVars
<1>2. /\ RingType' /\ FifoType' /\ FifoOK' /\ RingContent' /\ ReadOK' /\ ReadType'
      /\ deferred' \subseteq OpFlags /\ PacketNoted' /\ NotOvertaken'
  <2>1. CASE out_rdy /\ ~rx_blocked
    <3>1. HandleRxAvailable(NotePacket(deferred))
      BY <2>1 DEF ProcessDataFromHost, Blocked
    <3>2. NotePacket(deferred) \in SUBSET OpFlags /\ "packet" \in NotePacket(deferred)
      BY <1>0 DEF NotePacket, OpsType, OpFlags
    <3>3. /\ RingType' /\ FifoType' /\ FifoOK' /\ RingContent' /\ ReadOK' /\ ReadType'
          /\ deferred' \subseteq OpFlags /\ PacketNoted'
          /\ deferred' \cap RX_BLOCK_OPS = NotePacket(deferred) \cap RX_BLOCK_OPS
      BY <1>1, <3>1, <3>2, HandleRx DEF IInv
    <3>4. Pending' = {}
      BY <2>1, <3>3 DEF IInv, NotOvertaken, Pending, NotePacket, RX_BLOCK_OPS
    <3> QED
      BY <3>3, <3>4 DEF NotOvertaken
  <2>2. CASE ~(out_rdy /\ ~rx_blocked)
    <3>1. /\ UNCHANGED <<ringVars, epVars>>
          /\ deferred' = IF out_rdy THEN NotePacket(deferred) ELSE deferred
      BY <2>2 DEF ProcessDataFromHost, Blocked, NoPacket
    <3>2. /\ RingType' /\ FifoType' /\ FifoOK' /\ RingContent' /\ ReadOK' /\ ReadType'
          /\ rx_total' = rx_total
      BY <1>1, <3>1, DataAlone DEF IInv
    <3>3. deferred' \subseteq OpFlags /\ PacketNoted' /\ Pending' = Pending
      BY <1>0, <3>1
      DEF NotePacket, OpsType, OpFlags, PacketNoted, Pending, RX_BLOCK_OPS, epVars
    <3>4. NotOvertaken'
      BY <1>1, <3>2, <3>3 DEF IInv, NotOvertaken
    <3> QED
      BY <3>2, <3>3, <3>4
  <2> QED
    BY <2>1, <2>2
<1>3. LinkOK' /\ OpsType'
  BY <1>0, <1>1, <1>2 DEF LinkOK, OpsType
<1> QED
  BY <1>2, <1>3, Collect

(* The tick sends what is due only when the ring is empty, and lifts the   *)
(* block only then.                                                        *)
LEMMA TickInv ==
  ASSUME IInv, CDCTickHandler
  PROVE  IInv'
<1>0. LinkOK /\ RingType /\ FifoType /\ OpsType /\ ReadType
  BY TypeParts DEF IInv
<1> DEFINE ends == "clear" \in deferred /\ break_left <= 1
           due  == IF ends THEN SendBreak(deferred, FALSE) ELSE deferred
           left == IF ~(Used = 0) THEN due
                   ELSE (IF "break" \in due THEN SendBreak(due, TRUE) ELSE due)
                          \ RX_BLOCK_OPS
           stays == rx_blocked /\ ~(Used = 0)
<1>1. /\ UNCHANGED <<host_sent, rdVars, spoilt>>
      /\ UNCHANGED <<ep0_wait, out_irq, requests>>
      /\ UNCHANGED <<configured, bConnected, sessions>>
  BY DEF CDCTickHandler, linkVars
<1>2. /\ break_left' = IF "clear" \in deferred /\ ~ends THEN break_left - 1 ELSE break_left
      /\ rx_blocked' = stays
      /\ IF ~stays /\ "packet" \in left THEN HandleRxAvailable(left) ELSE NoPacket(left)
      /\ asked_at' = IF Pending' = {} THEN 0 ELSE asked_at
  BY DEF CDCTickHandler, StaysBlocked, DeviceConsumedAllData
<1>3. /\ left \subseteq OpFlags
      /\ left \cap RX_BLOCK_OPS \subseteq Pending
      /\ Used = 0 => left \cap RX_BLOCK_OPS = {}
      /\ "packet" \in deferred => "packet" \in left
  BY <1>0 DEF SendBreak, Pending, OpsType, OpFlags, RX_BLOCK_OPS
<1>4. /\ break_left' \in 0 .. MaxBreak /\ rx_blocked' \in BOOLEAN
  BY <1>0, <1>2, RxAssumption DEF OpsType
<1>5. asked_at' \in 0 .. MaxBytes /\ owed' \subseteq RX_BLOCK_OPS
  <2>1. asked_at' \in 0 .. MaxBytes
    BY <1>0, <1>2, RxAssumption DEF OpsType
  <2>2. owed' \subseteq owed
    BY DEF CDCTickHandler
  <2> QED
    BY <1>0, <2>1, <2>2 DEF OpsType
<1> HIDE DEF left
<1>6. /\ RingType' /\ FifoType' /\ FifoOK' /\ RingContent' /\ ReadOK' /\ ReadType'
      /\ deferred' \subseteq OpFlags /\ PacketNoted' /\ NotOvertaken'
  <2>1. CASE ~stays /\ "packet" \in left
    <3>1. HandleRxAvailable(left)
      BY <1>2, <2>1
    <3>2. out_irq' \in BOOLEAN
      BY <1>0, <1>1 DEF FifoType
    <3>3. /\ RingType' /\ FifoType' /\ FifoOK' /\ RingContent' /\ ReadOK' /\ ReadType'
          /\ deferred' \subseteq OpFlags /\ PacketNoted'
          /\ deferred' \cap RX_BLOCK_OPS = left \cap RX_BLOCK_OPS
      BY <1>1, <1>3, <2>1, <3>1, <3>2, HandleRx DEF IInv
    <3>4. Pending' = {}
      <4>1. Used = 0 \/ Pending = {}
        BY <2>1 DEF IInv, NotOvertaken
      <4> QED
        BY <1>3, <3>3, <4>1 DEF Pending
    <3> QED
      BY <3>3, <3>4 DEF NotOvertaken
  <2>2. CASE ~(~stays /\ "packet" \in left)
    <3>1. UNCHANGED <<ringVars, epVars>> /\ deferred' = left
      BY <1>2, <2>2 DEF NoPacket
    <3>2. /\ RingType' /\ FifoType' /\ FifoOK' /\ RingContent' /\ ReadOK' /\ ReadType'
          /\ rx_total' = rx_total
      BY <1>0, <1>1, <3>1, DataAlone DEF IInv, FifoType
    <3>3. deferred' \subseteq OpFlags /\ PacketNoted'
      BY <1>1, <1>3, <3>1 DEF IInv, PacketNoted, epVars
    <3>4. NotOvertaken'
      <4> SUFFICES ASSUME Pending' # {}
                   PROVE  rx_blocked' /\ rx_total' <= asked_at'
        BY DEF NotOvertaken
      <4>1. Pending # {} /\ ~(Used = 0)
        BY <1>3, <3>1 DEF Pending
      <4> QED
        BY <1>1, <1>2, <3>2, <4>1 DEF IInv, NotOvertaken
    <3> QED
      BY <3>2, <3>3, <3>4
  <2> QED
    BY <2>1, <2>2
<1>7. LinkOK' /\ OpsType'
  BY <1>0, <1>1, <1>4, <1>5, <1>6 DEF LinkOK, OpsType
<1> QED
  BY <1>6, <1>7, Collect

-----------------------------------------------------------------------------
(* Steps of the main loop: the host, the endpoint and the operations are   *)
(* left alone.                                                             *)
LEMMA OpsAlone ==
  ASSUME IInv, UNCHANGED <<epVars, out_irq, opVars, hostVars, spoilt, linkVars>>
  PROVE  /\ LinkOK' /\ FifoType' /\ FifoOK' /\ OpsType' /\ PacketNoted' /\ NotOvertaken'
         /\ rx_total' = rx_total /\ rx_total \in Nat
<1>0. LinkOK /\ RingType /\ FifoType /\ OpsType /\ ReadType
  BY TypeParts DEF IInv
<1>1. UNCHANGED <<out_fifo, out_rdy, out_irq, deferred, rx_blocked, break_left, ep0_wait,
                  host_sent, requests, asked_at, owed, spoilt, configured, bConnected, sessions>>
  BY DEF epVars, opVars, hostVars, linkVars
<1>2. rx_total' = rx_total /\ rx_total \in Nat
  BY <1>0, <1>1, TotalType DEF IInv, rx_total
<1>3. LinkOK' /\ FifoType' /\ OpsType'
  BY <1>0, <1>1 DEF LinkOK, FifoType, OpsType
<1>4. FifoOK' /\ PacketNoted' /\ NotOvertaken'
  BY <1>1, <1>2 DEF IInv, FifoOK, PacketNoted, NotOvertaken, Pending
<1> QED
  BY <1>2, <1>3, <1>4

(* The reader looks. *)
LEMMA LookInv ==
  ASSUME IInv, Starting \/ ReadAvail
  PROVE  IInv' /\ UNCHANGED <<host_sent, rd_last, rd_total>>
<1>0. RingType /\ ReadType /\ Used \in 0 .. RX_SIZE - 1 /\ RX_SIZE \in Nat
  BY TypeParts, UsedType DEF IInv
<1>1. /\ UNCHANGED <<epVars, out_irq, opVars, hostVars, spoilt, linkVars>>
      /\ UNCHANGED <<rx_buf, rx_wr, rx_rd, rd_last, rd_total, host_sent>>
  BY DEF Starting, StartRead, ReadAvail, ringVars, hostVars
<1>2. /\ LinkOK' /\ FifoType' /\ FifoOK' /\ OpsType' /\ PacketNoted' /\ NotOvertaken'
      /\ rx_total' = rx_total /\ Used' = Used
  BY <1>1, OpsAlone DEF Used
<1>3. RingType' /\ RingContent'
  BY <1>0, <1>1, <1>2 DEF IInv, RingType, RingContent
<1>4. ReadOK' /\ ReadType'
  <2>1. CASE Starting
    <3>1. PICK n \in 1 .. RX_SIZE - 1 : StartRead(n)
      BY <2>1 DEF Starting
    <3>2. /\ n <= Used /\ rd_left' = n /\ rd_pc' \in {"avail", "skip"} /\ spoilt' = spoilt
      BY <3>1 DEF StartRead
    <3> QED
      BY <1>0, <1>1, <1>2, <3>2 DEF ReadOK, ReadType
  <2>2. CASE ReadAvail
    <3>1. /\ rd_left' = IF rd_left < Used THEN rd_left ELSE Used
          /\ rd_pc' = IF rd_left' = 0 THEN "idle" ELSE "copy"
      BY <2>2 DEF ReadAvail, MIN_
    <3>2. spoilt' = spoilt
      BY <1>1
    <3>3. rd_left' \in 0 .. RX_SIZE - 1 /\ rd_left' <= Used
      BY <1>0, <3>1 DEF ReadType
    <3>4. ReadOK'
      BY <1>2, <3>1, <3>3 DEF ReadOK
    <3> QED
      BY <1>0, <1>1, <3>1, <3>2, <3>3, <3>4 DEF ReadType
  <2> QED
    BY <2>1, <2>2
<1> QED
  BY <1>1, <1>2, <1>3, <1>4, Collect

(* The read index passes bytes that are there. *)
LEMMA Advance ==
  ASSUME RingType, ReadType, RingContent, NEW n \in 0 .. Used, rx_total \in Nat,
         rx_rd' = ring_wrap(RX_SIZE, rx_rd + n), UNCHANGED <<rx_buf, rx_wr, spoilt>>,
         rx_total' = rx_total, rd_total' = rd_total + n
  PROVE  RingType' /\ RingContent' /\ Used' = Used - n
<1>1. Used \in 0 .. RX_SIZE - 1 /\ RX_SIZE \in Nat /\ n \in Nat /\ rd_total \in Nat
  BY UsedType DEF ReadType
<1>2. /\ rx_rd' \in 0 .. RX_SIZE - 1 /\ Used' = Used - n
      /\ \A j \in 0 .. Used - n - 1 :
           RingSlot(RX_SIZE, rx_rd', j) = RingSlot(RX_SIZE, rx_rd, n + j)
  BY DEF RingType, Used, USBRingBufUsed, ring_data_avail, ring_wrap, RingSlot
<1>3. RingType'
  BY <1>2 DEF RingType
<1>4. RingContent'
  <2> SUFFICES ASSUME ~spoilt PROVE RingContent'
    BY DEF RingContent
  <2>1. rx_total' = rd_total' + Used'
    BY <1>1, <1>2 DEF RingContent
  <2>2. ASSUME NEW j \in 0 .. Used' - 1
        PROVE  rx_buf'[RingSlot(RX_SIZE, rx_rd', j)] = rd_total' + j
    <3>1. n + j \in 0 .. Used - 1 /\ rd_total' + j = rd_total + (n + j)
      BY <1>1, <1>2
    <3>2. rx_buf[RingSlot(RX_SIZE, rx_rd, n + j)] = rd_total + (n + j)
      BY <3>1 DEF RingContent
    <3> QED
      BY <1>2, <3>1, <3>2
  <2> QED
    BY <2>1, <2>2 DEF RingContent
<1> QED
  BY <1>2, <1>3, <1>4

(* A byte is read. *)
LEMMA CopyInv ==
  ASSUME IInv, ReadCopy
  PROVE  /\ IInv' /\ host_sent' = host_sent /\ rd_total' = rd_total + 1
         /\ ~spoilt => rd_last' = <<rd_total>> /\ rd_total + 1 <= host_sent
<1>0. /\ RingType /\ FifoType /\ ReadType
      /\ Used \in 0 .. RX_SIZE - 1 /\ RX_SIZE \in Nat
  BY TypeParts, UsedType DEF IInv
<1>1. /\ rd_pc = "copy" /\ rd_last' = <<rx_buf[rx_rd]>>
      /\ rx_rd' = ring_wrap(RX_SIZE, rx_rd + 1)
      /\ rd_total' = rd_total + 1 /\ rd_left' = rd_left - 1
      /\ rd_pc' = IF rd_left' = 0 THEN "idle" ELSE "copy"
      /\ UNCHANGED <<epVars, out_irq, opVars, hostVars, spoilt, linkVars>>
      /\ UNCHANGED <<rx_buf, rx_wr, host_sent, spoilt>>
  BY DEF ReadCopy, hostVars
<1>2. /\ LinkOK' /\ FifoType' /\ FifoOK' /\ OpsType' /\ PacketNoted' /\ NotOvertaken'
      /\ rx_total' = rx_total /\ rx_total \in Nat
  BY <1>1, OpsAlone
<1>3. rd_left \in 1 .. RX_SIZE - 1 /\ rd_total \in Nat
  BY <1>0, <1>1 DEF IInv, ReadOK, ReadType
<1>4. rx_buf[rx_rd] \in Nat \cup {JUNK} /\ rx_rd \in 0 .. RX_SIZE - 1
  BY <1>0 DEF RingType
<1>5. ReadType'
  <2>1. rd_last' \in Seq(Nat \cup {JUNK})
    BY <1>1, <1>4
  <2>2. rd_left' \in 0 .. RX_SIZE - 1 /\ rd_total' \in Nat
    BY <1>0, <1>1, <1>3
  <2>3. rd_pc' \in {"idle", "avail", "copy", "skip"} /\ spoilt' \in BOOLEAN
    BY <1>0, <1>1 DEF ReadType
  <2> QED
    BY <2>1, <2>2, <2>3 DEF ReadType
<1>6. RingType' /\ RingContent' /\ ReadOK'
  <2>1. CASE spoilt
    <3>1. rx_rd' \in 0 .. RX_SIZE - 1
      BY <1>0, <1>1, <1>4 DEF ring_wrap
    <3>2. RingType'
      BY <1>0, <1>1, <3>1 DEF RingType
    <3>3. rd_pc' = "copy" => rd_left' > 0
      BY <1>0, <1>1, <1>3
    <3> QED
      BY <1>1, <2>1, <3>2, <3>3 DEF RingContent, ReadOK
  <2>2. CASE ~spoilt
    <3>1. rd_left <= Used
      BY <1>1, <2>2 DEF IInv, ReadOK
    <3>2. 1 \in 0 .. Used
      BY <1>0, <1>3, <3>1
    <3>3. RingType' /\ RingContent' /\ Used' = Used - 1
      BY <1>0, <1>1, <1>2, <3>2, Advance DEF IInv
    <3>4. ReadOK'
      BY <1>0, <1>1, <1>3, <3>1, <3>3 DEF ReadOK
    <3> QED
      BY <3>3, <3>4
  <2> QED
    BY <2>1, <2>2
<1>7. ASSUME ~spoilt
      PROVE  rd_last' = <<rd_total>> /\ rd_total + 1 <= host_sent
  <2>1. rd_left <= Used /\ rx_total = rd_total + Used /\ rx_total <= host_sent
    BY <1>0, <1>1, <1>7, TotalType DEF IInv, ReadOK, RingContent
  <2>2. 0 \in 0 .. Used - 1 /\ rd_total + 1 <= rx_total
    BY <1>0, <1>3, <2>1
  <2>3. rx_buf[RingSlot(RX_SIZE, rx_rd, 0)] = rd_total + 0
    BY <1>7, <2>2 DEF IInv, RingContent
  <2>4. RingSlot(RX_SIZE, rx_rd, 0) = rx_rd
    BY <1>0, <1>4 DEF RingSlot, ring_wrap
  <2>5. host_sent \in Nat
    BY <1>0, RxAssumption DEF FifoType
  <2> QED
    BY <1>1, <1>2, <1>3, <2>1, <2>2, <2>3, <2>4, <2>5
<1>8. IInv'
  BY <1>2, <1>5, <1>6, Collect
<1> QED
  BY <1>1, <1>7, <1>8

(* Bytes are dropped unread. *)
LEMMA SkipInv ==
  ASSUME IInv, Skip
  PROVE  /\ IInv' /\ host_sent' = host_sent /\ rd_last' = rd_last
         /\ ~spoilt => \E n \in 0 .. RX_SIZE - 1 :
                         rd_total' = rd_total + n /\ rd_total + n <= host_sent
<1>0. /\ RingType /\ FifoType /\ ReadType
      /\ Used \in 0 .. RX_SIZE - 1 /\ RX_SIZE \in Nat /\ rd_left \in Nat /\ rd_total \in Nat
  BY TypeParts, UsedType DEF IInv, ReadType
<1> DEFINE n == MIN_(rd_left, Used)
<1>1. /\ rx_rd' = ring_wrap(RX_SIZE, rx_rd + n)
      /\ rd_total' = rd_total + n /\ rd_left' = 0 /\ rd_pc' = "idle"
      /\ UNCHANGED <<epVars, out_irq, opVars, hostVars, spoilt, linkVars>>
      /\ UNCHANGED <<rx_buf, rx_wr, host_sent, spoilt, rd_last>>
  BY DEF Skip, hostVars, USBRingBufAdvanceRead, Used
<1>2. /\ LinkOK' /\ FifoType' /\ FifoOK' /\ OpsType' /\ PacketNoted' /\ NotOvertaken'
      /\ rx_total' = rx_total /\ rx_total \in Nat
  BY <1>1, OpsAlone
<1>3. n \in 0 .. Used /\ n \in 0 .. RX_SIZE - 1
  BY <1>0 DEF MIN_
<1> HIDE DEF n
<1>4. RingType' /\ RingContent'
  BY <1>0, <1>1, <1>2, <1>3, Advance DEF IInv
<1>5. ReadOK' /\ ReadType'
  <2>1. rd_total' \in Nat /\ 0 \in 0 .. RX_SIZE - 1
    BY <1>0, <1>1, <1>3
  <2> QED
    BY <1>0, <1>1, <2>1 DEF ReadOK, ReadType
<1>6. ASSUME ~spoilt PROVE rd_total + n <= host_sent
  <2>1. rx_total = rd_total + Used /\ rx_total <= host_sent /\ host_sent \in Nat
    BY <1>0, <1>6, TotalType DEF IInv, RingContent
  <2> QED
    BY <1>0, <1>2, <1>3, <2>1
<1>7. IInv'
  BY <1>2, <1>4, <1>5, Collect
<1> QED
  BY <1>1, <1>3, <1>6, <1>7

-----------------------------------------------------------------------------
(* A session ends. *)
LEMMA AwayInv ==
  ASSUME IInv, BusReset \/ Disconnect
  PROVE  IInv' /\ UNCHANGED <<host_sent, rdVars>>
<1>1. UNCHANGED stackVars /\ LinkOK'
  BY TypeParts DEF IInv, LinkOK, BusReset, Disconnect, ResetBus, HandleDisconnect
<1>2. /\ UNCHANGED <<ringVars, epVars, host_sent, rdVars, spoilt>>
      /\ UNCHANGED <<out_irq, deferred, rx_blocked, break_left, ep0_wait, requests, asked_at, owed>>
      /\ UNCHANGED <<out_rdy>>
  BY <1>1 DEF stackVars, opVars, hostVars, epVars
<1>3. FifoType /\ OpsType
  BY TypeParts DEF IInv
<1>4. /\ RingType' /\ FifoType' /\ FifoOK' /\ RingContent' /\ ReadOK' /\ ReadType'
      /\ rx_total' = rx_total
  BY <1>2, <1>3, DataAlone DEF IInv, FifoType
<1>5. OpsType' /\ PacketNoted' /\ NotOvertaken'
  <2>1. UNCHANGED spoilt
    BY <1>2
  <2> QED
    BY <1>2, <1>3, <1>4, <2>1 DEF IInv, OpsType, PacketNoted, NotOvertaken, Pending
<1> QED
  BY <1>1, <1>2, <1>4, <1>5, Collect

(* A session begins.  If it is announced, what is in the ring is dropped.  *)
LEMMA ConfigInv ==
  ASSUME IInv, HandleConfigChange
  PROVE  /\ IInv' /\ host_sent' = host_sent /\ rd_last' = rd_last
         /\ ~spoilt /\ ~spoilt' =>
              \E n \in 0 .. RX_SIZE - 1 + OUT_PKT :
                rd_total' = rd_total + n /\ rd_total + n <= host_sent
<1>0. /\ LinkOK /\ RingType /\ FifoType /\ OpsType /\ ReadType
      /\ Used \in 0 .. RX_SIZE - 1 /\ RX_SIZE \in Nat \ {0}
      /\ Len(out_fifo) \in 0 .. OUT_PKT /\ host_sent \in Nat
      /\ rx_total \in Nat /\ host_sent = rx_total + Len(out_fifo)
      /\ rd_total \in Nat /\ OUT_PKT \in Nat
  BY TypeParts, UsedType, TotalType, RxAssumption DEF IInv, ReadType
<1>1. /\ Configure /\ ep0_wait' = FALSE
      /\ asked_at' = IF Pending # {} /\ out_fifo' # out_fifo THEN host_sent ELSE asked_at
      /\ UNCHANGED <<rx_buf, rx_wr, deferred, rx_blocked, break_left, host_sent,
                     requests, owed, rd_pc, rd_left, rd_last>>
  BY DEF HandleConfigChange
<1>2. \/ UNCHANGED <<out_fifo, out_rdy, out_irq>>
      \/ out_fifo' = << >> /\ out_rdy' = FALSE /\ out_irq' = FALSE
  BY DEF HandleConfigChange, epVars
<1>3. << >> \in Seq(Nat) /\ Len(<< >>) = 0
  BY EmptySeq
<1>4. /\ Len(out_fifo') = Len(out_fifo) \/ Len(out_fifo') = 0
      /\ out_fifo' \in Seq(Nat)
      /\ out_fifo' = out_fifo => rx_total' = rx_total
      /\ rx_total' = host_sent - Len(out_fifo')
      /\ rx_total' \in Nat /\ rx_total' <= host_sent /\ rx_total' >= rx_total
  <2>1. Len(out_fifo') = Len(out_fifo) \/ Len(out_fifo') = 0
    BY ONLY <1>2, <1>3, Zenon
  <2>2. out_fifo' \in Seq(Nat)
    BY <1>0, <1>2, <1>3 DEF FifoType
  <2>3. rx_total' = host_sent - Len(out_fifo') /\ rx_total = host_sent - Len(out_fifo)
    BY <1>1 DEF rx_total
  <2>4. rx_total' \in Nat /\ rx_total' <= host_sent /\ rx_total' >= rx_total
    BY <1>0, <2>1, <2>3
  <2> QED
    BY <2>1, <2>2, <2>3, <2>4
<1>5. FifoType' /\ FifoOK'
  <2>1. out_rdy' \in BOOLEAN /\ out_irq' \in BOOLEAN
    BY <1>0, <1>2 DEF FifoType
  <2>2. Len(out_fifo') <= OUT_PKT /\ Len(out_fifo') <= host_sent'
    BY <1>0, <1>1, <1>4
  <2>3. \A i \in 1 .. Len(out_fifo') : out_fifo'[i] = rx_total' + i - 1
    <3>1. CASE out_fifo' = out_fifo
      BY <1>4, <3>1 DEF IInv, FifoOK
    <3>2. CASE Len(out_fifo') = 0
      BY <3>2
    <3> QED
      BY <1>2, <1>3, <3>1, <3>2
  <2>4. ~out_rdy' => out_fifo' = << >>
    BY <1>2 DEF IInv, FifoOK
  <2> QED
    BY <1>0, <1>1, <1>4, <2>1, <2>2, <2>3, <2>4 DEF FifoType, FifoOK
<1>6. LinkOK'
  BY <1>0, <1>1, LinkAssumption DEF LinkOK, Configure
<1>7. OpsType' /\ PacketNoted'
  <2>1. asked_at' \in 0 .. MaxBytes
    BY <1>0, <1>1 DEF OpsType, FifoType
  <2>2. OpsType'
    BY <1>0, <1>1, <2>1 DEF OpsType
  <2>3. PacketNoted'
    BY <1>1, <1>2 DEF IInv, PacketNoted
  <2> QED
    BY <2>2, <2>3
<1>8. Announced => rx_rd' = rx_wr /\ rd_total' = rx_total' /\ spoilt' = (rd_pc # "idle")
  BY <1>4 DEF HandleConfigChange
<1>9. ~Announced =>
        /\ rx_rd' = rx_rd /\ rd_total' = rd_total
        /\ spoilt' = (spoilt \/ out_fifo' # out_fifo)
  BY DEF HandleConfigChange
<1>10. NotOvertaken'
  <2> SUFFICES ASSUME Pending # {}
               PROVE  rx_blocked /\ rx_total' <= asked_at'
    BY <1>1 DEF NotOvertaken, Pending
  <2>1. rx_blocked /\ rx_total <= asked_at
    BY DEF IInv, NotOvertaken
  <2>2. CASE out_fifo' # out_fifo
    BY <1>1, <1>4, <2>1, <2>2
  <2>3. CASE out_fifo' = out_fifo
    BY <1>1, <1>4, <2>1, <2>3
  <2> QED
    BY <2>2, <2>3
<1>11. RingType' /\ RingContent' /\ ReadType' /\ ReadOK'
  <2>1. CASE Announced
    <3>1. Used' = 0
      BY <1>0, <1>1, <1>8, <2>1 DEF Used, USBRingBufUsed, ring_data_avail, RingType
    <3>2. RingType' /\ ReadType'
      BY <1>0, <1>1, <1>4, <1>8, <2>1 DEF RingType, ReadType
    <3>3. RingContent'
      BY <1>4, <1>8, <2>1, <3>1 DEF RingContent
    <3>4. ReadOK'
      BY <1>1, <1>8, <2>1 DEF IInv, ReadOK
    <3> QED
      BY <3>2, <3>3, <3>4
  <2>2. CASE ~Announced
    <3>1. Used' = Used
      BY <1>1, <1>9, <2>2 DEF Used
    <3>2. RingType' /\ ReadType'
      BY <1>0, <1>1, <1>9, <2>2 DEF RingType, ReadType
    <3>3. RingContent'
      BY <1>1, <1>4, <1>9, <2>2, <3>1 DEF IInv, RingContent
    <3>4. ReadOK'
      BY <1>1, <1>9, <2>2, <3>1 DEF IInv, ReadOK
    <3> QED
      BY <3>2, <3>3, <3>4
  <2> QED
    BY <2>1, <2>2
<1>12. ASSUME ~spoilt, ~spoilt'
       PROVE  \E n \in 0 .. RX_SIZE - 1 + OUT_PKT :
                rd_total' = rd_total + n /\ rd_total + n <= host_sent
  <2>1. rx_total = rd_total + Used
    BY <1>12 DEF IInv, RingContent
  <2>2. CASE Announced
    <3> DEFINE n == rx_total' - rd_total
    <3>1. n \in 0 .. RX_SIZE - 1 + OUT_PKT
      BY <1>0, <1>4, <2>1
    <3>2. rd_total' = rd_total + n /\ rd_total + n <= host_sent
      BY <1>0, <1>4, <1>8, <2>2
    <3> QED
      BY <3>1, <3>2
  <2>3. CASE ~Announced
    <3>1. rd_total' = rd_total + 0 /\ rd_total + 0 <= host_sent
      BY <1>0, <1>9, <2>1, <2>3
    <3>2. 0 \in 0 .. RX_SIZE - 1 + OUT_PKT
      BY <1>0
    <3> QED
      BY <3>1, <3>2
  <2> QED
    BY <2>2, <2>3
<1>13. IInv'
  BY <1>5, <1>6, <1>7, <1>10, <1>11, Collect
<1> QED
  BY <1>1, <1>12, <1>13

-----------------------------------------------------------------------------
(* Every step of TiRx preserves IInv. *)
LEMMA StepInv == IInv /\ [Next]_vars => IInv'
<1> SUFFICES ASSUME IInv, [Next]_vars PROVE IInv'
  OBVIOUS
<1>1. CASE HostOut \/ HostRequest \/ ProcessDataFromHost \/ CDCTickHandler
  BY <1>1, HostOutInv, RequestInv, PacketInv, TickInv
<1>2. CASE Starting \/ Reading
  BY <1>2, LookInv, CopyInv, SkipInv DEF Reading
<1>3. CASE BusReset \/ Disconnect \/ HandleConfigChange
  BY <1>3, AwayInv, ConfigInv
<1>4. CASE UNCHANGED vars
  <2>1. /\ UNCHANGED <<epVars, out_irq, opVars, hostVars, spoilt, linkVars>>
        /\ UNCHANGED <<ringVars, rdVars, host_sent>> /\ UNCHANGED out_irq
    BY <1>4 DEF vars, hostVars
  <2>2. /\ LinkOK' /\ OpsType' /\ PacketNoted' /\ NotOvertaken'
    BY <2>1, OpsAlone
  <2>3. out_irq' \in BOOLEAN
    BY <2>1, TypeParts DEF IInv, FifoType
  <2>4. /\ RingType' /\ FifoType' /\ FifoOK' /\ RingContent' /\ ReadOK' /\ ReadType'
    BY <2>1, <2>3, DataAlone DEF IInv
  <2> QED
    BY <2>2, <2>4, Collect
<1> QED
  BY <1>1, <1>2, <1>3, <1>4 DEF Next, MainLoop, Link

(* IInv holds in every reachable state, for every buffer size, packet size *)
(* and number of bytes, requests, ticks of a break and sessions.           *)
THEOREM Invariant == Spec => []IInv
  BY InitInv, StepInv, PTL DEF Spec

(* The variables keep their types: no index leaves the buffer, even when a *)
(* flush hits a read half done.                                            *)
THEOREM TypeCorrect == Spec => []TypeOK
<1>1. IInv => TypeOK
  BY DEF IInv
<1> QED
  BY <1>1, Invariant, PTL

(* ProcessDataFromHost and the tick never forget a packet that is left in  *)
(* the endpoint.                                                           *)
THEOREM PacketsNoted == Spec => []PacketNoted
<1>1. IInv => PacketNoted
  BY DEF IInv
<1> QED
  BY <1>1, Invariant, PTL

(* Data sent after a deferred request stays out of the ring until the      *)
(* request is carried out, in this session and in those after it.          *)
THEOREM DataNotOvertaking == Spec => []NotOvertaken
<1>1. IInv => NotOvertaken
  BY DEF IInv
<1> QED
  BY <1>1, Invariant, PTL

(* Unless a flush comes in between, USBBufferRead returns what             *)
(* USBBufferDataAvailable has shown.                                       *)
THEOREM ReadsComplete == Spec => []ReadUnspoilt
<1>1. IInv => ReadUnspoilt
  BY DEF IInv, ReadOK, ReadUnspoilt, ReadComplete
<1> QED
  BY <1>1, Invariant, PTL

-----------------------------------------------------------------------------
(* What is due once a break has ended. *)
LEMMA OwedStep ==
  ASSUME OnlyBreaksLost, owed \subseteq RX_BLOCK_OPS, [Next]_vars
  PROVE  OnlyBreaksLost'
<1>1. CASE UNCHANGED <<owed, deferred>>
  BY <1>1 DEF OnlyBreaksLost, Pending
<1>2. ASSUME NEW op \in RX_BLOCK_OPS, NEW done, DeferOrSend(op, done),
             done \cap RX_BLOCK_OPS = Pending \ {op}
      PROVE  OnlyBreaksLost'
  BY <1>2 DEF OnlyBreaksLost, Pending, DeferOrSend, RX_BLOCK_OPS
<1>3. CASE HostRequest
  <2>1. ASSUME NEW on PROVE SendBreak(deferred, on) \cap RX_BLOCK_OPS = Pending \ {"break"}
    BY DEF SendBreak, Pending, RX_BLOCK_OPS
  <2>2. /\ (deferred \ {"state"}) \cap RX_BLOCK_OPS = Pending \ {"state"}
        /\ (deferred \ {"coding"}) \cap RX_BLOCK_OPS = Pending \ {"coding"}
        /\ {"state", "coding", "break"} \subseteq RX_BLOCK_OPS
    BY DEF Pending, RX_BLOCK_OPS
  <2>3. \/ UNCHANGED <<owed, deferred>>
        \/ DeferOrSend("state", deferred \ {"state"})
        \/ DeferOrSend("coding", deferred \ {"coding"})
        \/ \E d \in 0 .. MaxBreak : DeferOrSend("break", SendBreak(deferred, d > 0))
    BY <1>3
    DEF HostRequest, SetControlLineState, SendBreakRequest, SetLineCoding, HandleEP0Data
  <2> QED
    BY <1>1, <1>2, <2>1, <2>2, <2>3
<1>4. ASSUME NEW flags, HandleRxAvailable(flags) \/ NoPacket(flags)
      PROVE  deferred' = flags \/ deferred' = flags \ {"packet"}
  BY <1>4 DEF HandleRxAvailable, NoPacket
<1>5. CASE ProcessDataFromHost
  <2>1. \E flags \in {deferred, NotePacket(deferred)} :
          HandleRxAvailable(flags) \/ NoPacket(flags)
    BY <1>5 DEF ProcessDataFromHost
  <2>2. deferred' \cap RX_BLOCK_OPS = Pending /\ owed' = owed
    BY <1>4, <1>5, <2>1
    DEF NotePacket, Pending, RX_BLOCK_OPS, ProcessDataFromHost, hostVars
  <2> QED
    BY <2>2 DEF OnlyBreaksLost, Pending, RX_BLOCK_OPS
<1>6. CASE CDCTickHandler
  <2> DEFINE ends == "clear" \in deferred /\ break_left <= 1
             due  == IF ends THEN SendBreak(deferred, FALSE) ELSE deferred
             left == IF ~DeviceConsumedAllData THEN due
                     ELSE (IF "break" \in due THEN SendBreak(due, TRUE) ELSE due)
                            \ RX_BLOCK_OPS
  <2>1. /\ HandleRxAvailable(left) \/ NoPacket(left)
        /\ owed' = IF DeviceConsumedAllData THEN owed \ due ELSE owed
    BY <1>6 DEF CDCTickHandler
  <2>2. due \cap RX_BLOCK_OPS \in {Pending, Pending \ {"break"}}
    BY DEF SendBreak, Pending, RX_BLOCK_OPS
  <2>3. left \cap RX_BLOCK_OPS =
          IF DeviceConsumedAllData THEN {} ELSE due \cap RX_BLOCK_OPS
    OBVIOUS
  <2> HIDE DEF due, left
  <2>4. deferred' \cap RX_BLOCK_OPS = left \cap RX_BLOCK_OPS
    BY <1>4, <2>1 DEF RX_BLOCK_OPS
  <2> QED
    BY <2>1, <2>2, <2>3, <2>4 DEF OnlyBreaksLost, Pending, RX_BLOCK_OPS
<1>7. CASE HostOut \/ MainLoop \/ Link \/ UNCHANGED vars
  <2>1. UNCHANGED <<owed, deferred>>
    BY <1>7
    DEF HostOut, MainLoop, Reading, Starting, StartRead, ReadAvail, ReadCopy, Skip,
        Link, BusReset, Disconnect, HandleConfigChange, stackVars, vars, opVars, hostVars
  <2> QED
    BY <1>1, <2>1
<1> QED
  BY <1>3, <1>5, <1>6, <1>7 DEF Next

(* The application is told of every line coding and line state the host    *)
(* asks for, or it is still deferred: only breaks are lost.                *)
THEOREM RequestsKept == Spec => []OnlyBreaksLost
<1>1. Init => OnlyBreaksLost
  BY DEF Init, OnlyBreaksLost, Pending
<1>2. IInv => owed \subseteq RX_BLOCK_OPS
  BY DEF IInv, TypeOK
<1> QED
  BY <1>1, <1>2, OwedStep, Invariant, PTL DEF Spec

-----------------------------------------------------------------------------
(* Every step but a flush that hits a read is a step of the FIFO, or none. *)
LEMMA StepRefines ==
  ASSUME IInv, [Next]_vars, ~spoilt, ~spoilt'
  PROVE  [Stream!Next]_(Stream!streamVars)
<1> USE DEF Stream!streamVars
<1>1. /\ host_sent \in Nat /\ rd_total \in Nat /\ rx_total = rd_total + Used
      /\ Used \in 0 .. RX_SIZE - 1 /\ RX_SIZE \in Nat \ {0}
      /\ OUT_PKT \in Nat \ {0} /\ rx_total \in Nat
  BY TypeParts, UsedType, TotalType, RxAssumption DEF IInv, ReadType, RingContent
<1>2. CASE HostOut
  <2>1. PICK n \in 0 .. OUT_PKT : host_sent' = host_sent + n
    BY <1>2, HostOutInv
  <2>2. UNCHANGED <<rd_total, rd_last>> /\ host_sent = rx_total
    <3>1. out_fifo = << >>
      BY <1>2 DEF HostOut, IInv, FifoOK
    <3>2. Len(out_fifo) = 0
      BY <3>1, EmptySeq
    <3>3. host_sent = rx_total + Len(out_fifo)
      BY TotalType, TypeParts DEF IInv
    <3> QED
      BY <1>1, <1>2, <3>2, <3>3 DEF HostOut, rdVars
  <2>3. host_sent + n - rd_total <= RX_SIZE - 1 + OUT_PKT /\ n \in 0 .. RX_SIZE - 1 + OUT_PKT
    BY <1>1, <2>2
  <2>4. Stream!Accept(n)
    BY <2>1, <2>2, <2>3 DEF Stream!Accept
  <2> QED
    BY <2>3, <2>4 DEF Stream!Next
<1>3. CASE HostRequest \/ BusReset \/ Disconnect
  BY <1>3, RequestInv, AwayInv DEF rdVars
<1>4. CASE ProcessDataFromHost \/ CDCTickHandler \/ UNCHANGED vars
  BY <1>4 DEF ProcessDataFromHost, CDCTickHandler, hostVars, rdVars, vars
<1>5. CASE Starting \/ ReadAvail
  BY <1>5, LookInv
<1>6. CASE ReadCopy
  <2>1. /\ host_sent' = host_sent /\ rd_total' = rd_total + 1
        /\ rd_last' = <<rd_total>> /\ rd_total + 1 <= host_sent
    BY <1>6, CopyInv
  <2>2. rd_last' = [i \in 1 .. 1 |-> rd_total + i - 1]
    BY <1>1, <2>1
  <2>3. Stream!Deliver(1)
    BY <2>1, <2>2 DEF Stream!Deliver
  <2>4. 1 \in 0 .. RX_SIZE - 1 + OUT_PKT
    BY <1>1
  <2> QED
    BY <2>3, <2>4 DEF Stream!Next
<1>7. CASE Skip \/ HandleConfigChange
  <2>1. host_sent' = host_sent /\ rd_last' = rd_last
    BY <1>7, SkipInv, ConfigInv
  <2>2. \E n \in 0 .. RX_SIZE - 1 + OUT_PKT :
          rd_total' = rd_total + n /\ rd_total + n <= host_sent
    <3>1. \A n \in 0 .. RX_SIZE - 1 : n \in 0 .. RX_SIZE - 1 + OUT_PKT
      BY <1>1
    <3> QED
      BY <1>7, <3>1, SkipInv, ConfigInv
  <2>3. \E n \in 0 .. RX_SIZE - 1 + OUT_PKT : Stream!Discard(n)
    BY <2>1, <2>2 DEF Stream!Discard
  <2> QED
    BY <2>3 DEF Stream!Next
<1> QED
  BY <1>2, <1>3, <1>4, <1>5, <1>6, <1>7 DEF Next, MainLoop, Reading, Link

(* Reception on TI is a FIFO that holds the ring and one packet, except    *)
(* where a flush hits a read half done.                                    *)
THEOREM Refinement == Spec => ImplementsStream
<1>1. IInv /\ [Next]_vars => [spoilt \/ spoilt' \/ Stream!Next]_(Stream!streamVars)
  BY StepRefines
<1> QED
  BY <1>1, Invariant, PTL DEF Spec, ImplementsStream
=============================================================================
