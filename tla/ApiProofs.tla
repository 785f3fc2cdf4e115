------------------------------ MODULE ApiProofs -----------------------------
(***************************************************************************)
(* What ApiHost promises, for every size of the pipes, the buffers and the *)
(* flush, and every set of requests: as long as nothing has happened that  *)
(* leads the protocol astray (astray = {}), the device's assertions do not *)
(* fire (NoBug), host and device are in step between two requests          *)
(* (InSync), every answer is the one to the request (OwnAnswer), and says  *)
(* what it should (SequenceOK, BufferOK, EchoStreamOK).                    *)
(*                                                                         *)
(* The invariant looks at what is under way as a whole.  Q is what the     *)
(* device has yet to take: the bytes of an unfinished header, those in the *)
(* pipe and those still to be written; of a program that was ended it is   *)
(* one message, cut anywhere, among flush bytes.  R is what the device has *)
(* answered and the program not used: the bytes it has read, those in the  *)
(* queue and those in the pipe.  A step of the host moves bytes within Q   *)
(* or within R; a step of the device takes from the front of Q and adds to *)
(* the end of R.                                                           *)
(*                                                                         *)
(* What the answers say is shown in the second half, where an invariant    *)
(* for each endpoint relates the bytes of R, the endpoint's own state and  *)
(* what the program knows.                                                 *)
(***************************************************************************)
EXTENDS ApiHost, SequenceTheorems, TLAPS

(* Bytes without their bound, which none of the proofs needs.              *)
Header == [op : Nat, ep : Nat, flags : Nat, sn : Nat, p1 : Nat, p2 : Nat, data_len : Nat]

(* The requests that lead nowhere astray.                                  *)
PlainRequests == {r \in Requests \cup {Verify} : StraysBy(r) = {}}

Message(r, sn) ==
  Bytes([op |-> r.op, ep |-> r.ep, flags |-> 0, sn |-> sn,
         p1 |-> r.p1, p2 |-> r.p2, data_len |-> Len(r.data)]) \o r.data

Got == IF h_state \in Over THEN << >> ELSE h_in

Q == (IF state = "idle" THEN pkt_buf ELSE << >>) \o (up \o h_out)
R == Got \o (h_queue \o down)

pkt == Fields(pkt_buf)

(* Bytes of the answer still to be sent; of the payload still to be taken. *)
Left ==
  IF state # "responding" THEN 0
  ELSE IF current_op(pkt) = api_op_str_rd /\ pkt.ep = API_EP_SEQ THEN pkt.data_len
  ELSE ctx.len

Need ==
  IF state # "processing" THEN 0
  ELSE IF current_op(pkt) = api_op_buf_wr THEN ctx.len ELSE pkt.data_len

(* The device by itself.                                                   *)
DevType ==
  /\ up \in Seq(Nat) /\ down \in Seq(Nat) /\ pkt_buf \in Seq(Nat)
  /\ ctx \in [off : Nat, len : Nat]
  /\ app_buf \in [1 .. APP_SZ -> Nat]
  /\ echo \in [data : Seq(Nat), read : Nat]
  /\ next_n \in Nat
  /\ state \in {"idle", "responding", "processing"}

EchoFits == echo.read <= Len(echo.data) /\ Len(echo.data) <= ECHO_BUF_SZ

IdleOK ==
  Len(pkt_buf) < HDR /\ (pkt_buf # << >> => ~IsResponse(pkt_buf[1]))

RespondingOK ==
  /\ Len(pkt_buf) = HDR
  /\ Left > 0
  /\ \/ /\ current_op(pkt) = api_op_info /\ pkt.ep \in DOMAIN EpOps
        /\ ctx.off + ctx.len = Len(descr(pkt.ep))
     \/ /\ current_op(pkt) = api_op_buf_rd /\ pkt.ep \in {API_EP_SYS, API_EP_APP}
        /\ ctx.off + ctx.len <= buf_sz(pkt.ep)
     \/ current_op(pkt) = api_op_str_rd /\ pkt.ep = API_EP_SEQ
     \/ /\ current_op(pkt) = api_op_str_rd /\ pkt.ep = API_EP_ECHO
        /\ echo.read + ctx.len <= Len(echo.data)

ProcessingOK ==
  /\ Len(pkt_buf) = HDR
  /\ Need > 0
  /\ pkt.op < api_op_resp
  /\ \/ /\ pkt.op = api_op_buf_wr /\ pkt.ep = API_EP_APP
        /\ ctx.off + ctx.len <= APP_SZ
     \/ /\ pkt.op = api_op_str_wr /\ pkt.ep = API_EP_ECHO
        /\ ctx.len <= pkt.data_len
        /\ Len(echo.data) + ctx.len <= ECHO_BUF_SZ

DevInv ==
  /\ DevType
  /\ ~halted
  /\ Len(down) <= DOWN_SIZE
  /\ EchoFits
  /\ state = "idle" => IdleOK
  /\ state = "responding" => RespondingOK
  /\ state = "processing" => ProcessingOK

(* The host, and what is under way between the two.                        *)
HostType ==
  /\ h_out \in Seq(Nat) /\ h_queue \in Seq(Nat) /\ h_in \in Seq(Nat)
  /\ h_req \in PlainRequests
  /\ last_sn \in Nat
  /\ h_state \in Over \cup Opening \cup Asking \cup {"flushed", "ready", "answered"}

(* q is n bytes of the message m behind k flush bytes, and more of these.  *)
Carries(q, k, n, m) ==
  /\ k + n <= Len(q)
  /\ \A i \in 1 .. Len(q) :
       q[i] = IF i \in k + 1 .. k + n THEN m[i - k] ELSE api_op_resp

OnlyFlush(q) == \A i \in 1 .. Len(q) : q[i] = api_op_resp

(* The next flush makes up for a header cut after n bytes, and for what is *)
(* taken for the payload if its endpoint had come through.                 *)
MadeUp(r, n) ==
  n < 2 \/ n >= HDR \/ ~is_data_write_op(r.op) \/ FLUSH_LEN >= (HDR - n) + api_op_resp

(* A request that has been cut: not looked at yet, ...                     *)
CutWaits ==
  /\ state = "idle" /\ Len(R) = 0
  /\ \E k \in Nat, r \in PlainRequests, sn \in Nat : \E n \in 1 .. Len(Message(r, sn)) :
       /\ Carries(Q, k, n, Message(r, sn))
       /\ MadeUp(r, n)
       /\ h_state \in Opening => Len(Q) >= k + n + FLUSH_LEN

(* ... its payload, or what is taken for it, being awaited, ...            *)
CutTaken ==
  /\ state = "processing" /\ Len(R) = 0
  /\ Need <= FLUSH_LEN
  /\ \A i \in 1 .. Len(Q) : i > Need => Q[i] = api_op_resp
  /\ h_state \in Opening => Len(Q) >= Need

(* ... being answered, or done with.                                       *)
CutAnswered ==
  state # "processing" /\ OnlyFlush(Q) /\ Len(R) + Left < QUEUE_SIZE

Cut == CutWaits \/ CutTaken \/ CutAnswered

(* s is the beginning of the answer to the request.                        *)
Answer(s) ==
  /\ Len(s) >= HDR
  /\ s[1] = h_req.op + api_op_resp
  /\ s[2] = h_req.ep
  /\ s[3] = Verdict(h_req)
  /\ s[4] = last_sn
  /\ HDR + s[7] < QUEUE_SIZE
  /\ Verdict(h_req) # 0 => s[7] = 0
  /\ Verdict(h_req) = 0 /\ h_req.op = api_op_buf_rd => s[7] = h_req.p2

(* The request of the program that runs, in the same three stages.         *)
AskWaits ==
  /\ state = "idle" /\ Len(R) = 0
  /\ \E k \in Nat : LET m == Message(h_req, last_sn)
                    IN Carries(Q, k, Len(m), m) /\ Len(Q) = k + Len(m)

AskTaken ==
  /\ state = "processing" /\ Len(R) = 0
  /\ Len(Q) = Need /\ Need <= FLUSH_LEN
  /\ pkt.op = h_req.op /\ pkt.ep = h_req.ep /\ pkt.flags = 0 /\ pkt.sn = last_sn
  /\ Verdict(h_req) = 0

AskAnswered ==
  /\ state # "processing" /\ Len(Q) = 0
  /\ Answer(R) /\ Len(R) + Left = HDR + R[7]

Asks == AskWaits \/ AskTaken \/ AskAnswered

HostInv ==
  /\ HostType
  /\ h_state # "mismatch"
  /\ h_state \in {"flush", "write"} <=> h_out # << >>
  /\ h_state = "flush" => Len(h_out) <= FLUSH_LEN
  /\ h_state \in {"closed", "flush", "flushed", "ready", "write"} => h_in = << >>
  /\ h_state = "header" => Len(h_in) < HDR
  /\ h_state \in {"payload", "answered", "refused"} => Answer(h_in)
  /\ h_state = "payload" => Verdict(h_req) = 0
  /\ h_state \in Over \cup Opening => Cut
  /\ h_state \in {"flushed", "ready"} => Aligned /\ OnlyFlush(Q)
  /\ h_state \in Asking => Asks
  /\ h_state = "answered" =>
       state = "idle" /\ Len(Q) = 0 /\ h_queue = << >> /\ down = << >>

ApiInv == DevInv /\ HostInv

-----------------------------------------------------------------------------
(* Sequences of bytes                                                      *)

(* What Take and Drop are, element by element. *)
LEMMA TakeFacts ==
  ASSUME NEW s \in Seq(Nat), NEW n \in Nat, n <= Len(s)
  PROVE  /\ Take(s, n) \in Seq(Nat)
         /\ Len(Take(s, n)) = n
         /\ \A i \in 1 .. n : Take(s, n)[i] = s[i]
<1>1. \A i \in 1 .. n : s[i] \in Nat
  OBVIOUS
<1> QED
  BY <1>1, SubSeqProperties, SMTT(20) DEF Take

LEMMA DropFacts ==
  ASSUME NEW s \in Seq(Nat), NEW n \in Nat, n <= Len(s)
  PROVE  /\ Drop(s, n) \in Seq(Nat)
         /\ Len(Drop(s, n)) = Len(s) - n
         /\ \A i \in 1 .. Len(s) - n : Drop(s, n)[i] = s[n + i]
<1>1. n + 1 \in Int /\ Len(s) \in Int /\ \A i \in n + 1 .. Len(s) : s[i] \in Nat
  OBVIOUS
<1>2. /\ SubSeq(s, n + 1, Len(s)) \in Seq(Nat)
      /\ Len(SubSeq(s, n + 1, Len(s))) = IF n + 1 <= Len(s) THEN Len(s) - (n + 1) + 1 ELSE 0
      /\ \A i \in 1 .. Len(s) - (n + 1) + 1 : SubSeq(s, n + 1, Len(s))[i] = s[n + 1 + i - 1]
  BY <1>1, SubSeqProperties
<1>3. \A i \in 1 .. Len(s) - n : n + 1 + i - 1 = n + i
  OBVIOUS
<1> QED
  BY <1>2, <1>3 DEF Drop

LEMMA SameSeq ==
  ASSUME NEW s \in Seq(Nat), NEW t \in Seq(Nat),
         Len(s) = Len(t), \A i \in 1 .. Len(s) : s[i] = t[i]
  PROVE  s = t
BY SeqEqual

LEMMA ConcatFacts ==
  ASSUME NEW s \in Seq(Nat), NEW t \in Seq(Nat)
  PROVE  /\ s \o t \in Seq(Nat)
         /\ Len(s \o t) = Len(s) + Len(t)
         /\ \A i \in 1 .. Len(s) : (s \o t)[i] = s[i]
         /\ \A i \in 1 .. Len(t) : (s \o t)[Len(s) + i] = t[i]
         /\ \A i \in 1 .. Len(s) + Len(t) :
              (s \o t)[i] = IF i <= Len(s) THEN s[i] ELSE t[i - Len(s)]
BY ConcatProperties

LEMMA TakeDrop ==
  ASSUME NEW s \in Seq(Nat), NEW n \in Nat, n <= Len(s)
  PROVE  Take(s, n) \o Drop(s, n) = s
<1> DEFINE t == Take(s, n)  d == Drop(s, n)
<1>1. /\ t \in Seq(Nat) /\ Len(t) = n /\ \A i \in 1 .. n : t[i] = s[i]
      /\ d \in Seq(Nat) /\ Len(d) = Len(s) - n
      /\ \A i \in 1 .. Len(s) - n : d[i] = s[n + i]
  BY TakeFacts, DropFacts
<1> HIDE DEF t, d
<1>2. /\ t \o d \in Seq(Nat) /\ Len(t \o d) = Len(s)
      /\ \A i \in 1 .. Len(s) : (t \o d)[i] = IF i <= n THEN t[i] ELSE d[i - n]
  BY <1>1, ConcatFacts
<1>3. \A i \in 1 .. Len(s) : (t \o d)[i] = s[i]
  <2> TAKE i \in 1 .. Len(s)
  <2>1. CASE i <= n
    BY <2>1, <1>1, <1>2
  <2>2. CASE ~(i <= n)
    <3>1. i - n \in 1 .. Len(s) - n /\ n + (i - n) = i
      BY <2>2
    <3> QED
      BY <3>1, <2>2, <1>1, <1>2
  <2> QED
    BY <2>1, <2>2
<1>4. t \o d = s
  BY <1>2, <1>3, SameSeq
<1> QED
  BY <1>4 DEF t, d

LEMMA DropNone ==
  ASSUME NEW s \in Seq(Nat)
  PROVE  Drop(s, 0) = s /\ Drop(s, Len(s)) = << >>
BY SubSeqFull, SubSeqEmpty DEF Drop

(* Taking from the front of a sequence that goes on. *)
LEMMA DropConcat ==
  ASSUME NEW s \in Seq(Nat), NEW t \in Seq(Nat), NEW n \in Nat, n <= Len(s)
  PROVE  Drop(s \o t, n) = Drop(s, n) \o t
<1> DEFINE d == Drop(s, n)  st == s \o t  e == Drop(st, n)
<1>1. /\ d \in Seq(Nat) /\ Len(d) = Len(s) - n
      /\ \A i \in 1 .. Len(s) - n : d[i] = s[n + i]
  BY DropFacts
<1>2. /\ st \in Seq(Nat) /\ Len(st) = Len(s) + Len(t)
      /\ \A i \in 1 .. Len(s) + Len(t) : st[i] = IF i <= Len(s) THEN s[i] ELSE t[i - Len(s)]
  BY ConcatFacts
<1>3. n <= Len(st)
  BY <1>2
<1>4. /\ e \in Seq(Nat) /\ Len(e) = Len(st) - n
      /\ \A i \in 1 .. Len(st) - n : e[i] = st[n + i]
  BY <1>2, <1>3, DropFacts
<1> HIDE DEF d, st, e
<1>5. /\ d \o t \in Seq(Nat) /\ Len(d \o t) = Len(d) + Len(t)
      /\ \A i \in 1 .. Len(d) + Len(t) :
           (d \o t)[i] = IF i <= Len(d) THEN d[i] ELSE t[i - Len(d)]
  BY <1>1, ConcatFacts
<1>6. \A i \in 1 .. Len(e) : e[i] = (d \o t)[i]
  <2> TAKE i \in 1 .. Len(e)
  <2>1. /\ n + i \in 1 .. Len(s) + Len(t) /\ i \in 1 .. Len(st) - n
        /\ i \in 1 .. Len(d) + Len(t) /\ e[i] = st[n + i]
    BY <1>1, <1>2, <1>4
  <2>2. CASE i <= Len(d)
    <3>1. n + i <= Len(s) /\ i \in 1 .. Len(s) - n
      BY <2>2, <1>1
    <3> QED
      BY <2>1, <2>2, <3>1, <1>1, <1>2, <1>5
  <2>3. CASE ~(i <= Len(d))
    <3>1. n + i - Len(s) = i - Len(d) /\ ~(n + i <= Len(s))
      BY <2>3, <1>1
    <3>2. st[n + i] = IF n + i <= Len(s) THEN s[n + i] ELSE t[n + i - Len(s)]
      <4>1. PICK j \in 1 .. Len(s) + Len(t) : j = n + i
        BY <2>1
      <4>2. st[j] = IF j <= Len(s) THEN s[j] ELSE t[j - Len(s)]
        BY <1>2, Zenon
      <4> QED
        BY <4>1, <4>2
    <3>3. st[n + i] = t[i - Len(d)]
      BY <3>1, <3>2
    <3>4. (d \o t)[i] = t[i - Len(d)]
      BY <2>1, <2>3, <1>5
    <3> QED
      BY <2>1, <3>3, <3>4
  <2> QED
    BY <2>2, <2>3
<1>7. Len(e) = Len(d \o t)
  BY <1>1, <1>2, <1>4, <1>5
<1>8. e = d \o t
  BY <1>4, <1>5, <1>6, <1>7, SameSeq
<1> QED
  BY <1>8 DEF d, e, st

(* Dropping twice. *)
LEMMA DropDrop ==
  ASSUME NEW s \in Seq(Nat), NEW n \in Nat, NEW m \in Nat, n + m <= Len(s)
  PROVE  Drop(Drop(s, n), m) = Drop(s, n + m)
<1> DEFINE d == Drop(s, n)  e == Drop(d, m)  f == Drop(s, n + m)
<1>1. /\ d \in Seq(Nat) /\ Len(d) = Len(s) - n
      /\ \A i \in 1 .. Len(s) - n : d[i] = s[n + i]
  <2>1. n <= Len(s)
    OBVIOUS
  <2> QED
    BY <2>1, DropFacts
<1>2. m <= Len(d)
  BY <1>1
<1>3. /\ e \in Seq(Nat) /\ Len(e) = Len(d) - m
      /\ \A i \in 1 .. Len(d) - m : e[i] = d[m + i]
  BY <1>1, <1>2, DropFacts
<1>4. /\ f \in Seq(Nat) /\ Len(f) = Len(s) - (n + m)
      /\ \A i \in 1 .. Len(s) - (n + m) : f[i] = s[n + m + i]
  <2>1. n + m \in Nat
    OBVIOUS
  <2> QED
    BY <2>1, DropFacts
<1> HIDE DEF d, e, f
<1>5. \A i \in 1 .. Len(e) : e[i] = f[i]
  <2> TAKE i \in 1 .. Len(e)
  <2>1. m + i \in 1 .. Len(s) - n /\ n + (m + i) = n + m + i /\ i \in 1 .. Len(s) - (n + m)
    BY <1>1, <1>3
  <2> QED
    BY <2>1, <1>1, <1>3, <1>4
<1>6. Len(e) = Len(f)
  BY <1>1, <1>3, <1>4
<1>7. e = f
  BY <1>3, <1>4, <1>5, <1>6, SameSeq
<1> QED
  BY <1>7 DEF e, f, d

-----------------------------------------------------------------------------
(* Headers and endpoints                                                   *)

LEMMA FieldsFacts ==
  ASSUME NEW s \in Seq(Nat), Len(s) >= HDR
  PROVE  /\ Fields(s) \in Header
         /\ Fields(s).op = s[1] /\ Fields(s).ep = s[2] /\ Fields(s).flags = s[3]
         /\ Fields(s).sn = s[4] /\ Fields(s).p1 = s[5] /\ Fields(s).p2 = s[6]
         /\ Fields(s).data_len = s[7]
<1>1. \A i \in 1 .. 7 : s[i] \in Nat
  BY DEF HDR
<1> QED
  BY <1>1 DEF Fields, Header

LEMMA BytesFacts ==
  ASSUME NEW p \in Header
  PROVE  /\ Bytes(p) \in Seq(Nat) /\ Len(Bytes(p)) = HDR
         /\ Bytes(p)[1] = p.op /\ Bytes(p)[2] = p.ep /\ Bytes(p)[3] = p.flags
         /\ Bytes(p)[4] = p.sn /\ Bytes(p)[5] = p.p1 /\ Bytes(p)[6] = p.p2
         /\ Bytes(p)[7] = p.data_len
<1>1. /\ p.op \in Nat /\ p.ep \in Nat /\ p.flags \in Nat /\ p.sn \in Nat
      /\ p.p1 \in Nat /\ p.p2 \in Nat /\ p.data_len \in Nat
  BY DEF Header
<1> QED
  BY <1>1 DEF Bytes, HDR

LEMMA FieldsOfBytes ==
  ASSUME NEW p \in Header
  PROVE  Fields(Bytes(p)) = p
<1>1. p = [op |-> p.op, ep |-> p.ep, flags |-> p.flags, sn |-> p.sn,
           p1 |-> p.p1, p2 |-> p.p2, data_len |-> p.data_len]
  BY DEF Header
<1>2. Fields(Bytes(p)) = [op |-> p.op, ep |-> p.ep, flags |-> p.flags, sn |-> p.sn,
           p1 |-> p.p1, p2 |-> p.p2, data_len |-> p.data_len]
  BY BytesFacts DEF Fields
<1> QED
  BY <1>1, <1>2

(* What the header of an answer is. *)
LEMMA ResponseFacts ==
  ASSUME NEW p \in Header, NEW n \in Nat
  PROVE  /\ Response(p, n) \in Seq(Nat) /\ Len(Response(p, n)) = HDR
         /\ Response(p, n)[1] = current_op(p) + api_op_resp
         /\ Response(p, n)[2] = p.ep /\ Response(p, n)[3] = p.flags
         /\ Response(p, n)[4] = p.sn /\ Response(p, n)[7] = n
         /\ Fields(Response(p, n)) \in Header
         /\ current_op(Fields(Response(p, n))) = current_op(p)
         /\ Fields(Response(p, n)).ep = p.ep
         /\ Fields(Response(p, n)).p2 = p.p2
         /\ Fields(Response(p, n)).data_len = n
<1> DEFINE q == [p EXCEPT !.op = current_op(p) + api_op_resp, !.data_len = n]
<1>1. current_op(p) \in 0 .. 7 /\ (current_op(p) + 8) % 8 = current_op(p)
  BY DEF Header, current_op, api_op_resp
<1> DEFINE c == current_op(p) + api_op_resp
<1>6. c \in Nat
  BY <1>1 DEF api_op_resp
<1>2. /\ q \in Header /\ q.op = c /\ q.ep = p.ep
      /\ q.flags = p.flags /\ q.sn = p.sn /\ q.p2 = p.p2 /\ q.data_len = n
  <2> HIDE DEF c
  <2> DEFINE q1 == [p EXCEPT !.op = c]  q2 == [q1 EXCEPT !.data_len = n]
  <2>1. q1 \in Header /\ q1.op = c /\ q1.ep = p.ep
      /\ q1.flags = p.flags /\ q1.sn = p.sn /\ q1.p2 = p.p2
    BY <1>6 DEF Header
  <2> HIDE DEF q1
  <2>2. q2 \in Header /\ q2.op = c /\ q2.ep = p.ep
      /\ q2.flags = p.flags /\ q2.sn = p.sn /\ q2.p2 = p.p2 /\ q2.data_len = n
    BY <2>1 DEF Header
  <2> QED
    BY <2>2 DEF q1, c
<1>3. Response(p, n) = Bytes(q)
  BY DEF Response
<1> HIDE DEF q
<1>4. Fields(Response(p, n)) = q
  BY <1>2, <1>3, FieldsOfBytes
<1>5. current_op(q) = current_op(p)
  BY <1>1, <1>2 DEF current_op, api_op_resp
<1> QED
  BY <1>2, <1>3, <1>4, <1>5, BytesFacts

LEMMA OpCases ==
  ASSUME NEW p \in Header
  PROVE  /\ current_op(p) \in 0 .. 7
         /\ p.op < api_op_resp => current_op(p) = p.op
BY DEF Header, current_op, api_op_resp

(* Which endpoint has which callbacks. *)
LEMMA EpOpsFacts ==
  /\ DOMAIN EpOps = {API_EP_SYS, API_EP_APP, API_EP_SEQ, API_EP_ECHO}
  /\ EpOps[API_EP_SYS] = {api_op_info, api_op_buf_rd}
  /\ EpOps[API_EP_APP] = {api_op_info, api_op_buf_rd, api_op_buf_wr}
  /\ EpOps[API_EP_SEQ] = {api_op_info, api_op_str_rd}
  /\ EpOps[API_EP_ECHO] = {api_op_info, api_op_str_rd, api_op_str_wr}
BY DEF EpOps, API_EP_SYS, API_EP_APP, API_EP_SEQ, API_EP_ECHO

LEMMA EpFacts ==
  ASSUME DevType, NEW ep \in DOMAIN EpOps
  PROVE  /\ ep \in Nat /\ ep # api_op_resp
         /\ descr(ep) \in Seq(Nat) /\ Len(descr(ep)) <= 1
         /\ buf_sz(ep) \in Nat
         /\ ep \in {API_EP_SYS, API_EP_APP} =>
              Buf(ep) \in Seq(Nat) /\ Len(Buf(ep)) = buf_sz(ep)
<1>1. ep \in {0, 1, 6, 7}
  BY EpOpsFacts DEF API_EP_SYS, API_EP_APP, API_EP_SEQ, API_EP_ECHO
<1>2. SYS_DESCR \in Seq(Nat) /\ Len(SYS_DESCR) \in Nat
  <2>1. Byte \subseteq Nat
    BY DEF Byte, ALL_ONES, api_op_resp
  <2>2. SYS_DESCR \in Seq(Byte)
    BY DeviceAssumption
  <2>3. SYS_DESCR \in Seq(Nat)
    BY <2>1, <2>2, SeqMonotonic
  <2> QED
    BY <2>3
<1>3. APP_SZ \in Nat /\ ECHO_BUF_SZ \in Nat
  BY DeviceAssumption
<1>4. app_buf \in Seq(Nat) /\ Len(app_buf) = APP_SZ
  BY <1>3 DEF DevType
<1>5. descr(ep) \in Seq(Nat) /\ Len(descr(ep)) <= 1
  BY <1>1 DEF descr
<1>6. buf_sz(ep) \in Nat
  BY <1>1, <1>2, <1>3 DEF buf_sz, API_EP_SYS, API_EP_APP, API_EP_SEQ, API_EP_ECHO
<1>7. ep \in {API_EP_SYS, API_EP_APP} => Buf(ep) \in Seq(Nat) /\ Len(Buf(ep)) = buf_sz(ep)
  <2>1. CASE ep = API_EP_SYS
    <3>1. Buf(ep) = SYS_DESCR /\ buf_sz(ep) = Len(SYS_DESCR)
      BY <2>1 DEF Buf, buf_sz, API_EP_SYS, API_EP_APP, API_EP_SEQ, API_EP_ECHO
    <3> QED
      BY <3>1, <1>2
  <2>2. CASE ep = API_EP_APP
    <3>1. Buf(ep) = app_buf /\ buf_sz(ep) = APP_SZ
      BY <2>2 DEF Buf, buf_sz, API_EP_SYS, API_EP_APP, API_EP_SEQ, API_EP_ECHO
    <3> QED
      BY <3>1, <1>4
  <2> QED
    BY <2>1, <2>2
<1> QED
  BY <1>1, <1>5, <1>6, <1>7 DEF api_op_resp

(* api_skip_invalid_bytes leaves a sequence as it is only if it is empty   *)
(* or begins like a header; else it skips leading response bytes.          *)
LEMMA SkipFacts ==
  ASSUME NEW buf \in Seq(Nat), Len(buf) <= HDR
  PROVE  \E n \in 0 .. Len(buf) :
           /\ api_skip_invalid_bytes(buf) = Drop(buf, n)
           /\ \A i \in 1 .. n : IsResponse(buf[i])
           /\ n < Len(buf) => ~IsResponse(buf[n + 1])
<1> DEFINE S == {n \in 0 .. Len(buf) : \A i \in 1 .. n : IsResponse(buf[i])}
           m == CHOOSE n \in S : \A k \in S : k <= n
<1>1. api_skip_invalid_bytes(buf) = Drop(buf, m)
  BY DEF api_skip_invalid_bytes
<1>2. S \subseteq 0 .. 7 /\ 0 \in S
  <2>1. Len(buf) \in Nat /\ Len(buf) <= 7
    BY DEF HDR
  <2>2. \A n \in 0 .. Len(buf) : n \in 0 .. 7
    BY <2>1
  <2>3. 0 \in 0 .. Len(buf)
    BY <2>1
  <2>4. \A i \in 1 .. 0 : IsResponse(buf[i])
    OBVIOUS
  <2> QED
    BY <2>2, <2>3, <2>4, Zenon
<1>3. ASSUME NEW T, T \subseteq 0 .. 7, 0 \in T
      PROVE  \E n \in T : \A k \in T : k <= n
  <2>1. \A k \in T : k \in {0, 1, 2, 3, 4, 5, 6, 7}
    BY <1>3
  <2>2. CASE 7 \in T
    BY <2>1, <2>2
  <2>3. CASE 7 \notin T /\ 6 \in T
    BY <2>1, <2>3
  <2>4. CASE 7 \notin T /\ 6 \notin T /\ 5 \in T
    BY <2>1, <2>4
  <2>5. CASE 7 \notin T /\ 6 \notin T /\ 5 \notin T /\ 4 \in T
    BY <2>1, <2>5
  <2>6. CASE 7 \notin T /\ 6 \notin T /\ 5 \notin T /\ 4 \notin T /\ 3 \in T
    BY <2>1, <2>6
  <2>7. CASE 7 \notin T /\ 6 \notin T /\ 5 \notin T /\ 4 \notin T /\ 3 \notin T
    BY <2>1, <2>7, <1>3
  <2> QED
    BY <2>2, <2>3, <2>4, <2>5, <2>6, <2>7
<1>4. \E n \in S : \A k \in S : k <= n
  <2> HIDE DEF S
  <2> QED
    BY <1>2, <1>3
<1>5. m \in S /\ \A k \in S : k <= m
  <2> HIDE DEF S
  <2> QED
    BY <1>4
<1>6. m \in 0 .. Len(buf) /\ \A i \in 1 .. m : IsResponse(buf[i])
  <2> HIDE DEF m
  <2> QED
    BY <1>5
<1>7. m < Len(buf) => ~IsResponse(buf[m + 1])
  <2> HIDE DEF m
  <2> SUFFICES ASSUME m < Len(buf), IsResponse(buf[m + 1])
               PROVE  FALSE
    OBVIOUS
  <2>1. m + 1 \in 0 .. Len(buf)
    BY <1>6
  <2>2. \A i \in 1 .. m + 1 : i \in 1 .. m \/ i = m + 1
    BY <1>6
  <2>3. m + 1 \in S
    BY <1>6, <2>1, <2>2
  <2> QED
    BY <2>3, <1>5, <1>6
<1> QED
  BY <1>1, <1>6, <1>7

-----------------------------------------------------------------------------
(* The callbacks                                                           *)

LEMMA RoomFacts ==
  ASSUME DevType, Len(down) <= DOWN_SIZE, HasRoom
  PROVE  /\ Room \in Nat /\ Room >= HDR /\ Room = DOWN_SIZE - Len(down)
         /\ \A len \in Nat : /\ Fits(TRUE, len) \in 0 .. len /\ Fits(TRUE, len) <= Room - HDR
                             /\ Fits(FALSE, len) \in 0 .. len /\ Fits(FALSE, len) <= Room
                             /\ len > 0 => Fits(FALSE, len) > 0
<1>1. DOWN_SIZE \in Nat /\ Len(down) \in Nat
  BY DeviceAssumption DEF DevType
<1>2. Room \in Nat /\ Room >= HDR /\ Room = DOWN_SIZE - Len(down)
  BY <1>1 DEF Room, HasRoom
<1>3. \A len \in Nat : /\ Fits(TRUE, len) \in 0 .. len /\ Fits(TRUE, len) <= Room - HDR
                       /\ Fits(FALSE, len) \in 0 .. len /\ Fits(FALSE, len) <= Room
                       /\ len > 0 => Fits(FALSE, len) > 0
  BY <1>2 DEF Fits, MIN_, HDR
<1> QED
  BY <1>2, <1>3

LEMMA Piece ==
  ASSUME NEW src \in Seq(Nat), NEW off \in Nat, NEW n \in Nat, off + n <= Len(src)
  PROVE  /\ SubSeq(src, off + 1, off + n) \in Seq(Nat)
         /\ Len(SubSeq(src, off + 1, off + n)) = n
         /\ \A i \in 1 .. n : SubSeq(src, off + 1, off + n)[i] = src[off + i]
<1>1. off + 1 \in Int /\ off + n \in Int /\ \A i \in off + 1 .. off + n : src[i] \in Nat
  OBVIOUS
<1>2. /\ SubSeq(src, off + 1, off + n) \in Seq(Nat)
      /\ Len(SubSeq(src, off + 1, off + n))
           = IF off + 1 <= off + n THEN off + n - (off + 1) + 1 ELSE 0
      /\ \A i \in 1 .. off + n - (off + 1) + 1 :
           SubSeq(src, off + 1, off + n)[i] = src[off + 1 + i - 1]
  BY <1>1, SubSeqProperties
<1>3. \A i \in 1 .. n : off + 1 + i - 1 = off + i
  OBVIOUS
<1> QED
  BY <1>2, <1>3

(* The answer gets longer, and still fits. *)
LEMMA Longer ==
  ASSUME DevType, NEW a \in Seq(Nat), down' = down \o a, Len(a) <= Room
  PROVE  down' \in Seq(Nat) /\ Len(down') <= DOWN_SIZE /\ Len(down') = Len(down) + Len(a)
<1>1. down' \in Seq(Nat) /\ Len(down') = Len(down) + Len(a)
  BY ConcatFacts DEF DevType
<1>2. Len(down) \in Nat /\ Len(a) \in Nat /\ DOWN_SIZE \in Nat
  BY DeviceAssumption DEF DevType
<1> QED
  BY <1>1, <1>2 DEF Room

(* The first call of a callback that reads sends a header and as much of   *)
(* the payload as fits.                                                    *)
LEMMA SendFirst ==
  ASSUME DevType, Len(down) <= DOWN_SIZE, HasRoom,
         NEW p \in Header, NEW src \in Seq(Nat), NEW off \in Nat, NEW len \in Nat,
         off + len <= Len(src), Send(p, TRUE, src, off, len)
  PROVE  \E n \in 0 .. len, a \in Seq(Nat) :
           /\ n = Fits(TRUE, len)
           /\ down' = down \o a /\ down' \in Seq(Nat) /\ Len(down') <= DOWN_SIZE
           /\ Len(a) = HDR + n
           /\ \A i \in 1 .. HDR : a[i] = Response(p, len)[i]
           /\ \A i \in 1 .. n : a[HDR + i] = src[off + i]
           /\ ctx' = [off |-> off + n, len |-> len - n]
           /\ \/ n = len /\ state' = "idle" /\ pkt_buf' = << >>
              \/ n < len /\ state' = "responding" /\ pkt_buf' = Response(p, len)
<1> DEFINE n == Fits(TRUE, len)
           h == Response(p, len)
           b == SubSeq(src, off + 1, off + n)
           a == h \o b
<1>1. n \in 0 .. len /\ n \in Nat /\ HDR + n <= Room
  <2>1. n \in 0 .. len /\ n <= Room - HDR /\ Room \in Nat
    BY RoomFacts
  <2> HIDE DEF n
  <2> QED
    BY <2>1 DEF HDR
<1>2. h \in Seq(Nat) /\ Len(h) = HDR
  BY ResponseFacts
<1>3. b \in Seq(Nat) /\ Len(b) = n /\ \A i \in 1 .. n : b[i] = src[off + i]
  <2> HIDE DEF n
  <2>1. n \in Nat /\ off + n <= Len(src)
    BY <1>1
  <2> QED
    BY <2>1, Piece
<1>4. /\ down' = (down \o h) \o b
      /\ ctx' = [off |-> off + n, len |-> len - n]
      /\ \/ n = len /\ state' = "idle" /\ pkt_buf' = << >>
         \/ n # len /\ state' = "responding" /\ pkt_buf' = h
  BY DEF Send, AllSent, api_op_complete
<1> HIDE DEF n, h, b
<1>5. down' = down \o a
  <2>1. down \in Seq(Nat) /\ h \in Seq(Nat) /\ b \in Seq(Nat)
    BY <1>2, <1>3 DEF DevType
  <2>2. (down \o h) \o b = down \o (h \o b)
    BY <2>1, ConcatAssociative, SMTT(30)
  <2> QED
    BY <2>2, <1>4
<1>6. /\ a \in Seq(Nat) /\ Len(a) = HDR + n
      /\ \A i \in 1 .. HDR : a[i] = h[i]
      /\ \A i \in 1 .. n : a[HDR + i] = b[i]
  BY <1>2, <1>3, ConcatFacts
<1> HIDE DEF a
<1>7. down' \in Seq(Nat) /\ Len(down') <= DOWN_SIZE
  <2>1. Len(a) <= Room
    BY <1>1, <1>6
  <2> QED
    BY <2>1, <1>5, <1>6, Longer
<1>8. \A i \in 1 .. n : a[HDR + i] = src[off + i]
  BY <1>3, <1>6
<1>9. n # len => n < len
  BY <1>1
<1> QED
  BY <1>1, <1>4, <1>5, <1>6, <1>7, <1>8, <1>9 DEF n, h

(* Every later call goes on where the last one stopped. *)
LEMMA SendMore ==
  ASSUME DevType, Len(down) <= DOWN_SIZE, HasRoom,
         NEW p, NEW src \in Seq(Nat), NEW off \in Nat, NEW len \in Nat,
         off + len <= Len(src), Send(p, FALSE, src, off, len)
  PROVE  \E n \in 0 .. len, a \in Seq(Nat) :
           /\ n = Fits(FALSE, len)
           /\ down' = down \o a /\ down' \in Seq(Nat) /\ Len(down') <= DOWN_SIZE
           /\ Len(a) = n
           /\ \A i \in 1 .. n : a[i] = src[off + i]
           /\ ctx' = [off |-> off + n, len |-> len - n]
           /\ \/ n = len /\ state' = "idle" /\ pkt_buf' = << >>
              \/ n < len /\ state' = "responding" /\ pkt_buf' = Bytes(p)
<1> DEFINE n == Fits(FALSE, len)
           a == SubSeq(src, off + 1, off + n)
<1>1. n \in 0 .. len /\ n <= Room
  BY RoomFacts
<1>3. a \in Seq(Nat) /\ Len(a) = n /\ \A i \in 1 .. n : a[i] = src[off + i]
  <2> HIDE DEF n
  <2>1. n \in Nat /\ off + n <= Len(src)
    BY <1>1
  <2> QED
    BY <2>1, Piece
<1>4. /\ down' = (down \o << >>) \o a
      /\ ctx' = [off |-> off + n, len |-> len - n]
      /\ \/ n = len /\ state' = "idle" /\ pkt_buf' = << >>
         \/ n # len /\ state' = "responding" /\ pkt_buf' = Bytes(p)
  BY DEF Send, AllSent, api_op_complete
<1> HIDE DEF n, a
<1>5. down' = down \o a
  BY <1>4, ConcatEmptySeq DEF DevType
<1>7. down' \in Seq(Nat) /\ Len(down') <= DOWN_SIZE
  BY <1>1, <1>3, <1>5, Longer
<1>9. n # len => n < len
  BY <1>1
<1> QED
  BY <1>1, <1>3, <1>4, <1>5, <1>7, <1>9 DEF n

(* The verdict on a packet, as Verdict has it for a request.               *)
PacketVerdict(p) ==
  IF is_data_write_op(p.op) # (p.data_len # 0) THEN api_fl_err_sz
  ELSE IF p.ep \notin DOMAIN EpOps THEN api_fl_err_ep
  ELSE IF p.op \notin EpOps[p.ep] THEN api_fl_err_op
  ELSE IF p.op \in {api_op_buf_rd, api_op_buf_wr} /\ p.p1 + p.p2 > buf_sz(p.ep)
       THEN api_fl_err_sz
  ELSE IF p.op = api_op_buf_wr /\ p.p2 # p.data_len THEN api_fl_err_sz
  ELSE 0

AcceptedWrite(p) == PacketVerdict(p) = 0 /\ is_data_write_op(p.op)

(* The answer to p begins, with these flags and len bytes of payload ...   *)
Replies(p, flags, len) ==
  \E a \in Seq(Nat) :
    /\ down' = down \o a
    /\ a[1] = p.op + api_op_resp /\ a[2] = p.ep /\ a[3] = flags /\ a[4] = p.sn
    /\ a[7] = len
    /\ Len(a) >= HDR /\ Len(a) + Left' = HDR + len
    /\ state' # "processing"
    /\ state' = "idle" => pkt_buf' = << >>

(* ... or goes on.                                                         *)
RepliesMore ==
  \E a \in Seq(Nat) :
    /\ down' = down \o a
    /\ Len(a) + Left' = Left
    /\ state' # "processing"
    /\ state' = "idle" => pkt_buf' = << >>

(* The payload of p is awaited.                                            *)
Awaits(p) ==
  /\ down' = down
  /\ state' = "processing"
  /\ pkt'.op = p.op /\ pkt'.ep = p.ep /\ pkt'.flags = p.flags /\ pkt'.sn = p.sn

(* What the call for a new packet comes to.                                *)
Begins(p, in) ==
  \/ /\ AcceptedWrite(p)
     /\ \E m \in 0 .. Len(in) : up' = Drop(in, m) /\ Awaits(p) /\ Need' = p.data_len - m
  \/ /\ AcceptedWrite(p)
     /\ p.data_len <= Len(in) /\ up' = Drop(in, p.data_len)
     /\ Replies(p, p.flags, 0)
  \/ /\ ~AcceptedWrite(p)
     /\ up' = in
     /\ \E flags \in Nat, len \in Nat :
          /\ Replies(p, flags, len)
          /\ p.flags = 0 => flags = PacketVerdict(p)
          /\ PacketVerdict(p) # 0 => len = 0
          /\ PacketVerdict(p) = 0 /\ p.op = api_op_buf_rd => len = p.p2
          /\ len <= 1 \/ len <= p.p2

(* A header is sent, and as much of the payload as fits: what is left of   *)
(* it starts at ctx.off.                                                   *)
HeaderSent(p, off, len) ==
  /\ Replies(p, p.flags, len)
  /\ down' \in Seq(Nat) /\ Len(down') <= DOWN_SIZE
  /\ pkt_buf' \in Seq(Nat) /\ state' \in {"idle", "responding"}
  /\ Fits(TRUE, len) \in 0 .. len
  /\ ctx' = [off |-> off + Fits(TRUE, len), len |-> len - Fits(TRUE, len)]
  /\ state' = "idle" => pkt_buf' = << >>
  /\ state' = "responding" =>
       /\ Len(pkt_buf') = HDR /\ Left' > 0
       /\ current_op(pkt') = p.op /\ pkt'.ep = p.ep

(* The first call of a callback that reads, up to what it reads from.      *)
LEMMA FirstReply ==
  ASSUME DevInv, HasRoom, NEW p \in Header, p.op < api_op_resp,
         NEW q \in Header, q.op = p.op, q.ep = p.ep, q.flags = p.flags, q.sn = p.sn,
         NEW src \in Seq(Nat), NEW off \in Nat, NEW len \in Nat,
         off + len <= Len(src), Send(q, TRUE, src, off, len),
         ~(p.op = api_op_str_rd /\ p.ep = API_EP_SEQ)
  PROVE  HeaderSent(p, off, len)
<1>1. DevType /\ Len(down) <= DOWN_SIZE
  BY DEF DevInv
<1>2. PICK n \in 0 .. len, a \in Seq(Nat) :
           /\ n = Fits(TRUE, len)
           /\ down' = down \o a /\ down' \in Seq(Nat) /\ Len(down') <= DOWN_SIZE
           /\ Len(a) = HDR + n
           /\ \A i \in 1 .. HDR : a[i] = Response(q, len)[i]
           /\ \A i \in 1 .. n : a[HDR + i] = src[off + i]
           /\ ctx' = [off |-> off + n, len |-> len - n]
           /\ \/ n = len /\ state' = "idle" /\ pkt_buf' = << >>
              \/ n < len /\ state' = "responding" /\ pkt_buf' = Response(q, len)
  BY <1>1, SendFirst
<1>3. n \in Nat /\ Len(a) = 7 + n /\ HDR = 7
  <2>1. n \in Nat
    OBVIOUS
  <2>2. Len(a) = HDR + n
    BY <1>2, Zenon
  <2> QED
    BY <2>1, <2>2 DEF HDR
<1>4. current_op(q) = p.op
  BY OpCases
<1>5. /\ a[1] = p.op + api_op_resp /\ a[2] = p.ep /\ a[3] = p.flags /\ a[4] = p.sn
      /\ a[7] = len
  <2>1. \A i \in 1 .. 7 : a[i] = Response(q, len)[i]
    BY <1>2, <1>3
  <2>2. /\ a[1] = Response(q, len)[1] /\ a[2] = Response(q, len)[2] /\ a[3] = Response(q, len)[3]
        /\ a[4] = Response(q, len)[4] /\ a[7] = Response(q, len)[7]
    BY <2>1
  <2>3. /\ Response(q, len)[1] = current_op(q) + api_op_resp
        /\ Response(q, len)[2] = q.ep /\ Response(q, len)[3] = q.flags
        /\ Response(q, len)[4] = q.sn /\ Response(q, len)[7] = len
    BY ResponseFacts
  <2> QED
    BY <2>2, <2>3, <1>4
<1>6. CASE n = len /\ state' = "idle" /\ pkt_buf' = << >>
  <2>1. Left' = 0
    BY <1>6 DEF Left
  <2>2. Len(a) >= HDR /\ Len(a) + Left' = HDR + len
    BY <1>3, <1>6, <2>1
  <2>3. down' = down \o a /\ state' # "processing"
    BY <1>2, <1>6
  <2>4. Replies(p, p.flags, len)
    BY <1>5, <1>6, <2>2, <2>3 DEF Replies
  <2>5. << >> \in Seq(Nat)
    OBVIOUS
  <2> QED
    BY <1>2, <1>6, <2>4, <2>5 DEF HeaderSent
<1>7. CASE n < len /\ state' = "responding" /\ pkt_buf' = Response(q, len)
  <2>1. /\ pkt_buf' \in Seq(Nat) /\ Len(pkt_buf') = HDR
        /\ current_op(pkt') = p.op /\ pkt'.ep = p.ep
    BY <1>4, <1>7, ResponseFacts DEF pkt
  <2>2. Left' = ctx'.len
    BY <2>1, <1>7 DEF Left
  <2>3. Left' = len - n
    BY <2>2, <1>2
  <2>4. Left' > 0 /\ Len(a) >= HDR /\ Len(a) + Left' = HDR + len
    BY <2>3, <1>3, <1>7
  <2>5. down' = down \o a /\ state' # "processing" /\ state' # "idle"
    BY <1>2, <1>7
  <2>6. Replies(p, p.flags, len)
    BY <1>5, <1>7, <2>4, <2>5 DEF Replies
  <2> QED
    BY <1>2, <1>7, <2>1, <2>4, <2>6 DEF HeaderSent
<1> QED
  BY <1>2, <1>6, <1>7 DEF HeaderSent

(* What the invariant asks of the device once it is idle again. *)
LEMMA IdleAgain ==
  ASSUME DevType', state' = "idle", pkt_buf' = << >>, ~halted', Len(down') <= DOWN_SIZE,
         EchoFits'
  PROVE  DevInv'
<1>1. IdleOK'
  <2>1. Len(pkt_buf') = 0
    OBVIOUS
  <2> QED
    BY <2>1 DEF IdleOK, HDR
<1> QED
  BY <1>1 DEF DevInv

LEMMA Refused ==
  ASSUME DevInv, HasRoom, NEW p \in Header, p.op < api_op_resp, NEW in \in Seq(Nat),
         NEW err \in {api_fl_err_ep, api_fl_err_op, api_fl_err_sz},
         PacketVerdict(p) = err, api_op_complete_err(p, err), up' = in
  PROVE  Begins(p, in) /\ DevInv'
<1> DEFINE f == IF (p.flags \div err) % 2 = 1 THEN p.flags ELSE p.flags + err
           q == [p EXCEPT !.flags = f]
           a == Response(q, 0)
<1>1. /\ down' = down \o a /\ state' = "idle" /\ pkt_buf' = << >>
      /\ UNCHANGED <<ctx, epVars, halted>>
  BY DEF api_op_complete_err, api_op_complete
<1>2. p.flags \in Nat /\ err \in Nat /\ err # 0
  BY DEF Header, api_fl_err_ep, api_fl_err_op, api_fl_err_sz
<1>3. f \in Nat /\ (p.flags = 0 => f = err)
  <2>1. CASE p.flags = 0
    BY <2>1, <1>2 DEF api_fl_err_ep, api_fl_err_op, api_fl_err_sz
  <2>2. CASE p.flags # 0
    BY <2>2, <1>2
  <2> QED
    BY <2>1, <2>2
<1>4. q \in Header /\ q.op = p.op /\ q.ep = p.ep /\ q.flags = f /\ q.sn = p.sn
  <2> HIDE DEF f
  <2> QED
    BY <1>3 DEF Header
<1> HIDE DEF f, q
<1>5. /\ a \in Seq(Nat) /\ Len(a) = HDR /\ a[1] = p.op + api_op_resp /\ a[2] = p.ep
      /\ a[3] = f /\ a[4] = p.sn /\ a[7] = 0
  <2>1. current_op(q) = p.op
    BY <1>4, OpCases
  <2>3. /\ Response(q, 0)[1] = current_op(q) + api_op_resp
        /\ Response(q, 0)[2] = q.ep /\ Response(q, 0)[3] = q.flags
        /\ Response(q, 0)[4] = q.sn /\ Response(q, 0)[7] = 0
    BY <1>4, ResponseFacts
  <2>4. a \in Seq(Nat) /\ Len(a) = HDR
    BY <1>4, ResponseFacts
  <2> QED
    BY <1>4, <2>1, <2>3, <2>4
<1> HIDE DEF a
<1>6. down' \in Seq(Nat) /\ Len(down') <= DOWN_SIZE
  BY <1>1, <1>5, Longer DEF DevInv, HasRoom
<1>7. Left' = 0
  BY <1>1 DEF Left
<1>8. Len(a) >= HDR /\ Len(a) + Left' = HDR + 0
  BY <1>5, <1>7 DEF HDR
<1>9. Replies(p, f, 0)
  BY <1>1, <1>5, <1>8 DEF Replies
<1>10. ~AcceptedWrite(p)
  BY <1>2 DEF AcceptedWrite
<1>11. Begins(p, in)
  BY <1>2, <1>3, <1>9, <1>10 DEF Begins
<1>12. DevType' /\ ~halted' /\ EchoFits'
  BY <1>1, <1>6 DEF DevInv, DevType, EchoFits, epVars
<1> QED
  BY <1>1, <1>6, <1>11, <1>12, IdleAgain

(* A request no check of api_start_ep_req has refused.                     *)
InOrder(p) ==
  /\ p \in Header /\ p.op < api_op_resp
  /\ ~WrongSize(p)
  /\ p.ep \in DOMAIN EpOps
  /\ p.op \in EpOps[p.ep]

(* Its verdict is the callback's. *)
LEMMA InOrderFacts ==
  ASSUME DevInv, NEW p, InOrder(p)
  PROVE  /\ p \in Header /\ p.op \in Nat /\ p.ep \in Nat /\ p.flags \in Nat /\ p.sn \in Nat
         /\ p.p1 \in Nat /\ p.p2 \in Nat /\ p.data_len \in Nat
         /\ current_op(p) = p.op
         /\ is_data_write_op(p.op) <=> p.data_len # 0
         /\ PacketVerdict(p) =
              IF p.op \in {api_op_buf_rd, api_op_buf_wr} /\ p.p1 + p.p2 > buf_sz(p.ep)
              THEN api_fl_err_sz
              ELSE IF p.op = api_op_buf_wr /\ p.p2 # p.data_len THEN api_fl_err_sz
              ELSE 0
<1>1. /\ p \in Header /\ p.op \in Nat /\ p.ep \in Nat /\ p.flags \in Nat /\ p.sn \in Nat
      /\ p.p1 \in Nat /\ p.p2 \in Nat /\ p.data_len \in Nat
  BY DEF InOrder, Header
<1>2. current_op(p) = p.op
  BY <1>1, OpCases DEF InOrder
<1>3. is_data_write_op(p.op) <=> p.data_len # 0
  BY <1>2 DEF InOrder, WrongSize, is_data_write_op
<1>4. ~(is_data_write_op(p.op) # (p.data_len # 0))
  BY <1>2 DEF InOrder, WrongSize, is_data_write_op
<1> QED
  BY <1>1, <1>2, <1>3, <1>4 DEF InOrder, PacketVerdict

(* An answer with len bytes of payload has begun, and the device is in     *)
(* order.                                                                  *)
LEMMA ReplyBegins ==
  ASSUME NEW p, NEW in, p.flags \in Nat, NEW len \in Nat,
         Replies(p, p.flags, len), up' = in, PacketVerdict(p) = 0, ~is_data_write_op(p.op),
         p.op = api_op_buf_rd => len = p.p2, len <= 1 \/ len <= p.p2
  PROVE  Begins(p, in)
BY Zenon DEF Begins, AcceptedWrite

LEMMA InfoFirst ==
  ASSUME DevInv, HasRoom, NEW p, InOrder(p), NEW in \in Seq(Nat),
         p.op = api_op_info, api_ep_info_cb(p, TRUE), up' = in
  PROVE  Begins(p, in) /\ DevInv'
<1> DEFINE q == [p EXCEPT !.p1 = buf_sz(p.ep)]
           d == descr(p.ep)
           n == Fits(TRUE, Len(d))
<1>1. DevType /\ EchoFits /\ ~halted
  BY DEF DevInv
<1>2. /\ p \in Header /\ p.op < api_op_resp /\ p.ep \in DOMAIN EpOps
      /\ p.flags \in Nat /\ PacketVerdict(p) = 0
  BY InOrderFacts DEF InOrder, api_op_info, api_op_buf_rd, api_op_buf_wr
<1>3. d \in Seq(Nat) /\ Len(d) \in Nat /\ Len(d) <= 1 /\ buf_sz(p.ep) \in Nat
  BY <1>1, <1>2, EpFacts
<1>4. q \in Header /\ q.op = p.op /\ q.ep = p.ep /\ q.flags = p.flags /\ q.sn = p.sn
  BY <1>2, <1>3 DEF Header
<1>5. Send(q, TRUE, d, 0, Len(d)) /\ UNCHANGED <<epVars, halted>>
  BY DEF api_ep_info_cb
<1>6. /\ p.op # api_op_str_rd /\ p.op # api_op_buf_rd /\ ~is_data_write_op(p.op)
      /\ 0 + Len(d) <= Len(d)
  BY <1>3 DEF api_op_info, api_op_str_rd, api_op_buf_rd, is_data_write_op, api_op_buf_wr, api_op_str_wr
<1> HIDE DEF q, d
<1>7. HeaderSent(p, 0, Len(d))
  <2>1. p \in Header /\ q \in Header /\ d \in Seq(Nat) /\ 0 \in Nat /\ Len(d) \in Nat
    BY <1>2, <1>3, <1>4
  <2> QED
    BY <2>1, <1>2, <1>4, <1>5, <1>6, FirstReply
<1> HIDE DEF n
<1>8. n \in 0 .. Len(d) /\ ctx' = [off |-> 0 + n, len |-> Len(d) - n]
  BY <1>7 DEF HeaderSent, n
<1>9. DevType' /\ EchoFits' /\ ~halted'
  <2>1. ctx' \in [off : Nat, len : Nat]
    BY <1>3, <1>8
  <2> QED
    BY <1>1, <1>5, <1>7, <2>1 DEF HeaderSent, DevType, EchoFits, epVars
<1>10. ASSUME state' = "responding" PROVE RespondingOK'
  <2>1. ctx'.off + ctx'.len = Len(d)
    BY <1>3, <1>8
  <2>2. Len(descr(pkt'.ep)) = Len(d) /\ pkt'.ep \in DOMAIN EpOps
    BY <1>2, <1>7, <1>10 DEF HeaderSent, d
  <2> QED
    BY <1>7, <1>10, <2>1, <2>2 DEF HeaderSent, RespondingOK
<1>11. Begins(p, in)
  BY <1>2, <1>3, <1>6, <1>7, ReplyBegins DEF HeaderSent
<1>12. DevInv'
  BY <1>7, <1>9, <1>10, IdleAgain DEF HeaderSent, DevInv
<1> QED
  BY <1>11, <1>12

(* A read of the sequence asks for at least a byte, and a region does not  *)
(* wrap around.                                                            *)
Tame(p) ==
  /\ p.op = api_op_str_rd /\ p.ep = API_EP_SEQ => p.p2 > 0
  /\ p.op \in {api_op_buf_rd, api_op_buf_wr} => p.p1 + p.p2 < WORD

LEMMA SmallMod ==
  ASSUME NEW m \in Nat, m > 0, NEW x \in Nat, x < m
  PROVE  x % m = x
<1> DEFINE q == x \div m
           r == x % m
<1>1. x = (m * q) + r /\ q \in Int /\ r \in Int /\ 0 <= r /\ r < m
  OBVIOUS
<1>2. \A z \in Int : x = (m * z) + x => (((m * 0) + x) % m = x)
  OBVIOUS
<1> HIDE DEF q, r
<1>3. q = 0
  BY <1>1
<1>4. x = r
  BY <1>1, <1>3
<1> QED
  BY <1>4 DEF r

(* The device refuses a region that wraps nowhere if it leaves the buffer. *)
LEMMA RegionJudged ==
  ASSUME NEW p, p.p1 \in Nat, p.p2 \in Nat, p.p1 + p.p2 < WORD
  PROVE  OutOfBuffer(p) <=> p.p1 + p.p2 > buf_sz(p.ep)
<1>1. WORD \in Nat /\ WORD > 0
  BY DeviceAssumption DEF api_op_resp
<1>2. (p.p1 + p.p2) % WORD = p.p1 + p.p2
  <2> DEFINE x == p.p1 + p.p2
  <2>1. x \in Nat /\ x < WORD
    OBVIOUS
  <2> HIDE DEF x
  <2>2. x % WORD = x
    BY <1>1, <2>1, SmallMod
  <2> QED
    BY <2>2 DEF x
<1> QED
  BY <1>2 DEF OutOfBuffer

LEMMA BufReadFirst ==
  ASSUME DevInv, HasRoom, NEW p, InOrder(p), Tame(p), NEW in \in Seq(Nat),
         p.op = api_op_buf_rd, api_buf_rd(p, TRUE), up' = in
  PROVE  Begins(p, in) /\ DevInv'
<1> DEFINE b == Buf(p.ep)
           n == Fits(TRUE, p.p2)
<1>1. DevType /\ EchoFits /\ ~halted
  BY DEF DevInv
<1>2. /\ p \in Header /\ p.op < api_op_resp /\ p.ep \in DOMAIN EpOps
      /\ p.flags \in Nat /\ p.p1 \in Nat /\ p.p2 \in Nat
      /\ PacketVerdict(p) = IF p.p1 + p.p2 > buf_sz(p.ep) THEN api_fl_err_sz ELSE 0
  BY InOrderFacts DEF InOrder, api_op_buf_rd, api_op_buf_wr
<1>2a. OutOfBuffer(p) <=> p.p1 + p.p2 > buf_sz(p.ep)
  <2>1. p.p1 + p.p2 < WORD
    BY DEF Tame
  <2> QED
    BY <1>2, <2>1, RegionJudged
<1>3. p.ep \in {API_EP_SYS, API_EP_APP}
  BY EpOpsFacts DEF InOrder, api_op_buf_rd, api_op_info, api_op_str_rd, api_op_str_wr
<1>4. b \in Seq(Nat) /\ Len(b) = buf_sz(p.ep) /\ buf_sz(p.ep) \in Nat
  BY <1>1, <1>2, <1>3, EpFacts
<1>5. CASE OutOfBuffer(p)
  <2>1. api_op_complete_err(p, api_fl_err_sz) /\ PacketVerdict(p) = api_fl_err_sz
    BY <1>2, <1>2a, <1>5 DEF api_buf_rd
  <2> QED
    BY <1>2, <2>1, Refused
<1>6. CASE ~OutOfBuffer(p)
  <2>1. Send(p, TRUE, b, p.p1, p.p2) /\ UNCHANGED <<epVars, halted>> /\ PacketVerdict(p) = 0
    <3>1. p.p1 + p.p2 <= buf_sz(p.ep)
      BY <1>2, <1>2a, <1>4, <1>6
    <3>2. Found(p.ep, p.p1, p.p2) = {b}
      BY <3>1 DEF Found
    <3> QED
      BY <1>2, <1>2a, <1>6, <3>2 DEF api_buf_rd
  <2>2. /\ p.op # api_op_str_rd /\ ~is_data_write_op(p.op) /\ p.p1 + p.p2 <= Len(b)
    BY <1>2, <1>2a, <1>4, <1>6 DEF api_op_str_rd, api_op_buf_rd, is_data_write_op,
                                   api_op_buf_wr, api_op_str_wr
  <2> HIDE DEF b
  <2>3. HeaderSent(p, p.p1, p.p2)
    BY <1>2, <1>4, <2>1, <2>2, FirstReply
  <2> HIDE DEF n
  <2>4. n \in 0 .. p.p2 /\ ctx' = [off |-> p.p1 + n, len |-> p.p2 - n]
    BY <2>3 DEF HeaderSent, n
  <2>5. DevType' /\ EchoFits' /\ ~halted'
    <3>1. ctx' \in [off : Nat, len : Nat]
      BY <1>2, <2>4
    <3> QED
      BY <1>1, <2>1, <2>3, <3>1 DEF HeaderSent, DevType, EchoFits, epVars
  <2>6. ASSUME state' = "responding" PROVE RespondingOK'
    <3>1. ctx'.off + ctx'.len <= buf_sz(p.ep)
      BY <1>2, <1>4, <2>2, <2>4
    <3>2. pkt'.ep = p.ep
      BY <2>3, <2>6 DEF HeaderSent
    <3>3. buf_sz(pkt'.ep) = buf_sz(p.ep)
      BY <3>2
    <3> QED
      BY <1>3, <2>3, <2>6, <3>1, <3>2, <3>3 DEF HeaderSent, RespondingOK
  <2>7. Begins(p, in)
    BY <1>2, <2>1, <2>2, <2>3, ReplyBegins DEF HeaderSent
  <2>8. DevInv'
    BY <2>3, <2>5, <2>6, IdleAgain DEF HeaderSent, DevInv
  <2> QED
    BY <2>7, <2>8
<1> QED
  BY <1>5, <1>6

(* The echo buffer holds what is unread behind what has been read. *)
LEMMA EchoFacts ==
  ASSUME DevType, EchoFits
  PROVE  /\ echo.data \in Seq(Nat) /\ echo.read \in Nat /\ Len(echo.data) \in Nat
         /\ Unread \in Seq(Nat) /\ Len(Unread) = Len(echo.data) - echo.read
         /\ Len(Unread) \in Nat
<1>1. echo.data \in Seq(Nat) /\ echo.read \in Nat /\ echo.read <= Len(echo.data)
  BY DEF DevType, EchoFits
<1>2. Unread \in Seq(Nat) /\ Len(Unread) = Len(echo.data) - echo.read
  <2>1. /\ Drop(echo.data, echo.read) \in Seq(Nat)
        /\ Len(Drop(echo.data, echo.read)) = Len(echo.data) - echo.read
    BY <1>1, DropFacts
  <2> QED
    BY <2>1 DEF Unread
<1> QED
  BY <1>1, <1>2

LEMMA EchoReadFirst ==
  ASSUME DevInv, HasRoom, NEW p, InOrder(p), NEW in \in Seq(Nat),
         p.op = api_op_str_rd, p.ep = API_EP_ECHO, api_str_buf_rd(p, TRUE), up' = in
  PROVE  Begins(p, in) /\ DevInv'
<1> DEFINE len == MIN_(Len(Unread), p.p2)
           q == [p EXCEPT !.p1 = Len(Unread) - len]
           n == Fits(TRUE, len)
<1>1. DevType /\ EchoFits /\ ~halted
  BY DEF DevInv
<1>2. /\ p \in Header /\ p.op < api_op_resp
      /\ p.flags \in Nat /\ p.p2 \in Nat /\ PacketVerdict(p) = 0
  BY InOrderFacts DEF InOrder, api_op_str_rd, api_op_buf_rd, api_op_buf_wr
<1>3. /\ echo.data \in Seq(Nat) /\ echo.read \in Nat /\ Len(echo.data) \in Nat
      /\ Len(Unread) = Len(echo.data) - echo.read /\ Len(Unread) \in Nat
  BY <1>1, EchoFacts
<1>4. /\ len \in Nat /\ len <= p.p2 /\ len <= Len(Unread)
      /\ echo.read + len <= Len(echo.data) /\ Len(Unread) - len \in Nat
  BY <1>2, <1>3 DEF MIN_
<1>5. /\ Send(q, TRUE, echo.data, echo.read, len)
      /\ echo' = [echo EXCEPT !.read = ReadTo(p, TRUE)]
      /\ UNCHANGED <<app_buf, next_n, halted>>
  BY DEF api_str_buf_rd
<1>6. ReadTo(p, TRUE) = echo.read + n
  BY DEF ReadTo
<1>7. q \in Header /\ q.op = p.op /\ q.ep = p.ep /\ q.flags = p.flags /\ q.sn = p.sn
  <2> HIDE DEF len
  <2> QED
    BY <1>2, <1>4 DEF Header
<1> HIDE DEF q, len
<1>8. /\ ~(p.op = api_op_str_rd /\ p.ep = API_EP_SEQ)
      /\ p.op # api_op_buf_rd /\ ~is_data_write_op(p.op)
  BY DEF api_op_str_rd, api_op_buf_rd, is_data_write_op, api_op_buf_wr, api_op_str_wr,
         API_EP_SEQ, API_EP_ECHO
<1>9. HeaderSent(p, echo.read, len)
  BY <1>2, <1>3, <1>4, <1>5, <1>7, <1>8, FirstReply
<1> HIDE DEF n
<1>10. n \in 0 .. len /\ ctx' = [off |-> echo.read + n, len |-> len - n]
  BY <1>9 DEF HeaderSent, n
<1>11. /\ echo' \in [data : Seq(Nat), read : Nat]
       /\ echo'.read = echo.read + n /\ echo'.data = echo.data
  <2> DEFINE r == echo.read + n
  <2>1. echo' = [echo EXCEPT !.read = r]
    BY <1>5, <1>6, Zenon
  <2>2. r \in Nat
    BY <1>3, <1>4, <1>10
  <2>3. echo \in [data : Seq(Nat), read : Nat]
    BY <1>1 DEF DevType
  <2> HIDE DEF r
  <2>4. /\ echo' \in [data : Seq(Nat), read : Nat]
        /\ echo'.read = r /\ echo'.data = echo.data
    BY <2>1, <2>2, <2>3
  <2> QED
    BY <2>4 DEF r
<1>12. DevType' /\ EchoFits' /\ ~halted'
  <2>1. ctx' \in [off : Nat, len : Nat]
    BY <1>3, <1>4, <1>10
  <2>2. EchoFits'
    BY <1>1, <1>3, <1>4, <1>10, <1>11 DEF EchoFits
  <2> QED
    BY <1>1, <1>5, <1>9, <1>11, <2>1, <2>2 DEF HeaderSent, DevType
<1>13. ASSUME state' = "responding" PROVE RespondingOK'
  <2>1. echo'.read + ctx'.len <= Len(echo'.data)
    BY <1>3, <1>4, <1>10, <1>11
  <2> QED
    BY <1>9, <1>13, <2>1 DEF HeaderSent, RespondingOK
<1>14. Begins(p, in)
  BY <1>2, <1>4, <1>8, <1>9, ReplyBegins DEF HeaderSent
<1>15. DevInv'
  BY <1>9, <1>12, <1>13, IdleAgain DEF HeaderSent, DevInv
<1> QED
  BY <1>14, <1>15

LEMMA ModFacts ==
  ASSUME NEW x \in Nat, NEW y \in Nat, y > 0
  PROVE  x % y \in 0 .. y - 1
OBVIOUS

(* A chunk of the sequence. *)
LEMMA ChunkFacts ==
  ASSUME DevType, NEW n \in Nat
  PROVE  /\ [i \in 1 .. n |-> (next_n + i - 1) % (SEQ_MAX + 1)] \in Seq(Nat)
         /\ Len([i \in 1 .. n |-> (next_n + i - 1) % (SEQ_MAX + 1)]) = n
         /\ (next_n + n) % (SEQ_MAX + 1) \in Nat
<1>1. SEQ_MAX \in Nat /\ SEQ_MAX + 1 \in Nat /\ SEQ_MAX + 1 > 0
  BY DeviceAssumption DEF Byte, ALL_ONES, api_op_resp
<1>2. next_n \in Nat
  BY DEF DevType
<1> DEFINE e(i) == (next_n + i - 1) % (SEQ_MAX + 1)
           g == [i \in 1 .. n |-> e(i)]
<1>3. \A x \in Nat : x % (SEQ_MAX + 1) \in Nat
  <2> TAKE x \in Nat
  <2> DEFINE y == SEQ_MAX + 1
  <2>1. y \in Nat /\ y > 0
    BY <1>1
  <2> HIDE DEF y
  <2>2. x % y \in 0 .. y - 1
    BY <2>1, ModFacts
  <2>3. x % y \in Nat
    BY <2>1, <2>2
  <2> QED
    BY <2>3 DEF y
<1>4. \A i \in 1 .. n : e(i) \in Nat
  <2> TAKE i \in 1 .. n
  <2>1. next_n + i - 1 \in Nat
    BY <1>2
  <2> QED
    BY <2>1, <1>3
<1>5. (next_n + n) % (SEQ_MAX + 1) \in Nat
  <2>1. next_n + n \in Nat
    BY <1>2
  <2> QED
    BY <2>1, <1>3
<1> HIDE DEF e
<1>6. g \in Seq(Nat) /\ Len(g) = n
  BY <1>4
<1> QED
  BY <1>5, <1>6 DEF e

LEMMA SequenceFirst ==
  ASSUME DevInv, HasRoom, NEW p, InOrder(p), NEW in \in Seq(Nat), Tame(p),
         p.op = api_op_str_rd, p.ep = API_EP_SEQ, api_str_seq_rd(p, TRUE), up' = in
  PROVE  Begins(p, in) /\ DevInv'
<1> DEFINE p1 == [p EXCEPT !.p1 = ALL_ONES]
           s == Response(p1, p.p2)
           q == Fields(s)
           chunk == MIN_(CHUNK_SZ, q.data_len)
           n == Fits(TRUE, chunk)
           left == q.data_len - n
           g == [i \in 1 .. n |-> (next_n + i - 1) % (SEQ_MAX + 1)]
           a == Bytes(q) \o g
<1>1. DevType /\ EchoFits /\ ~halted /\ Len(down) <= DOWN_SIZE
  BY DEF DevInv
<1>2. /\ p \in Header /\ p.op < api_op_resp /\ p.op \in Nat
      /\ p.flags \in Nat /\ p.p2 \in Nat /\ p.p2 > 0 /\ PacketVerdict(p) = 0
  BY InOrderFacts DEF InOrder, Tame, api_op_str_rd, api_op_buf_rd, api_op_buf_wr
<1>3. p1 \in Header /\ p1.op = p.op /\ p1.ep = p.ep /\ p1.flags = p.flags /\ p1.sn = p.sn
  <2>1. ALL_ONES \in Nat
    BY DEF ALL_ONES, api_op_resp
  <2>2. p \in Header
    BY <1>2
  <2> QED
    BY <2>1, <2>2 DEF Header
<1> HIDE DEF p1
<1>4. current_op(p1) = p.op
  BY <1>2, <1>3, OpCases
<1>5. /\ q \in Header /\ q.op = p.op + api_op_resp /\ q.ep = p.ep /\ q.flags = p.flags
      /\ q.sn = p.sn /\ q.data_len = p.p2 /\ current_op(q) = p.op
  <2>1. /\ s \in Seq(Nat) /\ Len(s) = HDR /\ s[1] = p.op + api_op_resp /\ s[2] = p.ep
        /\ s[3] = p.flags /\ s[4] = p.sn /\ s[7] = p.p2
        /\ current_op(Fields(s)) = p.op
    <3>1. /\ s \in Seq(Nat) /\ Len(s) = HDR /\ s[1] = current_op(p1) + api_op_resp
          /\ s[2] = p1.ep /\ s[3] = p1.flags /\ s[4] = p1.sn /\ s[7] = p.p2
          /\ current_op(Fields(s)) = current_op(p1)
      BY <1>2, <1>3, ResponseFacts
    <3> HIDE DEF s
    <3> QED
      BY <3>1, <1>3, <1>4
  <2> HIDE DEF s
  <2>2. Len(s) >= HDR
    BY <2>1 DEF HDR
  <2> QED
    BY <2>1, <2>2, FieldsFacts
<1>6. /\ down' = (down \o Bytes(q)) \o g
      /\ next_n' = (next_n + n) % (SEQ_MAX + 1)
      /\ halted' = (q.data_len = 0)
      /\ UNCHANGED <<ctx, app_buf, echo>>
      /\ \/ left = 0 /\ q.data_len > 0 /\ state' = "idle" /\ pkt_buf' = << >>
         \/ /\ ~(left = 0 /\ q.data_len > 0)
            /\ state' = "responding" /\ pkt_buf' = Bytes([q EXCEPT !.data_len = left])
  BY DEF api_str_seq_rd, api_str_seq_advance, api_op_complete, p1
<1> HIDE DEF s, q
<1>7. /\ chunk \in Nat /\ chunk <= p.p2
      /\ n \in Nat /\ HDR + n <= Room /\ left \in Nat /\ left = p.p2 - n
  <2>1. chunk \in Nat /\ chunk <= p.p2
    BY <1>2, <1>5, DeviceAssumption DEF MIN_
  <2> HIDE DEF chunk
  <2>2. n \in 0 .. chunk /\ n <= Room - HDR /\ Room \in Nat
    BY <1>1, <2>1, RoomFacts
  <2> HIDE DEF n
  <2>3. n \in Nat /\ HDR + n <= Room /\ n <= p.p2
    BY <1>2, <2>1, <2>2 DEF HDR
  <2> QED
    BY <1>2, <1>5, <2>1, <2>3
<1> HIDE DEF chunk, n, left
<1>8. g \in Seq(Nat) /\ Len(g) = n /\ next_n' \in Nat
  BY <1>1, <1>6, <1>7, ChunkFacts
<1> HIDE DEF g
<1>9. /\ Bytes(q) \in Seq(Nat) /\ Len(Bytes(q)) = HDR
      /\ Bytes(q)[1] = p.op + api_op_resp /\ Bytes(q)[2] = p.ep /\ Bytes(q)[3] = p.flags
      /\ Bytes(q)[4] = p.sn /\ Bytes(q)[7] = p.p2
  BY <1>5, BytesFacts
<1>10. /\ a \in Seq(Nat) /\ Len(a) = HDR + n
       /\ \A i \in 1 .. HDR : a[i] = Bytes(q)[i]
  BY <1>8, <1>9, ConcatFacts
<1>11. down' = down \o a
  <2>1. down \in Seq(Nat) /\ Bytes(q) \in Seq(Nat) /\ g \in Seq(Nat)
    BY <1>1, <1>8, <1>9 DEF DevType
  <2>2. (down \o Bytes(q)) \o g = down \o (Bytes(q) \o g)
    BY <2>1, ConcatAssociative
  <2> QED
    BY <2>2, <1>6
<1>12. /\ a[1] = p.op + api_op_resp /\ a[2] = p.ep /\ a[3] = p.flags /\ a[4] = p.sn
       /\ a[7] = p.p2
  <2>1. \A i \in 1 .. 7 : a[i] = Bytes(q)[i]
    BY <1>10 DEF HDR
  <2> HIDE DEF a
  <2>2. /\ a[1] = Bytes(q)[1] /\ a[2] = Bytes(q)[2] /\ a[3] = Bytes(q)[3]
        /\ a[4] = Bytes(q)[4] /\ a[7] = Bytes(q)[7]
    BY <2>1
  <2> QED
    BY <2>2, <1>9
<1> HIDE DEF a
<1>13. down' \in Seq(Nat) /\ Len(down') <= DOWN_SIZE
  <2>1. Len(a) <= Room
    BY <1>7, <1>10
  <2> QED
    BY <2>1, <1>1, <1>10, <1>11, Longer
<1>14. ~halted' /\ EchoFits' /\ ctx' \in [off : Nat, len : Nat]
       /\ app_buf' \in [1 .. APP_SZ -> Nat] /\ echo' \in [data : Seq(Nat), read : Nat]
  <2>1. q.data_len # 0
    BY <1>2, <1>5
  <2>2. ~halted'
    BY <2>1, <1>6, Zenon
  <2> QED
    BY <1>1, <1>6, <2>2 DEF DevType, EchoFits
<1>17. \A l \in Nat : l = p.p2 - n => Len(a) >= HDR /\ Len(a) + l = HDR + p.p2
  <2>1. Len(a) = HDR + n /\ n \in Nat /\ p.p2 \in Nat
    BY <1>2, <1>7, <1>10
  <2> QED
    BY <2>1 DEF HDR
<1>15. CASE left = 0
  <2>1. state' = "idle" /\ pkt_buf' = << >>
    BY <1>2, <1>5, <1>6, <1>15
  <2>2. Left' = 0 /\ Len(a) >= HDR /\ Len(a) + Left' = HDR + p.p2
    <3>1. Left' = 0
      BY <2>1 DEF Left
    <3> QED
      BY <3>1, <1>7, <1>15, <1>17
  <2>3. Replies(p, p.flags, p.p2)
    BY <2>1, <2>2, <1>10, <1>11, <1>12 DEF Replies
  <2>4. DevType'
    BY <2>1, <1>1, <1>8, <1>13, <1>14 DEF DevType
  <2>5. DevInv'
    BY <2>1, <2>4, <1>13, <1>14, IdleAgain
  <2> QED
    BY <2>3, <2>5, <1>2, ReplyBegins DEF api_op_str_rd, api_op_buf_rd, is_data_write_op,
                                         api_op_buf_wr, api_op_str_wr
<1>16. CASE left # 0
  <2> DEFINE q2 == [q EXCEPT !.data_len = left]
  <2>1. state' = "responding" /\ pkt_buf' = Bytes(q2)
    BY <1>6, <1>16
  <2>2. q2 \in Header /\ q2.op = q.op /\ q2.ep = q.ep /\ q2.data_len = left
    BY <1>5, <1>7 DEF Header
  <2> HIDE DEF q2
  <2>3. pkt_buf' \in Seq(Nat) /\ Len(pkt_buf') = HDR /\ pkt' = q2
    BY <2>1, <2>2, BytesFacts, FieldsOfBytes DEF pkt
  <2>4. current_op(pkt') = p.op /\ pkt'.ep = p.ep /\ pkt'.data_len = left
    BY <2>2, <2>3, <1>5 DEF current_op
  <2>5. Left' = left /\ Left' > 0
    BY <2>1, <2>4, <1>7, <1>16 DEF Left
  <2>6. Len(a) >= HDR /\ Len(a) + Left' = HDR + p.p2
    BY <2>5, <1>7, <1>17
  <2>7. Replies(p, p.flags, p.p2)
    BY <2>1, <2>6, <1>10, <1>11, <1>12 DEF Replies
  <2>8. DevType'
    BY <2>1, <2>3, <1>1, <1>8, <1>13, <1>14 DEF DevType
  <2>9. RespondingOK'
    BY <2>3, <2>4, <2>5 DEF RespondingOK
  <2>10. DevInv'
    BY <2>1, <2>8, <2>9, <1>13, <1>14 DEF DevInv
  <2> QED
    BY <2>7, <2>10, <1>2, ReplyBegins DEF api_op_str_rd, api_op_buf_rd, is_data_write_op,
                                          api_op_buf_wr, api_op_str_wr
<1> QED
  BY <1>15, <1>16

(* The answer to a write that has all of its payload. *)
LEMMA Acknowledged ==
  ASSUME DevType, Len(down) <= DOWN_SIZE, HasRoom, NEW p \in Header, p.op < api_op_resp,
         NEW q \in Header, q.op = p.op, q.ep = p.ep, q.flags = p.flags, q.sn = p.sn,
         down' = down \o Response(q, 0), state' = "idle", pkt_buf' = << >>
  PROVE  Replies(p, p.flags, 0) /\ down' \in Seq(Nat) /\ Len(down') <= DOWN_SIZE
<1> DEFINE a == Response(q, 0)
<1>1. current_op(q) = p.op
  BY OpCases
<1>2. /\ a \in Seq(Nat) /\ Len(a) = HDR /\ a[1] = current_op(q) + api_op_resp /\ a[2] = q.ep
      /\ a[3] = q.flags /\ a[4] = q.sn /\ a[7] = 0
  BY ResponseFacts
<1> HIDE DEF a
<1>3. /\ a[1] = p.op + api_op_resp /\ a[2] = p.ep /\ a[3] = p.flags /\ a[4] = p.sn
  BY <1>1, <1>2
<1>4. down' = down \o a
  BY DEF a
<1>5. Len(a) <= Room
  BY <1>2, RoomFacts DEF HDR
<1>6. down' \in Seq(Nat) /\ Len(down') <= DOWN_SIZE
  BY <1>2, <1>4, <1>5, Longer
<1>7. Left' = 0 /\ Len(a) >= HDR /\ Len(a) + Left' = HDR + 0
  BY <1>2 DEF Left, HDR
<1>8. Replies(p, p.flags, 0)
  BY <1>2, <1>3, <1>4, <1>7 DEF Replies
<1> QED
  BY <1>6, <1>8

(* What is placed inside of the buffer. *)
Overlaid(in, off, n) ==
  [i \in 1 .. APP_SZ |-> IF i \in off + 1 .. off + n THEN in[i - off] ELSE app_buf[i]]

LEMMA PlacedInside ==
  ASSUME NEW in, NEW off \in Nat, NEW n \in Nat, off + n <= APP_SZ
  PROVE  Placed(in, off, n) = Overlaid(in, off, n)
<1>1. APP_SZ \in Nat /\ WORD \in Nat /\ WORD > 0 /\ APP_SZ < WORD
  BY DeviceAssumption DEF api_op_resp
<1>2. ASSUME NEW k \in 1 .. n
      PROVE  (off + k - 1) % WORD = off + k - 1
  <2> DEFINE x == off + k - 1
  <2>1. x \in Nat /\ x < WORD
    BY <1>1
  <2> HIDE DEF x
  <2>2. x % WORD = x
    BY <1>1, <2>1, SmallMod
  <2> QED
    BY <2>2 DEF x
<1> DEFINE at(i) == {k \in 1 .. n : (off + k - 1) % WORD = i - 1}
<1>3. ASSUME NEW i \in 1 .. APP_SZ
      PROVE  (IF at(i) = {} THEN app_buf[i] ELSE in[CHOOSE k \in at(i) : TRUE])
             = IF i \in off + 1 .. off + n THEN in[i - off] ELSE app_buf[i]
  <2>1. CASE i \in off + 1 .. off + n
    <3>1. i - off \in 1 .. n /\ off + (i - off) - 1 = i - 1
      BY <2>1
    <3>2. (off + (i - off) - 1) % WORD = i - 1
      BY <1>2, <3>1
    <3>3. at(i) = {i - off}
      <4>1. i - off \in at(i)
        BY <3>1, <3>2
      <4>2. ASSUME NEW k \in at(i) PROVE k = i - off
        <5>1. k \in 1 .. n /\ off + k - 1 = i - 1
          BY <1>2
        <5> QED
          BY <5>1
      <4> QED
        BY <4>1, <4>2
    <3>4. (CHOOSE k \in at(i) : TRUE) = i - off
      BY <3>3
    <3> QED
      BY <2>1, <3>3, <3>4
  <2>2. CASE i \notin off + 1 .. off + n
    <3>1. ASSUME NEW k \in at(i) PROVE FALSE
      <4>1. k \in 1 .. n /\ off + k - 1 = i - 1
        BY <1>2
      <4> QED
        BY <2>2, <4>1
    <3> QED
      BY <2>2, <3>1
  <2> QED
    BY <2>1, <2>2
<1> QED
  BY <1>3 DEF Placed, Overlaid

(* A call for a write to the application's buffer. *)
LEMMA FillFacts ==
  ASSUME DevType, NEW p \in Header, NEW in \in Seq(Nat),
         NEW off \in Nat, NEW len \in Nat, off + len <= APP_SZ, Fill(p, in, off, len)
  PROVE  \E n \in 0 .. len :
           /\ n <= Len(in) /\ (in # << >> /\ len > 0 => n > 0)
           /\ up' = Drop(in, n) /\ up' \in Seq(Nat)
           /\ app_buf' = Placed(in, off, n) /\ app_buf' \in [1 .. APP_SZ -> Nat]
           /\ ctx' = [off |-> off + n, len |-> len - n]
           /\ ctx' \in [off : Nat, len : Nat]
           /\ UNCHANGED <<echo, next_n, halted>>
           /\ \/ n = len /\ down' = down \o Response(p, 0)
                 /\ state' = "idle" /\ pkt_buf' = << >>
              \/ n < len /\ down' = down /\ state' = "processing" /\ pkt_buf' = Bytes(p)
<1> DEFINE n == MIN_(len, Len(in))
<1>1. n \in 0 .. len /\ n \in Nat /\ n <= Len(in) /\ (in # << >> /\ len > 0 => n > 0)
  BY DEF MIN_
<1>2. /\ app_buf' = Placed(in, off, n)
      /\ up' = Drop(in, n)
      /\ ctx' = [off |-> off + n, len |-> len - n]
      /\ UNCHANGED <<echo, next_n, halted>>
      /\ \/ n = len /\ down' = down \o Response(p, 0) /\ state' = "idle" /\ pkt_buf' = << >>
         \/ n # len /\ state' = "processing" /\ pkt_buf' = Bytes(p) /\ down' = down
  BY DEF Fill, api_op_complete
<1> HIDE DEF n
<1>3. up' \in Seq(Nat)
  BY <1>1, <1>2, DropFacts
<1>4. app_buf' \in [1 .. APP_SZ -> Nat]
  <2>1. APP_SZ \in Nat
    BY DeviceAssumption
  <2>2. \A i \in 1 .. APP_SZ :
          (IF i \in off + 1 .. off + n THEN in[i - off] ELSE app_buf[i]) \in Nat
    <3> TAKE i \in 1 .. APP_SZ
    <3>1. CASE i \in off + 1 .. off + n
      <4>1. i - off \in 1 .. Len(in)
        BY <1>1, <3>1
      <4>2. in[i - off] \in Nat
        BY <4>1, ElementOfSeq
      <4> QED
        BY <3>1, <4>2
    <3>2. CASE i \notin off + 1 .. off + n
      BY <3>2 DEF DevType
    <3> QED
      BY <3>1, <3>2
  <2>3. off + n <= APP_SZ /\ n \in Nat
    BY <1>1, <2>1
  <2>4. app_buf' = [i \in 1 .. APP_SZ |->
                      IF i \in off + 1 .. off + n THEN in[i - off] ELSE app_buf[i]]
    <3>1. off \in Nat /\ n \in Nat /\ off + n <= APP_SZ
      BY <2>3
    <3>2. Placed(in, off, n) = Overlaid(in, off, n)
      BY <3>1, PlacedInside, Zenon
    <3> QED
      BY <1>2, <3>2 DEF Overlaid
  <2> QED
    BY <2>2, <2>4
<1>5. ctx' \in [off : Nat, len : Nat]
  BY <1>1, <1>2
<1>6. n # len => n < len
  BY <1>1
<1> QED
  BY <1>1, <1>2, <1>3, <1>4, <1>5, <1>6

LEMMA BufWriteFirst ==
  ASSUME DevInv, HasRoom, NEW p, InOrder(p), Tame(p), NEW in \in Seq(Nat),
         p.op = api_op_buf_wr, api_buf_wr(p, in, TRUE)
  PROVE  Begins(p, in) /\ DevInv'
<1>1. DevType /\ EchoFits /\ ~halted /\ Len(down) <= DOWN_SIZE
  BY DEF DevInv
<1>2. /\ p \in Header /\ p.op < api_op_resp /\ p.ep \in DOMAIN EpOps
      /\ p.flags \in Nat /\ p.p1 \in Nat /\ p.p2 \in Nat /\ p.data_len \in Nat
      /\ p.data_len # 0 /\ is_data_write_op(p.op)
      /\ PacketVerdict(p) = IF p.p1 + p.p2 > buf_sz(p.ep) \/ p.data_len # p.p2
                            THEN api_fl_err_sz ELSE 0
  BY InOrderFacts DEF InOrder, api_op_buf_rd, api_op_buf_wr, is_data_write_op
<1>2a. BadWrite(p) <=> p.p1 + p.p2 > buf_sz(p.ep) \/ p.data_len # p.p2
  <2>1. p.p1 + p.p2 < WORD
    BY DEF Tame
  <2>2. OutOfBuffer(p) <=> p.p1 + p.p2 > buf_sz(p.ep)
    BY <1>2, <2>1, RegionJudged
  <2> QED
    BY <2>2 DEF BadWrite
<1>3. p.ep = API_EP_APP /\ buf_sz(p.ep) = APP_SZ
  <2>1. p.ep = API_EP_APP
    BY EpOpsFacts DEF InOrder, api_op_buf_wr, api_op_buf_rd, api_op_info, api_op_str_rd, api_op_str_wr
  <2> QED
    BY <2>1 DEF buf_sz, API_EP_SYS, API_EP_APP, API_EP_SEQ, API_EP_ECHO
<1>4. CASE BadWrite(p)
  <2>1. api_op_complete_err(p, api_fl_err_sz) /\ up' = in /\ PacketVerdict(p) = api_fl_err_sz
    BY <1>2, <1>2a, <1>4 DEF api_buf_wr
  <2> QED
    BY <1>2, <2>1, Refused
<1>5. CASE ~BadWrite(p)
  <2>1. Fill(p, in, p.p1, p.p2) /\ AcceptedWrite(p)
    BY <1>2, <1>2a, <1>5 DEF api_buf_wr, AcceptedWrite
  <2>2. p.p1 + p.p2 <= APP_SZ /\ p.data_len = p.p2
    <3>1. ~(p.p1 + p.p2 > APP_SZ) /\ p.data_len = p.p2
      BY <1>2a, <1>3, <1>5
    <3>2. APP_SZ \in Nat
      BY DeviceAssumption
    <3> QED
      BY <1>2, <3>1, <3>2
  <2>3. PICK n \in 0 .. p.p2 :
           /\ n <= Len(in) /\ (in # << >> /\ p.p2 > 0 => n > 0)
           /\ up' = Drop(in, n) /\ up' \in Seq(Nat)
           /\ app_buf' = Placed(in, p.p1, n) /\ app_buf' \in [1 .. APP_SZ -> Nat]
           /\ ctx' = [off |-> p.p1 + n, len |-> p.p2 - n]
           /\ ctx' \in [off : Nat, len : Nat]
           /\ UNCHANGED <<echo, next_n, halted>>
           /\ \/ n = p.p2 /\ down' = down \o Response(p, 0)
                 /\ state' = "idle" /\ pkt_buf' = << >>
              \/ n < p.p2 /\ down' = down /\ state' = "processing" /\ pkt_buf' = Bytes(p)
    BY <1>1, <1>2, <2>1, <2>2, FillFacts
  <2>4. EchoFits' /\ ~halted'
    BY <1>1, <2>3 DEF EchoFits
  <2>5. CASE n = p.p2 /\ down' = down \o Response(p, 0) /\ state' = "idle" /\ pkt_buf' = << >>
    <3>1. Replies(p, p.flags, 0) /\ down' \in Seq(Nat) /\ Len(down') <= DOWN_SIZE
      BY <1>1, <1>2, <2>5, Acknowledged
    <3>2. Begins(p, in)
      BY <2>1, <2>2, <2>3, <2>5, <3>1 DEF Begins
    <3>3. DevType'
      BY <1>1, <2>3, <2>5, <3>1 DEF DevType
    <3> QED
      BY <2>4, <2>5, <3>1, <3>2, <3>3, IdleAgain
  <2>6. CASE n < p.p2 /\ down' = down /\ state' = "processing" /\ pkt_buf' = Bytes(p)
    <3>1. pkt_buf' \in Seq(Nat) /\ Len(pkt_buf') = HDR /\ pkt' = p
      BY <1>2, <2>6, BytesFacts, FieldsOfBytes DEF pkt
    <3>2. current_op(pkt') = api_op_buf_wr
      BY <1>2, <3>1, OpCases
    <3>3. Need' = ctx'.len
      BY <2>6, <3>2 DEF Need
    <3>4. Need' = p.data_len - n /\ Need' > 0 /\ ctx'.off + ctx'.len <= APP_SZ
      <4>1. ctx'.off = p.p1 + n /\ ctx'.len = p.p2 - n /\ n \in 0 .. p.p2
        BY <2>3
      <4>2. p.p1 \in Nat /\ p.p2 \in Nat /\ APP_SZ \in Nat /\ p.p1 + p.p2 <= APP_SZ
        BY <1>2, <2>2, DeviceAssumption
      <4> QED
        BY <2>2, <2>6, <3>3, <4>1, <4>2
    <3>5. Begins(p, in)
      <4>1. Awaits(p)
        BY <2>6, <3>1 DEF Awaits
      <4>2. n \in 0 .. Len(in)
        BY <2>3
      <4> QED
        BY <2>1, <2>3, <3>4, <4>1, <4>2 DEF Begins
    <3>6. DevType'
      BY <1>1, <2>3, <2>6, <3>1 DEF DevType
    <3>7. ProcessingOK'
      BY <1>2, <1>3, <3>1, <3>4 DEF ProcessingOK
    <3>8. Len(down') <= DOWN_SIZE
      BY <1>1, <2>6
    <3> QED
      BY <2>4, <2>6, <3>5, <3>6, <3>7, <3>8 DEF DevInv
  <2> QED
    BY <2>3, <2>5, <2>6
<1> QED
  BY <1>4, <1>5

(* A call for a write to the echo endpoint: len bytes of the payload are   *)
(* to be stored behind e; n bytes are taken, and rest of the len are left. *)
Stored(p, in, e, len, n, rest) ==
  /\ n <= Len(in) /\ (in # << >> => n > 0)
  /\ up' = Drop(in, n) /\ up' \in Seq(Nat)
  /\ echo' = [e EXCEPT !.data = e.data \o Take(in, len - rest)]
  /\ rest <= len /\ len - rest <= Len(in) /\ (len > 0 => rest = len - n)
  /\ echo' \in [data : Seq(Nat), read : Nat] /\ EchoFits'
  /\ Len(echo'.data) + rest <= ECHO_BUF_SZ
  /\ ctx' \in [off : Nat, len : Nat] /\ ctx'.len = rest
  /\ rest <= p.data_len - n
  /\ UNCHANGED <<app_buf, next_n, halted>>
  /\ \/ n = p.data_len /\ down' = down \o Response(p, 0)
        /\ state' = "idle" /\ pkt_buf' = << >>
     \/ n < p.data_len /\ down' = down /\ state' = "processing"
        /\ pkt_buf' = Bytes([p EXCEPT !.data_len = p.data_len - n])

LEMMA StoreFacts ==
  ASSUME DevType, NEW p \in Header, NEW in \in Seq(Nat),
         NEW e \in [data : Seq(Nat), read : Nat], NEW len \in Nat,
         p.data_len > 0, len <= p.data_len,
         e.read <= Len(e.data), Len(e.data) + len <= ECHO_BUF_SZ,
         Store(p, in, e, len)
  PROVE  \E n \in 0 .. p.data_len, rest \in Nat : Stored(p, in, e, len, n, rest)
<1> DEFINE n == MIN_(ToTake(p, len), Len(in))
           left == p.data_len - n
           rest == IF len > 0 THEN len - n ELSE 0
<1>1. p.data_len \in Nat /\ ECHO_BUF_SZ \in Nat /\ Len(in) \in Nat /\ Len(e.data) \in Nat
  BY DeviceAssumption DEF Header
<1>2. /\ n \in 0 .. p.data_len /\ n \in Nat /\ n <= Len(in) /\ (in # << >> => n > 0)
      /\ (len > 0 => n <= len)
  BY <1>1 DEF ToTake, MIN_
<1>3. /\ echo' = IF len > 0 THEN [e EXCEPT !.data = e.data \o Take(in, n)] ELSE e
      /\ ctx' = [ctx EXCEPT !.len = rest]
      /\ up' = Drop(in, n)
      /\ UNCHANGED <<app_buf, next_n, halted>>
      /\ \/ left = 0 /\ down' = down \o Response(p, 0) /\ state' = "idle" /\ pkt_buf' = << >>
         \/ left # 0 /\ down' = down /\ state' = "processing"
            /\ pkt_buf' = Bytes([p EXCEPT !.data_len = left])
  BY DEF Store, AllTaken, api_op_complete
<1> HIDE DEF n
<1>4. /\ rest \in Nat /\ rest <= left /\ rest <= len /\ len - rest <= Len(in) /\ left \in Nat
      /\ len > 0 => rest = len - n
  BY <1>1, <1>2
<1>5. ctx' \in [off : Nat, len : Nat] /\ ctx'.len = rest
  <2> HIDE DEF rest
  <2> QED
    BY <1>3, <1>4 DEF DevType
<1>6. up' \in Seq(Nat)
  BY <1>2, <1>3, DropFacts
<1>7. /\ Take(in, n) \in Seq(Nat) /\ Len(Take(in, n)) = n
      /\ Take(in, 0) = << >>
  <2>1. Take(in, n) \in Seq(Nat) /\ Len(Take(in, n)) = n
    BY <1>2, TakeFacts
  <2>2. Take(in, 0) = << >>
    BY SubSeqEmpty DEF Take
  <2> QED
    BY <2>1, <2>2
<1>8. /\ echo' = [e EXCEPT !.data = e.data \o Take(in, len - rest)]
      /\ echo' \in [data : Seq(Nat), read : Nat] /\ EchoFits'
      /\ Len(echo'.data) + rest <= ECHO_BUF_SZ
  <2>1. CASE len > 0
    <3> DEFINE d == e.data \o Take(in, n)
    <3>1. d \in Seq(Nat) /\ Len(d) = Len(e.data) + n
      <4>1. e.data \in Seq(Nat) /\ Take(in, n) \in Seq(Nat)
        BY <1>7
      <4>2. d \in Seq(Nat) /\ Len(d) = Len(e.data) + Len(Take(in, n))
        BY <4>1, ConcatFacts
      <4> QED
        BY <4>2, <1>7
    <3>2. rest = len - n /\ len - rest = n
      BY <1>2, <2>1
    <3>3. echo' = [e EXCEPT !.data = d]
      BY <1>3, <2>1
    <3> HIDE DEF d, rest
    <3>4. echo' \in [data : Seq(Nat), read : Nat] /\ echo'.data = d /\ echo'.read = e.read
      BY <3>1, <3>3
    <3>5. EchoFits' /\ Len(echo'.data) + rest <= ECHO_BUF_SZ
      <4>1. Len(echo'.data) = Len(e.data) + n /\ rest = len - n /\ echo'.read = e.read
        BY <3>1, <3>2, <3>4
      <4>2. e.read \in Nat /\ n \in Nat /\ n <= len
        BY <1>2, <2>1
      <4> QED
        BY <4>1, <4>2, <1>1 DEF EchoFits
    <3> QED
      BY <3>2, <3>3, <3>4, <3>5 DEF d
  <2>2. CASE ~(len > 0)
    <3>1. rest = 0 /\ len = 0 /\ len - rest = 0
      BY <2>2
    <3>2. echo' = e
      BY <1>3, <2>2
    <3> HIDE DEF rest
    <3>3. e.data \o Take(in, len - rest) = e.data
      BY <3>1, <1>7, ConcatEmptySeq
    <3>4. e = [e EXCEPT !.data = e.data \o Take(in, len - rest)]
      BY <3>3
    <3>5. EchoFits' /\ Len(echo'.data) + rest <= ECHO_BUF_SZ
      BY <3>1, <3>2, <1>1 DEF EchoFits
    <3> QED
      BY <3>2, <3>4, <3>5
  <2> QED
    BY <2>1, <2>2
<1>9. /\ left = 0 => n = p.data_len
      /\ left # 0 => n < p.data_len
  BY <1>1, <1>2
<1> HIDE DEF rest
<1> QED
  BY <1>2, <1>3, <1>4, <1>5, <1>6, <1>8, <1>9 DEF Stored

LEMMA EchoWriteFirst ==
  ASSUME DevInv, HasRoom, NEW p, InOrder(p), NEW in \in Seq(Nat),
         p.op = api_op_str_wr, api_str_buf_wr(p, in, TRUE)
  PROVE  Begins(p, in) /\ DevInv'
<1> DEFINE e == EchoForWrite
           len == MIN_(ECHO_BUF_SZ - Len(e.data), p.data_len)
           q == [p EXCEPT !.p1 = len]
<1>1. DevType /\ EchoFits /\ ~halted /\ Len(down) <= DOWN_SIZE
  BY DEF DevInv
<1>2. /\ p \in Header /\ p.op < api_op_resp /\ p.ep \in DOMAIN EpOps
      /\ p.flags \in Nat /\ p.p1 \in Nat /\ p.p2 \in Nat /\ p.data_len \in Nat
      /\ p.data_len > 0 /\ is_data_write_op(p.op)
      /\ PacketVerdict(p) = 0
  BY InOrderFacts DEF InOrder, api_op_buf_rd, api_op_buf_wr, api_op_str_wr, is_data_write_op
<1>3. p.ep = API_EP_ECHO
  BY EpOpsFacts DEF InOrder, api_op_buf_wr, api_op_buf_rd, api_op_info, api_op_str_rd, api_op_str_wr
<1>4. AcceptedWrite(p)
  BY <1>2 DEF AcceptedWrite
<1>5. e \in [data : Seq(Nat), read : Nat] /\ e.read <= Len(e.data) /\ Len(e.data) <= ECHO_BUF_SZ
  <2>1. CASE Unread = << >>
    <3>1. e = [data |-> << >>, read |-> 0]
      BY <2>1 DEF EchoForWrite
    <3>2. ECHO_BUF_SZ \in Nat
      BY DeviceAssumption
    <3> QED
      BY <3>1, <3>2
  <2>2. CASE Unread # << >>
    BY <1>1, <2>2 DEF EchoForWrite, DevType, EchoFits
  <2> QED
    BY <2>1, <2>2
<1> HIDE DEF e
<1>6. len \in Nat /\ len <= p.data_len /\ Len(e.data) + len <= ECHO_BUF_SZ
  <2>1. ECHO_BUF_SZ \in Nat /\ Len(e.data) \in Nat
    BY <1>5, DeviceAssumption
  <2> QED
    BY <2>1, <1>2, <1>5 DEF MIN_
<1>7. Store(q, in, e, len)
  BY DEF api_str_buf_wr, e
<1> HIDE DEF len
<1>8. /\ q \in Header /\ q.op = p.op /\ q.ep = p.ep /\ q.flags = p.flags /\ q.sn = p.sn
      /\ q.data_len = p.data_len
  BY <1>2, <1>6 DEF Header
<1> HIDE DEF q
<1>9. PICK n \in 0 .. q.data_len, rest \in Nat : Stored(q, in, e, len, n, rest)
  <2>1. q.data_len > 0 /\ len <= q.data_len
    BY <1>2, <1>6, <1>8
  <2> QED
    BY <2>1, <1>1, <1>5, <1>6, <1>7, <1>8, StoreFacts
<1>13. /\ n <= Len(in) /\ (in # << >> => n > 0)
       /\ up' = Drop(in, n) /\ up' \in Seq(Nat)
       /\ echo' = [e EXCEPT !.data = e.data \o Take(in, len - rest)]
       /\ rest <= len /\ len - rest <= Len(in)
       /\ echo' \in [data : Seq(Nat), read : Nat] /\ EchoFits'
       /\ Len(echo'.data) + rest <= ECHO_BUF_SZ
       /\ ctx' \in [off : Nat, len : Nat] /\ ctx'.len = rest
       /\ rest <= q.data_len - n
       /\ UNCHANGED <<app_buf, next_n, halted>>
       /\ \/ n = q.data_len /\ down' = down \o Response(q, 0)
             /\ state' = "idle" /\ pkt_buf' = << >>
          \/ n < q.data_len /\ down' = down /\ state' = "processing"
             /\ pkt_buf' = Bytes([q EXCEPT !.data_len = q.data_len - n])
  BY <1>9 DEF Stored
<1>10. ~halted'
  BY <1>1, <1>13
<1>11. CASE n = q.data_len /\ down' = down \o Response(q, 0) /\ state' = "idle" /\ pkt_buf' = << >>
  <2>1. Replies(p, p.flags, 0) /\ down' \in Seq(Nat) /\ Len(down') <= DOWN_SIZE
    BY <1>1, <1>2, <1>8, <1>11, Acknowledged
  <2>2. Begins(p, in)
    BY <1>4, <1>8, <1>13, <1>11, <2>1 DEF Begins
  <2>3. DevType'
    BY <1>1, <1>13, <1>11, <2>1 DEF DevType
  <2> QED
    BY <1>13, <1>10, <1>11, <2>1, <2>2, <2>3, IdleAgain
<1>12. CASE n < q.data_len /\ down' = down /\ state' = "processing"
            /\ pkt_buf' = Bytes([q EXCEPT !.data_len = q.data_len - n])
  <2> DEFINE q2 == [q EXCEPT !.data_len = q.data_len - n]
  <2>1. n \in Nat /\ q.data_len - n \in Nat /\ q.data_len - n > 0
    BY <1>2, <1>8, <1>12
  <2>2. /\ q2 \in Header /\ q2.op = q.op /\ q2.ep = q.ep /\ q2.flags = q.flags /\ q2.sn = q.sn
        /\ q2.data_len = q.data_len - n
    BY <2>1, <1>8 DEF Header
  <2>3. pkt_buf' = Bytes(q2)
    BY <1>12
  <2> HIDE DEF q2
  <2>4. pkt_buf' \in Seq(Nat) /\ Len(pkt_buf') = HDR /\ pkt' = q2
    BY <2>2, <2>3, BytesFacts, FieldsOfBytes DEF pkt
  <2>5. current_op(pkt') = api_op_str_wr
    BY <1>2, <1>8, <2>2, <2>4, OpCases
  <2>6. Need' = pkt'.data_len
    BY <1>12, <2>5 DEF Need, api_op_str_wr, api_op_buf_wr
  <2>7. Need' = p.data_len - n /\ Need' > 0 /\ ctx'.len <= pkt'.data_len
    BY <1>8, <1>13, <2>1, <2>2, <2>4, <2>6
  <2>8. Begins(p, in)
    <3>1. Awaits(p)
      BY <1>8, <1>12, <2>2, <2>4 DEF Awaits
    <3>2. n \in 0 .. Len(in)
      BY <1>13, <2>1
    <3> QED
      BY <1>4, <1>13, <2>7, <3>1, <3>2 DEF Begins
  <2>9. DevType'
    BY <1>1, <1>13, <1>12, <2>4 DEF DevType
  <2>10. ProcessingOK'
    <3>1. pkt'.op < api_op_resp /\ pkt'.op = api_op_str_wr /\ pkt'.ep = API_EP_ECHO
      BY <1>2, <1>3, <1>8, <2>2, <2>4
    <3>2. Len(echo'.data) + ctx'.len <= ECHO_BUF_SZ
      BY <1>13
    <3> QED
      BY <2>4, <2>7, <3>1, <3>2 DEF ProcessingOK
  <2>11. Len(down') <= DOWN_SIZE
    BY <1>1, <1>12
  <2> QED
    BY <1>13, <1>10, <1>12, <2>8, <2>9, <2>10, <2>11 DEF DevInv
<1> QED
  BY <1>13, <1>11, <1>12

(* Whatever the header says, the device makes of it what Begins says.      *)
LEMMA Starts ==
  ASSUME DevInv, HasRoom, NEW p \in Header, p.op < api_op_resp, NEW in \in Seq(Nat),
         Tame(p), api_start_ep_req(p, in)
  PROVE  Begins(p, in) /\ DevInv'
<1>1. current_op(p) = p.op
  BY OpCases
<1>2. WrongSize(p) <=> is_data_write_op(p.op) # (p.data_len # 0)
  BY <1>1 DEF WrongSize, is_data_write_op
<1>3. CASE WrongSize(p) /\ api_op_complete_err(p, api_fl_err_sz) /\ up' = in
  <2>1. PacketVerdict(p) = api_fl_err_sz
    BY <1>2, <1>3 DEF PacketVerdict
  <2> QED
    BY <1>3, <2>1, Refused
<1>4. CASE /\ ~WrongSize(p) /\ p.ep \notin DOMAIN EpOps
           /\ api_op_complete_err(p, api_fl_err_ep) /\ up' = in
  <2>1. PacketVerdict(p) = api_fl_err_ep
    BY <1>2, <1>4 DEF PacketVerdict
  <2> QED
    BY <1>4, <2>1, Refused
<1>5. CASE /\ ~WrongSize(p) /\ p.ep \in DOMAIN EpOps /\ current_op(p) \notin EpOps[p.ep]
           /\ api_op_complete_err(p, api_fl_err_op) /\ up' = in
  <2>1. PacketVerdict(p) = api_fl_err_op
    BY <1>1, <1>2, <1>5 DEF PacketVerdict
  <2> QED
    BY <1>5, <2>1, Refused
<1>6. CASE /\ ~WrongSize(p) /\ p.ep \in DOMAIN EpOps /\ current_op(p) \in EpOps[p.ep]
           /\ Callback(p, in, TRUE)
  <2>1. InOrder(p)
    BY <1>1, <1>6 DEF InOrder
  <2>2. \/ p.op = api_op_info /\ api_ep_info_cb(p, TRUE) /\ up' = in
        \/ p.op = api_op_buf_rd /\ api_buf_rd(p, TRUE) /\ up' = in
        \/ p.op = api_op_buf_wr /\ api_buf_wr(p, in, TRUE)
        \/ p.op = api_op_str_rd /\ p.ep = API_EP_ECHO /\ api_str_buf_rd(p, TRUE) /\ up' = in
        \/ p.op = api_op_str_rd /\ p.ep = API_EP_SEQ /\ api_str_seq_rd(p, TRUE) /\ up' = in
        \/ p.op = api_op_str_wr /\ api_str_buf_wr(p, in, TRUE)
    BY <1>1, <1>6 DEF Callback
  <2> QED
    BY <2>1, <2>2, InfoFirst, BufReadFirst, BufWriteFirst, EchoReadFirst, SequenceFirst,
       EchoWriteFirst
<1> QED
  BY <1>3, <1>4, <1>5, <1>6 DEF api_start_ep_req

-----------------------------------------------------------------------------
(* Later calls                                                             *)

(* What a later call comes to.                                             *)
GoesOn ==
  \/ state = "responding" /\ up' = up /\ RepliesMore
  \/ /\ state = "processing"
     /\ \E m \in 1 .. Need :
          /\ m <= Len(up) /\ up' = Drop(up, m)
          /\ \/ Awaits(pkt) /\ Need' = Need - m
             \/ m = Need /\ Replies(pkt, pkt.flags, 0)

(* More of the payload is sent, from off on.                               *)
MoreSent(off) ==
  /\ RepliesMore
  /\ down' \in Seq(Nat) /\ Len(down') <= DOWN_SIZE
  /\ pkt_buf' \in Seq(Nat) /\ state' \in {"idle", "responding"}
  /\ Fits(FALSE, ctx.len) \in 0 .. ctx.len
  /\ ctx' = [off |-> off + Fits(FALSE, ctx.len), len |-> ctx.len - Fits(FALSE, ctx.len)]
  /\ ctx' \in [off : Nat, len : Nat]
  /\ state' = "idle" => pkt_buf' = << >>
  /\ state' = "responding" =>
       Len(pkt_buf') = HDR /\ Left' > 0 /\ pkt' = pkt

LEMMA PktFacts ==
  ASSUME DevType, Len(pkt_buf) = HDR
  PROVE  pkt \in Header /\ Fields(pkt_buf) = pkt
<1>1. Len(pkt_buf) >= HDR /\ pkt_buf \in Seq(Nat)
  BY DEF DevType, HDR
<1> QED
  BY <1>1, FieldsFacts DEF pkt

LEMMA LaterReply ==
  ASSUME DevInv, HasRoom, state = "responding", NEW src \in Seq(Nat), NEW off \in Nat,
         ~(current_op(pkt) = api_op_str_rd /\ pkt.ep = API_EP_SEQ),
         off + ctx.len <= Len(src), Send(pkt, FALSE, src, off, ctx.len)
  PROVE  MoreSent(off)
<1>1. /\ DevType /\ Len(down) <= DOWN_SIZE /\ Len(pkt_buf) = HDR
      /\ ctx.len \in Nat
  BY DEF DevInv, DevType, RespondingOK
<1>2. pkt \in Header
  BY <1>1, PktFacts
<1>3. PICK n \in 0 .. ctx.len, a \in Seq(Nat) :
           /\ n = Fits(FALSE, ctx.len)
           /\ down' = down \o a /\ down' \in Seq(Nat) /\ Len(down') <= DOWN_SIZE
           /\ Len(a) = n
           /\ \A i \in 1 .. n : a[i] = src[off + i]
           /\ ctx' = [off |-> off + n, len |-> ctx.len - n]
           /\ \/ n = ctx.len /\ state' = "idle" /\ pkt_buf' = << >>
              \/ n < ctx.len /\ state' = "responding" /\ pkt_buf' = Bytes(pkt)
  BY <1>1, SendMore
<1>4. n \in Nat /\ Len(a) = n /\ n <= ctx.len /\ n \in 0 .. ctx.len
  <2>1. ctx.len \in Nat
    BY <1>1
  <2>2. n \in 0 .. ctx.len
    OBVIOUS
  <2>3. Len(a) = n
    BY <1>3, Zenon
  <2> QED
    BY <2>1, <2>2, <2>3
<1>9. /\ n = Fits(FALSE, ctx.len)
      /\ down' = down \o a /\ down' \in Seq(Nat) /\ Len(down') <= DOWN_SIZE
      /\ ctx' = [off |-> off + n, len |-> ctx.len - n]
  BY <1>3, Zenon
<1>5. Left = ctx.len
  BY DEF Left
<1>6. ctx' \in [off : Nat, len : Nat] /\ ctx'.len = ctx.len - n
  <2>1. off + n \in Nat /\ ctx.len - n \in Nat
    BY <1>1, <1>4
  <2> QED
    BY <1>9, <2>1
<1>7. CASE n = ctx.len /\ state' = "idle" /\ pkt_buf' = << >>
  <2>1. Left' = 0
    BY <1>7 DEF Left
  <2>2. Len(a) + Left' = Left
    BY <1>1, <1>4, <1>5, <1>7, <2>1
  <2>3. RepliesMore
    BY <1>7, <1>9, <2>2 DEF RepliesMore
  <2>4. << >> \in Seq(Nat)
    OBVIOUS
  <2> QED
    BY <1>4, <1>6, <1>7, <1>9, <2>3, <2>4 DEF MoreSent
<1>8. CASE n < ctx.len /\ state' = "responding" /\ pkt_buf' = Bytes(pkt)
  <2>1. pkt_buf' \in Seq(Nat) /\ Len(pkt_buf') = HDR /\ pkt' = pkt
    <3>1. Fields(Bytes(pkt)) = pkt /\ Bytes(pkt) \in Seq(Nat) /\ Len(Bytes(pkt)) = HDR
      BY <1>2, BytesFacts, FieldsOfBytes
    <3>2. pkt' = Fields(pkt_buf')
      BY DEF pkt
    <3> QED
      BY <1>8, <3>1, <3>2
  <2>2. Left' = ctx'.len
    BY <1>8, <2>1 DEF Left
  <2>3. Left' = ctx.len - n
    BY <2>2, <1>6
  <2>4. Left' > 0 /\ Len(a) + Left' = Left
    <3>1. n < ctx.len
      BY <1>8, Zenon
    <3>2. ctx.len \in Nat
      BY <1>1
    <3>3. \A c, m \in Nat : m < c => c - m > 0 /\ m + (c - m) = c
      OBVIOUS
    <3>4. ctx.len - n > 0 /\ n + (ctx.len - n) = ctx.len
      BY <3>1, <3>2, <3>3, <1>4
    <3> QED
      BY <3>4, <1>4, <1>5, <2>3
  <2>5. RepliesMore
    BY <1>8, <1>9, <2>4 DEF RepliesMore
  <2> QED
    BY <1>4, <1>6, <1>8, <1>9, <2>1, <2>4, <2>5 DEF MoreSent
<1> QED
  BY <1>3, <1>7, <1>8

LEMMA InfoMore ==
  ASSUME DevInv, HasRoom, state = "responding", current_op(pkt) = api_op_info,
         api_ep_info_cb(pkt, FALSE), up' = up
  PROVE  GoesOn /\ DevInv'
<1> DEFINE d == descr(pkt.ep)
<1>1. DevType /\ EchoFits /\ ~halted /\ RespondingOK
  BY DEF DevInv
<1>2. /\ pkt.ep \in DOMAIN EpOps /\ ctx.off + ctx.len = Len(d)
      /\ Left = ctx.len /\ ctx.len > 0 /\ ctx.off \in Nat /\ ctx.len \in Nat
  BY <1>1 DEF RespondingOK, Left, DevType, api_op_info, api_op_buf_rd, api_op_str_rd
<1>3. d \in Seq(Nat)
  BY <1>1, <1>2, EpFacts
<1>4. Send(pkt, FALSE, d, ctx.off, ctx.len) /\ UNCHANGED <<epVars, halted>>
  <2>1. ctx.len # 0
    BY <1>2
  <2> QED
    BY <2>1 DEF api_ep_info_cb
<1>5. MoreSent(ctx.off)
  <2> HIDE DEF d
  <2>1. ctx.off + ctx.len <= Len(d)
    BY <1>2
  <2>2. ~(current_op(pkt) = api_op_str_rd /\ pkt.ep = API_EP_SEQ)
    BY DEF api_op_info, api_op_str_rd
  <2> QED
    BY <2>1, <2>2, <1>2, <1>3, <1>4, LaterReply
<1>6. DevType' /\ EchoFits' /\ ~halted'
  BY <1>1, <1>4, <1>5 DEF MoreSent, DevType, EchoFits, epVars
<1>7. ASSUME state' = "responding" PROVE RespondingOK'
  <2>1. pkt' = pkt /\ Len(pkt_buf') = HDR /\ Left' > 0
    BY <1>5, <1>7 DEF MoreSent
  <2>2. ctx'.off + ctx'.len = Len(d)
    <3>1. \A n \in 0 .. ctx.len : ctx.off + n + (ctx.len - n) = ctx.off + ctx.len
      BY <1>2
    <3> QED
      BY <3>1, <1>2, <1>5 DEF MoreSent
  <2>3. current_op(pkt') = api_op_info /\ pkt'.ep \in DOMAIN EpOps /\ descr(pkt'.ep) = d
    BY <1>2, <2>1
  <2> QED
    BY <2>1, <2>2, <2>3 DEF RespondingOK
<1>8. DevInv'
  BY <1>5, <1>6, <1>7, IdleAgain DEF MoreSent, DevInv
<1> QED
  BY <1>5, <1>8 DEF GoesOn, MoreSent

LEMMA BufReadMore ==
  ASSUME DevInv, HasRoom, state = "responding", current_op(pkt) = api_op_buf_rd,
         api_buf_rd(pkt, FALSE), up' = up
  PROVE  GoesOn /\ DevInv'
<1> DEFINE b == Buf(pkt.ep)
<1>1. DevType /\ EchoFits /\ ~halted /\ RespondingOK
  BY DEF DevInv
<1>2. /\ pkt.ep \in {API_EP_SYS, API_EP_APP} /\ ctx.off + ctx.len <= buf_sz(pkt.ep)
      /\ Left = ctx.len /\ ctx.len > 0 /\ ctx.off \in Nat /\ ctx.len \in Nat
  BY <1>1 DEF RespondingOK, Left, DevType, api_op_info, api_op_buf_rd, api_op_str_rd
<1>3. b \in Seq(Nat) /\ Len(b) = buf_sz(pkt.ep)
  BY <1>1, <1>2, EpFacts, EpOpsFacts
<1>4. Send(pkt, FALSE, b, ctx.off, ctx.len) /\ UNCHANGED <<epVars, halted>>
  <2>1. ctx.len # 0
    BY <1>2
  <2>2. Found(pkt.ep, ctx.off, ctx.len) = {b}
    BY <1>2 DEF Found
  <2> QED
    BY <2>1, <2>2 DEF api_buf_rd
<1>5. MoreSent(ctx.off)
  <2> HIDE DEF b
  <2>1. ctx.off + ctx.len <= Len(b)
    BY <1>2, <1>3
  <2>2. ~(current_op(pkt) = api_op_str_rd /\ pkt.ep = API_EP_SEQ)
    BY DEF api_op_buf_rd, api_op_str_rd
  <2> QED
    BY <2>1, <2>2, <1>2, <1>3, <1>4, LaterReply
<1>6. DevType' /\ EchoFits' /\ ~halted'
  BY <1>1, <1>4, <1>5 DEF MoreSent, DevType, EchoFits, epVars
<1>7. ASSUME state' = "responding" PROVE RespondingOK'
  <2>1. pkt' = pkt /\ Len(pkt_buf') = HDR /\ Left' > 0
    BY <1>5, <1>7 DEF MoreSent
  <2>2. ctx'.off + ctx'.len = ctx.off + ctx.len
    <3>1. \A n \in 0 .. ctx.len : ctx.off + n + (ctx.len - n) = ctx.off + ctx.len
      BY <1>2
    <3> QED
      BY <3>1, <1>2, <1>5 DEF MoreSent
  <2>3. /\ current_op(pkt') = api_op_buf_rd /\ pkt'.ep \in {API_EP_SYS, API_EP_APP}
        /\ ctx'.off + ctx'.len <= buf_sz(pkt'.ep)
    BY <1>2, <2>1, <2>2
  <2> QED
    BY <2>1, <2>3 DEF RespondingOK
<1>8. DevInv'
  BY <1>5, <1>6, <1>7, IdleAgain DEF MoreSent, DevInv
<1> QED
  BY <1>5, <1>8 DEF GoesOn, MoreSent

LEMMA EchoReadMore ==
  ASSUME DevInv, HasRoom, state = "responding", current_op(pkt) = api_op_str_rd,
         pkt.ep = API_EP_ECHO, api_str_buf_rd(pkt, FALSE), up' = up
  PROVE  GoesOn /\ DevInv'
<1> DEFINE n == Fits(FALSE, ctx.len)
<1>1. DevType /\ EchoFits /\ ~halted /\ RespondingOK
  BY DEF DevInv
<1>2. /\ echo.read + ctx.len <= Len(echo.data)
      /\ Left = ctx.len /\ ctx.len > 0 /\ ctx.off \in Nat /\ ctx.len \in Nat
  BY <1>1 DEF RespondingOK, Left, DevType, api_op_info, api_op_buf_rd, api_op_str_rd,
              API_EP_SEQ, API_EP_ECHO
<1>3. /\ echo.data \in Seq(Nat) /\ echo.read \in Nat /\ Len(echo.data) \in Nat
  BY <1>1, EchoFacts
<1>4. /\ Send(pkt, FALSE, echo.data, echo.read, ctx.len)
      /\ echo' = [echo EXCEPT !.read = ReadTo(pkt, FALSE)]
      /\ UNCHANGED <<app_buf, next_n, halted>>
  <2>1. ctx.len # 0
    BY <1>2
  <2> QED
    BY <2>1 DEF api_str_buf_rd
<1>5. ReadTo(pkt, FALSE) = echo.read + n
  BY DEF ReadTo
<1>6. MoreSent(echo.read)
  <2>1. ~(current_op(pkt) = api_op_str_rd /\ pkt.ep = API_EP_SEQ)
    BY DEF API_EP_SEQ, API_EP_ECHO
  <2> QED
    BY <2>1, <1>2, <1>3, <1>4, LaterReply
<1> HIDE DEF n
<1>7. n \in 0 .. ctx.len /\ ctx' = [off |-> echo.read + n, len |-> ctx.len - n]
  BY <1>6 DEF MoreSent, n
<1>8. /\ echo' \in [data : Seq(Nat), read : Nat]
      /\ echo'.read = echo.read + n /\ echo'.data = echo.data
  <2> DEFINE r == echo.read + n
  <2>1. echo' = [echo EXCEPT !.read = r]
    BY <1>4, <1>5, Zenon
  <2>2. r \in Nat
    BY <1>2, <1>3, <1>7
  <2>3. echo \in [data : Seq(Nat), read : Nat]
    BY <1>1 DEF DevType
  <2> HIDE DEF r
  <2>4. /\ echo' \in [data : Seq(Nat), read : Nat]
        /\ echo'.read = r /\ echo'.data = echo.data
    BY <2>1, <2>2, <2>3
  <2> QED
    BY <2>4 DEF r
<1>9. DevType' /\ EchoFits' /\ ~halted'
  <2>1. EchoFits'
    BY <1>1, <1>2, <1>3, <1>7, <1>8 DEF EchoFits
  <2> QED
    BY <1>1, <1>4, <1>6, <1>8, <2>1 DEF MoreSent, DevType
<1>10. ASSUME state' = "responding" PROVE RespondingOK'
  <2>1. pkt' = pkt /\ Len(pkt_buf') = HDR /\ Left' > 0
    BY <1>6, <1>10 DEF MoreSent
  <2>2. echo'.read + ctx'.len <= Len(echo'.data)
    BY <1>2, <1>3, <1>7, <1>8
  <2> QED
    BY <2>1, <2>2 DEF RespondingOK
<1>11. DevInv'
  BY <1>6, <1>9, <1>10, IdleAgain DEF MoreSent, DevInv
<1> QED
  BY <1>6, <1>11 DEF GoesOn, MoreSent

LEMMA SequenceMore ==
  ASSUME DevInv, HasRoom, state = "responding", current_op(pkt) = api_op_str_rd,
         pkt.ep = API_EP_SEQ, api_str_seq_rd(pkt, FALSE), up' = up
  PROVE  GoesOn /\ DevInv'
<1> DEFINE chunk == MIN_(CHUNK_SZ, pkt.data_len)
           n == Fits(FALSE, chunk)
           left == pkt.data_len - n
           a == [i \in 1 .. n |-> (next_n + i - 1) % (SEQ_MAX + 1)]
           q2 == [pkt EXCEPT !.data_len = left]
<1>1. DevType /\ EchoFits /\ ~halted /\ RespondingOK /\ Len(down) <= DOWN_SIZE
  BY DEF DevInv
<1>2. pkt \in Header
  BY <1>1, PktFacts DEF RespondingOK
<1>3. Left = pkt.data_len /\ pkt.data_len \in Nat /\ pkt.data_len > 0
  BY <1>1, <1>2 DEF RespondingOK, Left, Header
<1>4. /\ down' = (down \o << >>) \o a
      /\ next_n' = (next_n + n) % (SEQ_MAX + 1)
      /\ halted' = (pkt.data_len = 0)
      /\ UNCHANGED <<ctx, app_buf, echo>>
      /\ \/ left = 0 /\ pkt.data_len > 0 /\ state' = "idle" /\ pkt_buf' = << >>
         \/ /\ ~(left = 0 /\ pkt.data_len > 0)
            /\ state' = "responding" /\ pkt_buf' = Bytes(q2)
  BY DEF api_str_seq_rd, api_str_seq_advance, api_op_complete
<1>5. n \in Nat /\ n <= Room /\ left \in Nat /\ n + left = pkt.data_len
  <2>1. chunk \in Nat /\ chunk <= pkt.data_len
    BY <1>3, DeviceAssumption DEF MIN_
  <2> HIDE DEF chunk
  <2>2. n \in 0 .. chunk /\ n <= Room
    BY <1>1, <2>1, RoomFacts
  <2> HIDE DEF n
  <2> QED
    BY <1>3, <2>1, <2>2
<1> HIDE DEF chunk, n, left, q2
<1>6. a \in Seq(Nat) /\ Len(a) = n /\ next_n' \in Nat
  BY <1>1, <1>4, <1>5, ChunkFacts
<1> HIDE DEF a
<1>7. down' = down \o a
  BY <1>1, <1>4, ConcatEmptySeq DEF DevType
<1>8. down' \in Seq(Nat) /\ Len(down') <= DOWN_SIZE
  BY <1>1, <1>5, <1>6, <1>7, Longer
<1>9. ~halted' /\ EchoFits' /\ ctx' \in [off : Nat, len : Nat]
      /\ app_buf' \in [1 .. APP_SZ -> Nat] /\ echo' \in [data : Seq(Nat), read : Nat]
  <2>1. pkt.data_len # 0
    BY <1>3
  <2>2. ~halted'
    BY <2>1, <1>4, Zenon
  <2> QED
    BY <1>1, <1>4, <2>2 DEF DevType, EchoFits
<1>10. CASE left = 0
  <2>1. state' = "idle" /\ pkt_buf' = << >>
    BY <1>3, <1>4, <1>10
  <2>2. Left' = 0
    BY <2>1 DEF Left
  <2>3. Len(a) + Left' = Left
    BY <2>2, <1>3, <1>5, <1>6, <1>10
  <2>4. RepliesMore
    BY <2>1, <2>3, <1>6, <1>7 DEF RepliesMore
  <2>5. DevType'
    BY <2>1, <1>1, <1>6, <1>8, <1>9 DEF DevType
  <2> QED
    BY <2>1, <2>4, <2>5, <1>8, <1>9, IdleAgain DEF GoesOn
<1>11. CASE left # 0
  <2>1. state' = "responding" /\ pkt_buf' = Bytes(q2)
    BY <1>4, <1>11
  <2>2. q2 \in Header /\ q2.op = pkt.op /\ q2.ep = pkt.ep /\ q2.data_len = left
    BY <1>2, <1>5 DEF Header, q2
  <2>3. pkt_buf' \in Seq(Nat) /\ Len(pkt_buf') = HDR /\ pkt' = q2
    BY <2>1, <2>2, BytesFacts, FieldsOfBytes DEF pkt
  <2>4. current_op(pkt') = current_op(pkt) /\ pkt'.ep = pkt.ep /\ pkt'.data_len = left
    BY <2>2, <2>3 DEF current_op
  <2>5. Left' = left
    BY <2>1, <2>4 DEF Left
  <2>6. Left' > 0 /\ Len(a) + Left' = Left
    BY <2>5, <1>3, <1>5, <1>6, <1>11
  <2>7. RepliesMore
    BY <2>1, <2>6, <1>6, <1>7 DEF RepliesMore
  <2>8. DevType'
    BY <2>1, <2>3, <1>1, <1>6, <1>8, <1>9 DEF DevType
  <2>9. RespondingOK'
    BY <2>3, <2>4, <2>6 DEF RespondingOK
  <2> QED
    BY <2>1, <2>7, <2>8, <2>9, <1>8, <1>9 DEF GoesOn, DevInv
<1> QED
  BY <1>10, <1>11

LEMMA BufWriteMore ==
  ASSUME DevInv, HasRoom, state = "processing", current_op(pkt) = api_op_buf_wr,
         up # << >>, api_buf_wr(pkt, up, FALSE)
  PROVE  GoesOn /\ DevInv'
<1>1. DevType /\ EchoFits /\ ~halted /\ Len(down) <= DOWN_SIZE /\ ProcessingOK /\ up \in Seq(Nat)
  BY DEF DevInv, DevType
<1>2. pkt \in Header
  BY <1>1, PktFacts DEF ProcessingOK
<1>3. current_op(pkt) = pkt.op /\ pkt.op < api_op_resp
  BY <1>1, <1>2, OpCases DEF ProcessingOK
<1>4. /\ Need = ctx.len /\ ctx.len > 0 /\ ctx.off \in Nat /\ ctx.len \in Nat
      /\ pkt.op = api_op_buf_wr /\ pkt.ep = API_EP_APP
      /\ ctx.off + ctx.len <= APP_SZ
  BY <1>1, <1>3 DEF ProcessingOK, Need, DevType, api_op_buf_wr, api_op_str_wr
<1>5. Fill(pkt, up, ctx.off, ctx.len)
  <2>1. ctx.len # 0
    BY <1>4
  <2> QED
    BY <2>1 DEF api_buf_wr
<1>6. PICK n \in 0 .. ctx.len :
           /\ n <= Len(up) /\ (up # << >> /\ ctx.len > 0 => n > 0)
           /\ up' = Drop(up, n) /\ up' \in Seq(Nat)
           /\ app_buf' = Placed(up, ctx.off, n) /\ app_buf' \in [1 .. APP_SZ -> Nat]
           /\ ctx' = [off |-> ctx.off + n, len |-> ctx.len - n]
           /\ ctx' \in [off : Nat, len : Nat]
           /\ UNCHANGED <<echo, next_n, halted>>
           /\ \/ n = ctx.len /\ down' = down \o Response(pkt, 0)
                 /\ state' = "idle" /\ pkt_buf' = << >>
              \/ n < ctx.len /\ down' = down /\ state' = "processing" /\ pkt_buf' = Bytes(pkt)
  BY <1>1, <1>2, <1>4, <1>5, FillFacts
<1>7. n \in 1 .. Need /\ n <= Len(up) /\ up' = Drop(up, n)
  <2>1. n > 0
    BY <1>4, <1>6
  <2>2. n \in 0 .. ctx.len
    OBVIOUS
  <2> QED
    BY <2>1, <2>2, <1>4, <1>6
<1>8. EchoFits' /\ ~halted'
  BY <1>1, <1>6 DEF EchoFits
<1>9. CASE n = ctx.len /\ down' = down \o Response(pkt, 0) /\ state' = "idle" /\ pkt_buf' = << >>
  <2>1. Replies(pkt, pkt.flags, 0) /\ down' \in Seq(Nat) /\ Len(down') <= DOWN_SIZE
    BY <1>1, <1>2, <1>3, <1>9, Acknowledged
  <2>2. n = Need
    BY <1>4, <1>9
  <2>3. GoesOn
    BY <1>7, <2>1, <2>2 DEF GoesOn
  <2>4. DevType'
    BY <1>1, <1>6, <1>9, <2>1 DEF DevType
  <2> QED
    BY <1>8, <1>9, <2>1, <2>3, <2>4, IdleAgain
<1>10. CASE n < ctx.len /\ down' = down /\ state' = "processing" /\ pkt_buf' = Bytes(pkt)
  <2>1. pkt_buf' \in Seq(Nat) /\ Len(pkt_buf') = HDR /\ pkt' = pkt
    <3>1. Fields(Bytes(pkt)) = pkt /\ Bytes(pkt) \in Seq(Nat) /\ Len(Bytes(pkt)) = HDR
      BY <1>2, BytesFacts, FieldsOfBytes
    <3>2. pkt' = Fields(pkt_buf')
      BY DEF pkt
    <3> QED
      BY <1>10, <3>1, <3>2
  <2>2. Need' = ctx'.len
    BY <1>10, <2>1 DEF Need
  <2>3. ctx'.off = ctx.off + n /\ ctx'.len = ctx.len - n
    BY <1>6
  <2>4. Need' = Need - n /\ Need' > 0 /\ ctx'.off + ctx'.len <= APP_SZ
    <3>1. n \in Nat /\ n < ctx.len /\ APP_SZ \in Nat
      BY <1>4, <1>10, DeviceAssumption
    <3>2. \A x, c, m, s \in Nat : m < c /\ x + c <= s => c - m > 0 /\ x + m + (c - m) <= s
      OBVIOUS
    <3>3. ctx.len - n > 0 /\ ctx.off + n + (ctx.len - n) <= APP_SZ
      BY <3>1, <3>2, <1>4
    <3> QED
      BY <3>3, <1>4, <2>2, <2>3
  <2>5. GoesOn
    <3>1. Awaits(pkt)
      BY <1>10, <2>1 DEF Awaits
    <3> QED
      BY <1>7, <2>4, <3>1 DEF GoesOn
  <2>6. DevType'
    BY <1>1, <1>6, <1>10, <2>1 DEF DevType
  <2>7. ProcessingOK'
    BY <1>3, <1>4, <2>1, <2>4 DEF ProcessingOK
  <2>8. Len(down') <= DOWN_SIZE
    BY <1>1, <1>10
  <2> QED
    BY <1>8, <1>10, <2>5, <2>6, <2>7, <2>8 DEF DevInv
<1> QED
  BY <1>6, <1>9, <1>10

LEMMA EchoWriteMore ==
  ASSUME DevInv, HasRoom, state = "processing", current_op(pkt) = api_op_str_wr,
         up # << >>, api_str_buf_wr(pkt, up, FALSE)
  PROVE  GoesOn /\ DevInv'
<1>1. DevType /\ EchoFits /\ ~halted /\ Len(down) <= DOWN_SIZE /\ ProcessingOK /\ up \in Seq(Nat)
  BY DEF DevInv, DevType
<1>2. pkt \in Header
  BY <1>1, PktFacts DEF ProcessingOK
<1>3. current_op(pkt) = pkt.op /\ pkt.op < api_op_resp
  BY <1>1, <1>2, OpCases DEF ProcessingOK
<1>4. /\ Need = pkt.data_len /\ pkt.data_len > 0 /\ pkt.data_len \in Nat
      /\ pkt.op = api_op_str_wr /\ pkt.ep = API_EP_ECHO
      /\ ctx.len \in Nat /\ ctx.len <= pkt.data_len
      /\ Len(echo.data) + ctx.len <= ECHO_BUF_SZ
  <2>1. pkt.data_len \in Nat /\ ctx.len \in Nat
    BY <1>1, <1>2 DEF Header, DevType
  <2> QED
    BY <2>1, <1>1, <1>3 DEF ProcessingOK, Need, api_op_buf_wr, api_op_str_wr
<1>5. Store(pkt, up, echo, ctx.len)
  <2>1. ~(pkt.data_len = 0 \/ pkt.data_len < ctx.len)
    BY <1>4
  <2> QED
    BY <2>1 DEF api_str_buf_wr
<1>6. PICK n \in 0 .. pkt.data_len, rest \in Nat : Stored(pkt, up, echo, ctx.len, n, rest)
  <2>1. echo \in [data : Seq(Nat), read : Nat] /\ echo.read <= Len(echo.data)
    BY <1>1 DEF DevType, EchoFits
  <2> QED
    BY <2>1, <1>1, <1>2, <1>4, <1>5, StoreFacts
<1>7. /\ n <= Len(up) /\ n > 0
      /\ up' = Drop(up, n) /\ up' \in Seq(Nat)
      /\ echo' \in [data : Seq(Nat), read : Nat] /\ EchoFits'
      /\ Len(echo'.data) + rest <= ECHO_BUF_SZ
      /\ ctx' \in [off : Nat, len : Nat] /\ ctx'.len = rest
      /\ rest <= pkt.data_len - n
      /\ UNCHANGED <<app_buf, next_n, halted>>
      /\ \/ n = pkt.data_len /\ down' = down \o Response(pkt, 0)
            /\ state' = "idle" /\ pkt_buf' = << >>
         \/ n < pkt.data_len /\ down' = down /\ state' = "processing"
            /\ pkt_buf' = Bytes([pkt EXCEPT !.data_len = pkt.data_len - n])
  BY <1>6 DEF Stored
<1>8. n \in 1 .. Need
  <2>1. n \in 0 .. pkt.data_len /\ n > 0
    BY <1>7
  <2> QED
    BY <2>1, <1>4
<1>9. ~halted'
  BY <1>1, <1>7
<1>10. CASE n = pkt.data_len /\ down' = down \o Response(pkt, 0) /\ state' = "idle"
            /\ pkt_buf' = << >>
  <2>1. Replies(pkt, pkt.flags, 0) /\ down' \in Seq(Nat) /\ Len(down') <= DOWN_SIZE
    BY <1>1, <1>2, <1>3, <1>10, Acknowledged
  <2>2. n = Need
    BY <1>4, <1>10
  <2>3. GoesOn
    BY <1>7, <1>8, <2>1, <2>2 DEF GoesOn
  <2>4. DevType'
    BY <1>1, <1>7, <1>10, <2>1 DEF DevType
  <2> QED
    BY <1>7, <1>9, <1>10, <2>1, <2>3, <2>4, IdleAgain
<1>11. CASE n < pkt.data_len /\ down' = down /\ state' = "processing"
            /\ pkt_buf' = Bytes([pkt EXCEPT !.data_len = pkt.data_len - n])
  <2> DEFINE q2 == [pkt EXCEPT !.data_len = pkt.data_len - n]
  <2>1. n \in Nat /\ pkt.data_len - n \in Nat /\ pkt.data_len - n > 0
    BY <1>4, <1>11
  <2>2. /\ q2 \in Header /\ q2.op = pkt.op /\ q2.ep = pkt.ep /\ q2.flags = pkt.flags
        /\ q2.sn = pkt.sn /\ q2.data_len = pkt.data_len - n
    BY <2>1, <1>2 DEF Header
  <2>3. pkt_buf' = Bytes(q2)
    BY <1>11
  <2> HIDE DEF q2
  <2>4. pkt_buf' \in Seq(Nat) /\ Len(pkt_buf') = HDR /\ pkt' = q2
    <3>1. Fields(Bytes(q2)) = q2 /\ Bytes(q2) \in Seq(Nat) /\ Len(Bytes(q2)) = HDR
      BY <2>2, BytesFacts, FieldsOfBytes
    <3>2. pkt' = Fields(pkt_buf')
      BY DEF pkt
    <3> QED
      BY <2>3, <3>1, <3>2
  <2>5. current_op(pkt') = api_op_str_wr
    BY <1>3, <1>4, <2>2, <2>4, OpCases
  <2>6. Need' = pkt'.data_len
    BY <1>11, <2>5 DEF Need, api_op_str_wr, api_op_buf_wr
  <2>7. Need' = Need - n /\ Need' > 0 /\ ctx'.len <= pkt'.data_len
    BY <1>4, <1>7, <2>1, <2>2, <2>4, <2>6
  <2>8. GoesOn
    <3>1. Awaits(pkt)
      BY <1>11, <2>2, <2>4 DEF Awaits
    <3> QED
      BY <1>7, <1>8, <2>7, <3>1 DEF GoesOn
  <2>9. DevType'
    BY <1>1, <1>7, <1>11, <2>4 DEF DevType
  <2>10. ProcessingOK'
    BY <1>3, <1>4, <1>7, <2>2, <2>4, <2>7 DEF ProcessingOK
  <2>11. Len(down') <= DOWN_SIZE
    BY <1>1, <1>11
  <2> QED
    BY <1>7, <1>9, <1>11, <2>8, <2>9, <2>10, <2>11 DEF DevInv
<1> QED
  BY <1>7, <1>10, <1>11

(* No assertion of a callback fires, and it goes on where it was. *)
LEMMA Continues ==
  ASSUME DevInv, HasRoom, CallEp
  PROVE  GoesOn /\ DevInv'
<1>1. DevType /\ state \in {"responding", "processing"}
      /\ (is_write_op(current_op(pkt)) => up # << >>)
      /\ Callback(pkt, up, FALSE)
  BY DEF CallEp, DevInv, DevType, pkt
<1>2. \/ current_op(pkt) = api_op_info /\ api_ep_info_cb(pkt, FALSE) /\ up' = up
      \/ current_op(pkt) = api_op_buf_rd /\ api_buf_rd(pkt, FALSE) /\ up' = up
      \/ current_op(pkt) = api_op_buf_wr /\ api_buf_wr(pkt, up, FALSE)
      \/ current_op(pkt) = api_op_str_rd /\ pkt.ep = API_EP_ECHO
           /\ api_str_buf_rd(pkt, FALSE) /\ up' = up
      \/ current_op(pkt) = api_op_str_rd /\ pkt.ep = API_EP_SEQ
           /\ api_str_seq_rd(pkt, FALSE) /\ up' = up
      \/ current_op(pkt) = api_op_str_wr /\ api_str_buf_wr(pkt, up, FALSE)
  BY <1>1 DEF Callback
<1>3. CASE state = "responding"
  <2>1. current_op(pkt) \in {api_op_info, api_op_buf_rd, api_op_str_rd}
    BY <1>3 DEF DevInv, RespondingOK
  <2>2. current_op(pkt) # api_op_buf_wr /\ current_op(pkt) # api_op_str_wr
    BY <2>1 DEF api_op_info, api_op_buf_rd, api_op_str_rd, api_op_buf_wr, api_op_str_wr
  <2> QED
    BY <1>2, <1>3, <2>2, InfoMore, BufReadMore, EchoReadMore, SequenceMore
<1>4. CASE state = "processing"
  <2>1. pkt \in Header /\ pkt.op < api_op_resp /\ pkt.op \in {api_op_buf_wr, api_op_str_wr}
    BY <1>1, <1>4, PktFacts DEF DevInv, ProcessingOK
  <2>2. current_op(pkt) \in {api_op_buf_wr, api_op_str_wr}
    BY <2>1, OpCases
  <2>3. /\ current_op(pkt) # api_op_info /\ current_op(pkt) # api_op_buf_rd
        /\ current_op(pkt) # api_op_str_rd /\ is_write_op(current_op(pkt))
    BY <2>2 DEF api_op_info, api_op_buf_rd, api_op_str_rd, api_op_buf_wr, api_op_str_wr, is_write_op
  <2> QED
    BY <1>1, <1>2, <1>4, <2>3, BufWriteMore, EchoWriteMore
<1> QED
  BY <1>1, <1>3, <1>4

-----------------------------------------------------------------------------
(* The steps of the device, seen from the host                             *)

LEMMA QType ==
  ASSUME DevType, HostType
  PROVE  /\ Q \in Seq(Nat) /\ R \in Seq(Nat) /\ Got \in Seq(Nat)
         /\ up \o h_out \in Seq(Nat) /\ h_queue \o down \in Seq(Nat)
         /\ state # "idle" => Q = up \o h_out
         /\ Len(R) = Len(Got) + Len(h_queue) + Len(down)
<1>1. /\ up \in Seq(Nat) /\ h_out \in Seq(Nat) /\ pkt_buf \in Seq(Nat) /\ << >> \in Seq(Nat)
      /\ h_queue \in Seq(Nat) /\ down \in Seq(Nat) /\ h_in \in Seq(Nat)
  BY DEF DevType, HostType
<1>2. /\ up \o h_out \in Seq(Nat) /\ h_queue \o down \in Seq(Nat)
      /\ Len(h_queue \o down) = Len(h_queue) + Len(down)
  BY <1>1, ConcatFacts
<1>3. Got \in Seq(Nat)
  BY <1>1 DEF Got
<1>4. Q \in Seq(Nat) /\ (state # "idle" => Q = up \o h_out)
  <2>1. CASE state = "idle"
    BY <1>1, <1>2, <2>1, ConcatFacts DEF Q
  <2>2. CASE state # "idle"
    BY <1>2, <2>2, ConcatEmptySeq DEF Q
  <2> QED
    BY <2>1, <2>2
<1>5. R \in Seq(Nat) /\ Len(R) = Len(Got) + (Len(h_queue) + Len(down))
  BY <1>2, <1>3, ConcatFacts DEF R
<1>6. Len(Got) \in Nat /\ Len(h_queue) \in Nat /\ Len(down) \in Nat
  BY <1>1, <1>3
<1> QED
  BY <1>2, <1>3, <1>4, <1>5, <1>6

(* What the device takes, it takes from the front of Q. *)
LEMMA TakenFromFront ==
  ASSUME HostType, UNCHANGED h_out, NEW in \in Seq(Nat), NEW m \in Nat, m <= Len(in),
         up' = Drop(in, m), state' = "idle" => pkt_buf' = << >>
  PROVE  Q' = Drop(in \o h_out, m)
<1>1. h_out \in Seq(Nat) /\ << >> \in Seq(Nat)
  BY DEF HostType
<1>2. up' \in Seq(Nat)
  BY DropFacts
<1>3. up' \o h_out \in Seq(Nat)
  BY <1>1, <1>2, ConcatFacts
<1>4. Q' = << >> \o (up' \o h_out)
  BY DEF Q
<1>5. Q' = up' \o h_out
  BY <1>3, <1>4, ConcatEmptySeq
<1> QED
  BY <1>1, <1>5, DropConcat

(* Where a header begins, and where the bytes behind it are. *)
LEMMA Front ==
  ASSUME DevType, HostType, state = "idle", NEW n \in Nat, n <= Len(up)
  PROVE  LET buf == pkt_buf \o Take(up, n)
             in  == Drop(up, n)
         IN /\ buf \in Seq(Nat) /\ Len(buf) = Len(pkt_buf) + n /\ in \in Seq(Nat)
            /\ in \o h_out \in Seq(Nat)
            /\ Q = buf \o (in \o h_out)
            /\ Len(Q) = Len(buf) + Len(in \o h_out)
            /\ \A i \in 1 .. Len(buf) : Q[i] = buf[i]
            /\ \A i \in Nat : i <= Len(buf) => Drop(Q, i) = Drop(buf, i) \o (in \o h_out)
            /\ Drop(Q, Len(buf)) = in \o h_out
<1> DEFINE t == Take(up, n)
           in == Drop(up, n)
           buf == pkt_buf \o t
           rest == in \o h_out
<1>1. up \in Seq(Nat) /\ h_out \in Seq(Nat) /\ pkt_buf \in Seq(Nat)
  BY DEF DevType, HostType
<1>2. t \in Seq(Nat) /\ Len(t) = n /\ in \in Seq(Nat) /\ up = t \o in
  BY <1>1, TakeFacts, DropFacts, TakeDrop
<1> HIDE DEF t, in
<1>3. rest \in Seq(Nat)
  BY <1>1, <1>2, ConcatFacts
<1>4. buf \in Seq(Nat) /\ Len(buf) = Len(pkt_buf) + n
  BY <1>1, <1>2, ConcatFacts
<1> HIDE DEF buf, rest
<1>5. Q = buf \o rest
  <2>1. up \o h_out = t \o rest
    BY <1>1, <1>2, ConcatAssociative DEF rest
  <2>2. pkt_buf \o (t \o rest) = buf \o rest
    <3>1. pkt_buf \in Seq(Nat) /\ t \in Seq(Nat) /\ rest \in Seq(Nat)
      BY <1>1, <1>2, <1>3
    <3>2. (pkt_buf \o t) \o rest = pkt_buf \o (t \o rest)
      BY <3>1, ConcatAssociative, SMTT(30)
    <3> QED
      BY <3>2 DEF buf
  <2>3. Q = pkt_buf \o (up \o h_out)
    BY DEF Q
  <2> QED
    BY <2>1, <2>2, <2>3
<1>6. Len(Q) = Len(buf) + Len(rest) /\ \A i \in 1 .. Len(buf) : Q[i] = buf[i]
  BY <1>3, <1>4, <1>5, ConcatFacts
<1>7. \A i \in Nat : i <= Len(buf) => Drop(Q, i) = Drop(buf, i) \o rest
  BY <1>3, <1>4, <1>5, DropConcat
<1>8. Drop(Q, Len(buf)) = rest
  <2>1. Drop(buf, Len(buf)) = << >> /\ << >> \o rest = rest
    BY <1>3, <1>4, DropNone, ConcatEmptySeq
  <2>2. Len(buf) \in Nat /\ Len(buf) <= Len(buf)
    BY <1>4
  <2>3. Drop(Q, Len(buf)) = Drop(buf, Len(buf)) \o rest
    BY <2>2, <1>7
  <2> QED
    BY <2>1, <2>3
<1> QED
  BY <1>2, <1>3, <1>4, <1>5, <1>6, <1>7, <1>8 DEF in, t, buf, rest

(* Bytes that are no header's are skipped, at most as many as a header has. *)
Skips ==
  \E j \in 1 .. HDR :
    /\ j <= Len(Q)
    /\ \A i \in 1 .. j : IsResponse(Q[i])
    /\ Q' = Drop(Q, j)
    /\ state' = "idle" /\ down' = down

(* p is taken for a header, and moves on as Begins says.                   *)
Moves(p) ==
  \/ /\ AcceptedWrite(p)
     /\ \E m \in Nat : /\ HDR + m <= Len(Q) /\ Q' = Drop(Q, HDR + m)
                       /\ Awaits(p) /\ Need' = p.data_len - m
  \/ /\ AcceptedWrite(p)
     /\ HDR + p.data_len <= Len(Q) /\ Q' = Drop(Q, HDR + p.data_len)
     /\ Replies(p, p.flags, 0)
  \/ /\ ~AcceptedWrite(p)
     /\ Q' = Drop(Q, HDR)
     /\ \E flags \in Nat, len \in Nat :
          /\ Replies(p, flags, len)
          /\ p.flags = 0 => flags = PacketVerdict(p)
          /\ PacketVerdict(p) # 0 => len = 0
          /\ PacketVerdict(p) = 0 /\ p.op = api_op_buf_rd => len = p.p2
          /\ len <= 1 \/ len <= p.p2

LEMMA HeaderMoves ==
  ASSUME DevInv, HostType, UNCHANGED h_out, state = "idle",
         NEW n \in Nat, n <= Len(up), Len(pkt_buf) + n = HDR,
         NEW p \in Header, p.op < api_op_resp, Begins(p, Drop(up, n)), DevInv'
  PROVE  Moves(p)
<1> DEFINE in == Drop(up, n)
           buf == pkt_buf \o Take(up, n)
<1>1. DevType
  BY DEF DevInv
<1>2. /\ in \in Seq(Nat) /\ Len(buf) = HDR /\ in \o h_out \in Seq(Nat)
      /\ Q \in Seq(Nat) /\ h_out \in Seq(Nat)
      /\ Len(Q) = HDR + Len(in \o h_out) /\ Drop(Q, HDR) = in \o h_out
  BY <1>1, Front, QType DEF HostType
<1>3. Len(in \o h_out) >= Len(in) /\ Len(in) \in Nat
  BY <1>2, ConcatFacts
<1> HIDE DEF in, buf
<1>4. p.data_len \in Nat /\ Begins(p, in) /\ HDR \in Nat
  BY DEF Header, in, HDR
<1>5. ASSUME NEW m \in Nat, m <= Len(in), up' = Drop(in, m),
             state' = "idle" => pkt_buf' = << >>
      PROVE  HDR + m <= Len(Q) /\ Q' = Drop(Q, HDR + m)
  <2>1. Q' = Drop(in \o h_out, m)
    BY <1>2, <1>5, TakenFromFront
  <2>2. HDR + m <= Len(Q)
    BY <1>2, <1>3, <1>4, <1>5
  <2>3. Drop(Drop(Q, HDR), m) = Drop(Q, HDR + m)
    BY <1>2, <1>4, <2>2, DropDrop
  <2> QED
    BY <1>2, <2>1, <2>2, <2>3
<1>6. CASE /\ AcceptedWrite(p)
           /\ \E m \in 0 .. Len(in) : up' = Drop(in, m) /\ Awaits(p) /\ Need' = p.data_len - m
  <2>1. PICK m \in 0 .. Len(in) : up' = Drop(in, m) /\ Awaits(p) /\ Need' = p.data_len - m
    BY <1>6
  <2>2. m \in Nat /\ m <= Len(in) /\ state' # "idle"
    BY <1>3, <2>1 DEF Awaits
  <2>3. HDR + m <= Len(Q) /\ Q' = Drop(Q, HDR + m)
    BY <1>5, <2>1, <2>2
  <2> QED
    BY <1>6, <2>1, <2>2, <2>3 DEF Moves
<1>7. CASE /\ AcceptedWrite(p)
           /\ p.data_len <= Len(in) /\ up' = Drop(in, p.data_len)
           /\ Replies(p, p.flags, 0)
  <2>1. state' = "idle" => pkt_buf' = << >>
    BY <1>7 DEF Replies
  <2>2. HDR + p.data_len <= Len(Q) /\ Q' = Drop(Q, HDR + p.data_len)
    BY <1>4, <1>5, <1>7, <2>1
  <2> QED
    BY <1>7, <2>2 DEF Moves
<1>8. CASE /\ ~AcceptedWrite(p)
           /\ up' = in
           /\ \E flags \in Nat, len \in Nat :
                /\ Replies(p, flags, len)
                /\ p.flags = 0 => flags = PacketVerdict(p)
                /\ PacketVerdict(p) # 0 => len = 0
                /\ PacketVerdict(p) = 0 /\ p.op = api_op_buf_rd => len = p.p2
                /\ len <= 1 \/ len <= p.p2
  <2>1. state' = "idle" => pkt_buf' = << >>
    BY <1>8 DEF Replies
  <2>2. up' = Drop(in, 0) /\ 0 <= Len(in)
    BY <1>2, <1>3, <1>8, DropNone
  <2>3. Q' = Drop(Q, HDR + 0)
    BY <1>5, <2>1, <2>2
  <2>4. HDR + 0 = HDR
    BY <1>4
  <2>5. Q' = Drop(Q, HDR)
    BY <2>3, <2>4
  <2> QED
    BY <1>8, <2>5 DEF Moves
<1> QED
  BY <1>4, <1>6, <1>7, <1>8 DEF Begins

(* What a step of the device comes to, in terms of Q and of the answer.    *)
DeviceMoves ==
  \/ state = "idle" /\ Skips
  \/ /\ state = "idle" /\ HDR <= Len(Q) /\ ~IsResponse(Q[1])
     /\ Moves(Fields(Q))
  \/ state = "responding" /\ Q' = Q /\ RepliesMore
  \/ /\ state = "processing"
     /\ \E m \in 1 .. Need :
          /\ m <= Len(Q) /\ Q' = Drop(Q, m)
          /\ \/ Awaits(pkt) /\ Need' = Need - m
             \/ m = Need /\ Replies(pkt, pkt.flags, 0)

(* Whoever reads the sequence asks for at least a byte.                    *)
FrontAsked ==
  state = "idle" /\ HDR <= Len(Q) /\ ~IsResponse(Q[1]) => Tame(Fields(Q))

(* Waiting for a header.                                                   *)
LEMMA HeaderStep ==
  ASSUME DevInv, HostType, UNCHANGED h_out, HasRoom, FrontAsked, GetHeader
  PROVE  DeviceMoves /\ DevInv'
<1> DEFINE n == HDR - Len(pkt_buf)
           buf == pkt_buf \o Take(up, n)
           in == Drop(up, n)
           left == api_skip_invalid_bytes(buf)
<1>1. DevType /\ state = "idle" /\ IdleOK /\ pkt_buf \in Seq(Nat) /\ up \in Seq(Nat)
  BY DEF DevInv, DevType, GetHeader
<1>2. n \in Nat /\ n <= Len(up) /\ Len(pkt_buf) + n = HDR
  <2>1. Len(pkt_buf) \in Nat /\ Len(up) \in Nat
    BY <1>1
  <2> QED
    BY <1>1, <2>1 DEF GetHeader, IdleOK, HDR
<1>3. \/ /\ left # buf
         /\ pkt_buf' = left
         /\ up' = in
         /\ UNCHANGED <<down, state, ctx, halted, epVars>>
      \/ /\ left = buf
         /\ api_start_ep_req(Fields(buf), in)
  BY DEF GetHeader
<1>4. /\ buf \in Seq(Nat) /\ Len(buf) = Len(pkt_buf) + n /\ in \in Seq(Nat)
      /\ in \o h_out \in Seq(Nat)
      /\ Len(Q) = Len(buf) + Len(in \o h_out)
      /\ \A i \in 1 .. Len(buf) : Q[i] = buf[i]
      /\ \A i \in Nat : i <= Len(buf) => Drop(Q, i) = Drop(buf, i) \o (in \o h_out)
  <2> HIDE DEF n
  <2> QED
    BY <1>1, <1>2, Front
<1> HIDE DEF n, buf, in, left
<1>5. Len(buf) = HDR /\ HDR <= Len(Q) /\ HDR \in Nat
  <2>1. Len(in \o h_out) \in Nat
    BY <1>4
  <2>2. Len(buf) = HDR /\ HDR \in Nat
    BY <1>2, <1>4 DEF HDR
  <2> QED
    BY <1>4, <2>1, <2>2
<1>6. PICK j \in 0 .. Len(buf) :
           /\ left = Drop(buf, j)
           /\ \A i \in 1 .. j : IsResponse(buf[i])
           /\ j < Len(buf) => ~IsResponse(buf[j + 1])
  <2>1. Len(buf) <= HDR
    BY <1>5
  <2> QED
    BY <1>4, <2>1, SkipFacts DEF left
<1>7. j \in Nat /\ j <= Len(buf) /\ j <= HDR /\ j <= Len(Q)
  BY <1>5
<1>8. left \in Seq(Nat) /\ Len(left) = HDR - j /\ (j < HDR => left[1] = buf[j + 1])
  <2>1. /\ Drop(buf, j) \in Seq(Nat) /\ Len(Drop(buf, j)) = Len(buf) - j
        /\ \A i \in 1 .. Len(buf) - j : Drop(buf, j)[i] = buf[j + i]
    BY <1>4, <1>7, DropFacts
  <2>2. j < HDR => 1 \in 1 .. Len(buf) - j
    BY <1>5, <1>7
  <2> QED
    BY <1>5, <1>6, <2>1, <2>2
<1>9. CASE /\ left # buf
           /\ pkt_buf' = left
           /\ up' = in
           /\ UNCHANGED <<down, state, ctx, halted, epVars>>
  <2>1. j # 0
    BY <1>4, <1>6, <1>9, DropNone
  <2>2. j \in 1 .. HDR
    BY <1>7, <2>1
  <2>3. \A i \in 1 .. j : IsResponse(Q[i])
    BY <1>4, <1>6, <1>7
  <2>4. Q' = Drop(Q, j)
    <3>1. Q' = left \o (in \o h_out)
      BY <1>1, <1>9 DEF Q
    <3> QED
      BY <3>1, <1>4, <1>6, <1>7
  <2>5. Skips
    BY <1>1, <1>7, <1>9, <2>2, <2>3, <2>4 DEF Skips
  <2>6. IdleOK'
    <3>1. Len(left) < HDR /\ (left # << >> => j < HDR)
      BY <1>5, <1>7, <1>8, <2>1
    <3>2. left # << >> => ~IsResponse(left[1])
      BY <3>1, <1>5, <1>6, <1>8
    <3> QED
      BY <3>1, <3>2, <1>9 DEF IdleOK
  <2>7. DevType' /\ EchoFits' /\ ~halted' /\ Len(down') <= DOWN_SIZE
    BY <1>1, <1>4, <1>8, <1>9 DEF DevInv, DevType, EchoFits, epVars
  <2> QED
    BY <1>1, <1>9, <2>5, <2>6, <2>7 DEF DevInv, DeviceMoves
<1>10. CASE left = buf /\ api_start_ep_req(Fields(buf), in)
  <2>1. j = 0
    BY <1>5, <1>7, <1>8, <1>10
  <2>2. ~IsResponse(buf[1]) /\ 1 \in 1 .. Len(buf)
    BY <1>5, <1>6, <2>1 DEF HDR
  <2>3. Fields(Q) = Fields(buf)
    <3>1. \A i \in 1 .. 7 : Q[i] = buf[i]
      BY <1>4, <1>5 DEF HDR
    <3> QED
      BY <3>1 DEF Fields
  <2>4. ~IsResponse(Q[1])
    BY <1>4, <2>2
  <2>5. Tame(Fields(buf))
    BY <1>1, <1>5, <2>3, <2>4 DEF FrontAsked
  <2>6. Fields(buf) \in Header /\ Fields(buf).op < api_op_resp
    <3>1. Len(buf) >= HDR
      BY <1>5
    <3>2. Fields(buf) \in Header /\ Fields(buf).op = buf[1]
      BY <3>1, <1>4, FieldsFacts
    <3>3. buf[1] \in Nat
      BY <1>4, <2>2
    <3> QED
      BY <3>2, <3>3, <2>2 DEF IsResponse, api_op_resp
  <2>7. Begins(Fields(buf), in) /\ DevInv'
    BY <1>4, <1>10, <2>5, <2>6, Starts
  <2>8. Moves(Fields(buf))
    BY <1>1, <1>2, <2>6, <2>7, HeaderMoves DEF in
  <2> QED
    BY <1>1, <1>5, <2>3, <2>4, <2>7, <2>8 DEF DeviceMoves
<1> QED
  BY <1>3, <1>9, <1>10

LEMMA DeviceStep ==
  ASSUME DevInv, HostType, FrontAsked, Device
  PROVE  DeviceMoves /\ DevInv'
<1>1. ~halted /\ HasRoom /\ (GetHeader \/ CallEp) /\ h_out' = h_out
  BY DEF Device, api_process, hostVars
<1>2. CASE GetHeader
  BY <1>1, <1>2, HeaderStep
<1>3. CASE CallEp
  <2>1. GoesOn /\ DevInv'
    BY <1>1, <1>3, Continues
  <2>2. DevType /\ state # "idle" /\ up \in Seq(Nat) /\ h_out \in Seq(Nat)
    BY <1>3 DEF CallEp, DevInv, DevType, HostType
  <2>3. Q = up \o h_out /\ Len(Q) = Len(up) + Len(h_out)
    BY <2>2, QType, ConcatFacts
  <2>4. CASE state = "responding" /\ up' = up /\ RepliesMore
    <3>1. Q' = << >> \o (up \o h_out)
      BY <1>1, <2>4 DEF Q, RepliesMore
    <3>2. up \o h_out \in Seq(Nat)
      BY <2>2, ConcatFacts
    <3>3. Q' = Q
      BY <2>3, <3>1, <3>2, ConcatEmptySeq
    <3> QED
      BY <2>1, <2>4, <3>3 DEF DeviceMoves
  <2>5. CASE /\ state = "processing"
             /\ \E m \in 1 .. Need :
                  /\ m <= Len(up) /\ up' = Drop(up, m)
                  /\ \/ Awaits(pkt) /\ Need' = Need - m
                     \/ m = Need /\ Replies(pkt, pkt.flags, 0)
    <3>1. PICK m \in 1 .. Need :
                  /\ m <= Len(up) /\ up' = Drop(up, m)
                  /\ \/ Awaits(pkt) /\ Need' = Need - m
                     \/ m = Need /\ Replies(pkt, pkt.flags, 0)
      BY <2>5
    <3>2. m \in Nat
      OBVIOUS
    <3>3. state' = "idle" => pkt_buf' = << >>
      BY <3>1 DEF Awaits, Replies
    <3>4. Q' = Drop(up \o h_out, m)
      BY <1>1, <2>2, <3>1, <3>2, <3>3, TakenFromFront
    <3>5. m <= Len(Q)
      <4>1. Len(up) \in Nat /\ Len(h_out) \in Nat
        BY <2>2
      <4> QED
        BY <4>1, <2>3, <3>1, <3>2
    <3> QED
      BY <2>1, <2>3, <2>5, <3>1, <3>4, <3>5 DEF DeviceMoves
  <2> QED
    BY <2>1, <2>4, <2>5 DEF GoesOn
<1> QED
  BY <1>1, <1>2, <1>3

LEMMA Concat3 ==
  ASSUME NEW s \in Seq(Nat), NEW t \in Seq(Nat), NEW u \in Seq(Nat)
  PROVE  (s \o t) \o u = s \o (t \o u)
<1>1. s \in Seq(Nat) /\ t \in Seq(Nat) /\ u \in Seq(Nat)
  OBVIOUS
<1> QED
  BY <1>1, ConcatAssociative, SMTT(30)

(* The answer as the host will have it: what the device adds goes to its   *)
(* end.                                                                    *)
LEMMA AnswerGrows ==
  ASSUME DevType, HostType, UNCHANGED <<h_queue, hostVars>>,
         NEW a \in Seq(Nat), down' = down \o a
  PROVE  R' = R \o a /\ Len(R') = Len(R) + Len(a)
<1>1. Got \in Seq(Nat) /\ h_queue \in Seq(Nat) /\ down \in Seq(Nat) /\ R \in Seq(Nat)
  BY QType DEF DevType, HostType
<1>2. Got \o (h_queue \o (down \o a)) = (Got \o (h_queue \o down)) \o a
  <2> DEFINE hd == h_queue \o down
  <2>1. h_queue \in Seq(Nat) /\ down \in Seq(Nat) /\ a \in Seq(Nat)
    BY <1>1
  <2>2. h_queue \o (down \o a) = hd \o a
    BY <2>1, Concat3
  <2>3. Got \in Seq(Nat) /\ hd \in Seq(Nat) /\ a \in Seq(Nat)
    BY <1>1, ConcatFacts
  <2> HIDE DEF hd
  <2>4. (Got \o hd) \o a = Got \o (hd \o a)
    BY <2>3, Concat3
  <2> QED
    BY <2>2, <2>4 DEF hd
<1>3. R' = Got \o (h_queue \o (down \o a))
  BY DEF R, Got, hostVars
<1>4. R' = R \o a
  BY <1>2, <1>3 DEF R
<1> QED
  BY <1>1, <1>4, ConcatFacts

LEMMA AnswerStays ==
  ASSUME UNCHANGED <<h_queue, hostVars>>, down' = down
  PROVE  R' = R
BY DEF R, Got, hostVars

(* An answer that begins before anything else has been answered.           *)
LEMMA FirstAnswer ==
  ASSUME DevType, HostType, UNCHANGED <<h_queue, hostVars>>, Len(R) = 0,
         NEW p, NEW flags, NEW len \in Nat, Replies(p, flags, len)
  PROVE  /\ R' \in Seq(Nat) /\ Len(R') >= HDR /\ Len(R') + Left' = HDR + len
         /\ R'[1] = p.op + api_op_resp /\ R'[2] = p.ep /\ R'[3] = flags /\ R'[4] = p.sn
         /\ R'[7] = len
<1>1. PICK a \in Seq(Nat) :
    /\ down' = down \o a
    /\ a[1] = p.op + api_op_resp /\ a[2] = p.ep /\ a[3] = flags /\ a[4] = p.sn
    /\ a[7] = len
    /\ Len(a) >= HDR /\ Len(a) + Left' = HDR + len
  BY DEF Replies
<1>2. R' = R \o a /\ R \in Seq(Nat)
  BY <1>1, AnswerGrows, QType
<1>3. R = << >>
  BY <1>2, EmptySeq
<1>4. R' = a
  BY <1>2, <1>3, ConcatEmptySeq
<1> QED
  BY <1>1, <1>4

(* Requests and their messages.                                            *)
LEMMA RequestFacts ==
  ASSUME NEW r \in PlainRequests
  PROVE  /\ r.op \in Nat /\ r.ep \in Nat /\ r.p1 \in Nat /\ r.p2 \in Nat
         /\ r.data \in Seq(Nat) /\ Len(r.data) \in Nat
         /\ r.data # << >> <=> Len(r.data) # 0
<1>1. Byte \subseteq Nat
  BY DEF Byte, ALL_ONES, api_op_resp
<1>2. CASE r \in Requests
  <2>1. /\ r.op \in Byte /\ r.ep \in Byte /\ r.p1 \in Byte /\ r.p2 \in Byte
        /\ r.data \in Seq(Byte)
    <3>1. /\ r.op \in 0 .. api_op_resp - 1
          /\ r.ep \in Byte /\ r.p1 \in Byte /\ r.p2 \in Byte
          /\ r.data \in Seq(Byte)
      BY <1>2, HostAssumption, Zenon
    <3>2. r.op \in Byte
      BY <3>1 DEF Byte, ALL_ONES, api_op_resp
    <3> QED
      BY <3>1, <3>2
  <2>2. r.data \in Seq(Nat)
    BY <1>1, <2>1, SeqMonotonic
  <2>3. Len(r.data) \in Nat /\ (r.data # << >> <=> Len(r.data) # 0)
    BY <2>2, EmptySeq
  <2> QED
    BY <1>1, <2>1, <2>2, <2>3
<1>3. CASE r = Verify
  <2>1. SYS_DESCR \in Seq(Byte)
    BY DeviceAssumption
  <2>2. Len(SYS_DESCR) \in Nat
    BY <2>1
  <2>3. r.data = << >> /\ r.op = 3 /\ r.ep = 0 /\ r.p1 = 0 /\ r.p2 = Len(SYS_DESCR)
    BY <1>3 DEF Verify, api_op_buf_rd, API_EP_SYS
  <2> QED
    BY <2>2, <2>3
<1> QED
  BY <1>2, <1>3 DEF PlainRequests

LEMMA MessageFacts ==
  ASSUME NEW r \in PlainRequests, NEW sn \in Nat
  PROVE  /\ Message(r, sn) \in Seq(Nat)
         /\ Len(Message(r, sn)) = HDR + Len(r.data)
         /\ Message(r, sn)[1] = r.op /\ Message(r, sn)[2] = r.ep
         /\ Message(r, sn)[3] = 0 /\ Message(r, sn)[4] = sn
         /\ Message(r, sn)[5] = r.p1 /\ Message(r, sn)[6] = r.p2
         /\ Message(r, sn)[7] = Len(r.data)
<1> DEFINE p == [op |-> r.op, ep |-> r.ep, flags |-> 0, sn |-> sn,
                 p1 |-> r.p1, p2 |-> r.p2, data_len |-> Len(r.data)]
<1>1. r.data \in Seq(Nat) /\ Len(r.data) \in Nat
  BY RequestFacts
<1>2. p \in Header
  BY RequestFacts DEF Header
<1>3. /\ p.op = r.op /\ p.ep = r.ep /\ p.flags = 0 /\ p.sn = sn
      /\ p.p1 = r.p1 /\ p.p2 = r.p2 /\ p.data_len = Len(r.data)
  OBVIOUS
<1>4. Message(r, sn) = Bytes(p) \o r.data
  BY DEF Message
<1> HIDE DEF p
<1>5. /\ Bytes(p) \in Seq(Nat) /\ Len(Bytes(p)) = HDR
      /\ Bytes(p)[1] = p.op /\ Bytes(p)[2] = p.ep /\ Bytes(p)[3] = p.flags
      /\ Bytes(p)[4] = p.sn /\ Bytes(p)[5] = p.p1 /\ Bytes(p)[6] = p.p2
      /\ Bytes(p)[7] = p.data_len
  BY <1>2, BytesFacts
<1>6. /\ Message(r, sn) \in Seq(Nat)
      /\ Len(Message(r, sn)) = Len(Bytes(p)) + Len(r.data)
      /\ \A i \in 1 .. Len(Bytes(p)) : Message(r, sn)[i] = Bytes(p)[i]
  <2> DEFINE b == Bytes(p)  d == r.data
  <2>1. b \in Seq(Nat) /\ d \in Seq(Nat)
    BY <1>1, <1>5
  <2> HIDE DEF b, d
  <2>2. /\ b \o d \in Seq(Nat) /\ Len(b \o d) = Len(b) + Len(d)
        /\ \A i \in 1 .. Len(b) : (b \o d)[i] = b[i]
    BY <2>1, ConcatFacts
  <2> QED
    BY <1>4, <2>2 DEF b, d
<1>7. \A i \in 1 .. 7 : Message(r, sn)[i] = Bytes(p)[i]
  BY <1>5, <1>6 DEF HDR
<1>8. /\ Message(r, sn)[1] = Bytes(p)[1] /\ Message(r, sn)[2] = Bytes(p)[2]
      /\ Message(r, sn)[3] = Bytes(p)[3] /\ Message(r, sn)[4] = Bytes(p)[4]
      /\ Message(r, sn)[5] = Bytes(p)[5] /\ Message(r, sn)[6] = Bytes(p)[6]
      /\ Message(r, sn)[7] = Bytes(p)[7]
  BY <1>7
<1> QED
  BY <1>3, <1>5, <1>6, <1>8

(* The verdict on a header is the one on the request it is from. *)
LEMMA SameVerdict ==
  ASSUME NEW r \in PlainRequests, NEW p,
         p.op = r.op, p.ep = r.ep, p.p1 = r.p1, p.p2 = r.p2, p.data_len = Len(r.data)
  PROVE  PacketVerdict(p) = Verdict(r)
<1>1. r.data # << >> <=> p.data_len # 0
  BY RequestFacts
<1> QED
  BY <1>1 DEF PacketVerdict, Verdict

(* A plain request, in numbers.                                            *)
LEMMA PlainFacts ==
  /\ FLUSH_LEN \in Nat /\ QUEUE_SIZE \in Nat
  /\ FLUSH_LEN >= HDR /\ QUEUE_SIZE > HDR + 1
  /\ \A r \in PlainRequests :
       /\ r.op < api_op_resp
       /\ Len(r.data) # 0 => Verdict(r) = 0 /\ is_data_write_op(r.op)
       /\ ~(r.op = api_op_str_rd /\ r.ep = API_EP_SEQ /\ r.p2 = 0)
       /\ r.op \in {api_op_buf_rd, api_op_buf_wr} =>
            r.p1 + r.p2 < WORD /\ r.p1 + api_op_resp < WORD
       /\ Len(r.data) <= FLUSH_LEN
       /\ HDR + r.p2 < QUEUE_SIZE
<1>1. /\ FLUSH_LEN \in Nat /\ QUEUE_SIZE \in Nat
      /\ FLUSH_LEN >= HDR /\ QUEUE_SIZE > HDR + 1 /\ QUEUE_SIZE > HDR + Len(SYS_DESCR)
  BY HostAssumption
<1>2. WORD \in Nat /\ HDR \in Nat /\ api_op_resp \in Nat
  BY DeviceAssumption DEF HDR, api_op_resp
<1> SUFFICES ASSUME NEW r \in PlainRequests
             PROVE  /\ r.op < api_op_resp
                    /\ Len(r.data) # 0 => Verdict(r) = 0 /\ is_data_write_op(r.op)
                    /\ ~(r.op = api_op_str_rd /\ r.ep = API_EP_SEQ /\ r.p2 = 0)
                    /\ r.op \in {api_op_buf_rd, api_op_buf_wr} =>
                         r.p1 + r.p2 < WORD /\ r.p1 + api_op_resp < WORD
                    /\ Len(r.data) <= FLUSH_LEN
                    /\ HDR + r.p2 < QUEUE_SIZE
  BY <1>1
<1>3. /\ r.op \in Nat /\ r.ep \in Nat /\ r.p1 \in Nat /\ r.p2 \in Nat
      /\ Len(r.data) \in Nat /\ (r.data # << >> <=> Len(r.data) # 0)
      /\ r \in Requests \cup {Verify} /\ StraysBy(r) = {}
  BY RequestFacts DEF PlainRequests
<1>4. /\ "payload" \notin StraysBy(r) /\ "empty read" \notin StraysBy(r)
      /\ "wrap" \notin StraysBy(r) /\ "long" \notin StraysBy(r)
  BY <1>3
<1>5. /\ ~(r.data # << >> /\ Verdict(r) # 0)
      /\ ~(r.op = api_op_str_rd /\ r.ep = API_EP_SEQ /\ r.p2 = 0)
      /\ r.op \in {api_op_buf_rd, api_op_buf_wr} =>
           ~(r.p1 + r.p2 >= WORD) /\ ~(r.p1 + api_op_resp >= WORD)
      /\ ~(HDR + r.p2 >= QUEUE_SIZE)
  BY <1>4 DEF StraysBy
<1>6. r.op < api_op_resp /\ Len(r.data) <= FLUSH_LEN
  <2>1. CASE r \in Requests
    <3>1. r.op \in 0 .. api_op_resp - 1 /\ Len(r.data) <= FLUSH_LEN
      BY <2>1, HostAssumption
    <3> QED
      BY <1>2, <3>1
  <2>2. CASE r = Verify
    <3>1. r.op = 3 /\ r.data = << >>
      BY <2>2 DEF Verify, api_op_buf_rd
    <3> QED
      BY <1>1, <1>3, <3>1 DEF api_op_resp
  <2> QED
    BY <1>3, <2>1, <2>2
<1>7. Verdict(r) = 0 => (is_data_write_op(r.op) <=> r.data # << >>)
  <2>1. ASSUME is_data_write_op(r.op) # (r.data # << >>)
        PROVE  Verdict(r) = 4
    BY <2>1 DEF Verdict, api_fl_err_sz
  <2>2. is_data_write_op(r.op) \in BOOLEAN /\ (r.data # << >>) \in BOOLEAN
    BY DEF is_data_write_op
  <2> QED
    BY <2>1, <2>2
<1> QED
  BY <1>1, <1>2, <1>3, <1>5, <1>6, <1>7

(* So is the one a program makes first.                                    *)
LEMMA VerifyPlain ==
  Verify \in PlainRequests
<1>1. /\ Len(SYS_DESCR) \in Nat /\ Len(SYS_DESCR) < WORD /\ api_op_resp < WORD
      /\ WORD \in Nat
  <2>1. WORD \in Nat /\ WORD > 2 * api_op_resp
    BY DeviceAssumption, Zenon
  <2>2. Len(SYS_DESCR) \in Byte
    BY DeviceAssumption, Zenon
  <2>3. Len(SYS_DESCR) \in 0 .. 15
    BY <2>2 DEF Byte, ALL_ONES, api_op_resp
  <2> DEFINE x == Len(SYS_DESCR)
  <2>4. x \in 0 .. 15
    BY <2>3
  <2> HIDE DEF x
  <2>5. x \in Nat /\ x < WORD /\ api_op_resp < WORD /\ WORD \in Nat
    BY <2>1, <2>4 DEF api_op_resp
  <2> QED
    BY <2>5 DEF x
<1>2. QUEUE_SIZE \in Nat /\ QUEUE_SIZE > HDR + Len(SYS_DESCR) /\ HDR \in Nat
  BY HostAssumption DEF HDR
<1>3. /\ Verify.op = api_op_buf_rd /\ Verify.p1 = 0 /\ Verify.p2 = Len(SYS_DESCR)
      /\ Verify.data = << >>
  BY DEF Verify
<1>4. /\ "payload" \notin StraysBy(Verify) /\ "empty read" \notin StraysBy(Verify)
      /\ "wrap" \notin StraysBy(Verify) /\ "long" \notin StraysBy(Verify)
  <2>1. api_op_buf_rd # api_op_str_rd
    BY DEF api_op_buf_rd, api_op_str_rd
  <2>2. ~(0 + Len(SYS_DESCR) >= WORD) /\ ~(0 + api_op_resp >= WORD)
        /\ ~(HDR + Len(SYS_DESCR) >= QUEUE_SIZE)
    BY <1>1, <1>2 DEF api_op_resp
  <2> QED
    BY <1>3, <2>1, <2>2 DEF StraysBy
<1>5. StraysBy(Verify) = {}
  <2>1. StraysBy(Verify) \subseteq {"payload", "empty read", "wrap", "long"}
    BY DEF StraysBy
  <2> QED
    BY <1>4, <2>1
<1> QED
  BY <1>5 DEF PlainRequests

(* Skipping flush bytes in front of a message.                             *)
LEMMA SkipFlush ==
  ASSUME NEW q \in Seq(Nat), NEW k \in Nat, NEW n \in Nat, NEW m, Carries(q, k, n, m),
         n >= 1, m[1] < api_op_resp,
         NEW j \in Nat, j <= Len(q), \A i \in 1 .. j : IsResponse(q[i])
  PROVE  /\ j <= k /\ Carries(Drop(q, j), k - j, n, m) /\ Len(Drop(q, j)) = Len(q) - j
<1>1. Len(q) \in Nat
  OBVIOUS
<1>2. k + n <= Len(q)
  BY DEF Carries
<1>3. \A i \in 1 .. Len(q) :
       q[i] = IF i \in k + 1 .. k + n THEN m[i - k] ELSE api_op_resp
  BY DEF Carries
<1>4. j <= k
  <2> SUFFICES ASSUME j > k PROVE FALSE
    OBVIOUS
  <2>1. k + 1 \in 1 .. j /\ k + 1 \in 1 .. Len(q) /\ k + 1 \in k + 1 .. k + n /\ (k + 1) - k = 1
    BY <1>1, <1>2
  <2>2. q[k + 1] = m[1]
    BY <1>3, <2>1
  <2>3. IsResponse(m[1])
    BY <2>1, <2>2
  <2>4. q[k + 1] \in Nat
    BY <2>1
  <2> QED
    BY <2>2, <2>3, <2>4 DEF IsResponse, api_op_resp
<1>5. /\ Drop(q, j) \in Seq(Nat) /\ Len(Drop(q, j)) = Len(q) - j
      /\ \A i \in 1 .. Len(q) - j : Drop(q, j)[i] = q[j + i]
  BY DropFacts
<1>6. k - j \in Nat /\ (k - j) + n <= Len(q) - j
  BY <1>1, <1>2, <1>4
<1>7. ASSUME NEW i \in 1 .. Len(q) - j
      PROVE  Drop(q, j)[i] = IF i \in (k - j) + 1 .. (k - j) + n THEN m[i - (k - j)]
                             ELSE api_op_resp
  <2>1. j + i \in 1 .. Len(q)
    BY <1>1
  <2>2. (j + i \in k + 1 .. k + n) <=> (i \in (k - j) + 1 .. (k - j) + n)
    BY <1>1, <1>4
  <2>3. (j + i) - k = i - (k - j)
    BY <1>1
  <2> QED
    BY <1>3, <1>5, <2>1, <2>2, <2>3
<1> QED
  BY <1>4, <1>5, <1>6, <1>7 DEF Carries

(* A header at the front is that of the message, or what there is of it    *)
(* and flush bytes.                                                        *)
LEMMA FrontOfMessage ==
  ASSUME NEW q \in Seq(Nat), HDR <= Len(q), ~IsResponse(q[1]),
         NEW k \in Nat, NEW n \in Nat, NEW m, Carries(q, k, n, m)
  PROVE  /\ k = 0 /\ n <= Len(q)
         /\ \A i \in 1 .. Len(q) : q[i] = IF i <= n THEN m[i] ELSE api_op_resp
         /\ Fields(q) \in Header
         /\ Fields(q).op = (IF 1 <= n THEN m[1] ELSE api_op_resp)
         /\ Fields(q).ep = (IF 2 <= n THEN m[2] ELSE api_op_resp)
         /\ Fields(q).flags = (IF 3 <= n THEN m[3] ELSE api_op_resp)
         /\ Fields(q).sn = (IF 4 <= n THEN m[4] ELSE api_op_resp)
         /\ Fields(q).p1 = (IF 5 <= n THEN m[5] ELSE api_op_resp)
         /\ Fields(q).p2 = (IF 6 <= n THEN m[6] ELSE api_op_resp)
         /\ Fields(q).data_len = (IF 7 <= n THEN m[7] ELSE api_op_resp)
<1>1. Len(q) \in Nat /\ Len(q) >= 7
  BY DEF HDR
<1>2. k + n <= Len(q)
  BY DEF Carries
<1>3. \A i \in 1 .. Len(q) :
       q[i] = IF i \in k + 1 .. k + n THEN m[i - k] ELSE api_op_resp
  BY DEF Carries
<1>4. k = 0
  <2> SUFFICES ASSUME k # 0 PROVE FALSE
    OBVIOUS
  <2>1. 1 \in 1 .. Len(q) /\ ~(1 \in k + 1 .. k + n)
    BY <1>1
  <2>2. q[1] = api_op_resp
    BY <1>3, <2>1
  <2> QED
    BY <2>2 DEF IsResponse, api_op_resp
<1>5. \A i \in 1 .. Len(q) : q[i] = IF i <= n THEN m[i] ELSE api_op_resp
  <2> TAKE i \in 1 .. Len(q)
  <2>1. (i \in k + 1 .. k + n <=> i <= n) /\ i - k = i
    BY <1>1, <1>4
  <2> QED
    BY <1>3, <2>1
<1>6. 1 \in 1 .. Len(q) /\ 2 \in 1 .. Len(q) /\ 3 \in 1 .. Len(q) /\ 4 \in 1 .. Len(q)
      /\ 5 \in 1 .. Len(q) /\ 6 \in 1 .. Len(q) /\ 7 \in 1 .. Len(q)
  BY <1>1
<1>7. /\ q[1] = (IF 1 <= n THEN m[1] ELSE api_op_resp)
      /\ q[2] = (IF 2 <= n THEN m[2] ELSE api_op_resp)
      /\ q[3] = (IF 3 <= n THEN m[3] ELSE api_op_resp)
      /\ q[4] = (IF 4 <= n THEN m[4] ELSE api_op_resp)
      /\ q[5] = (IF 5 <= n THEN m[5] ELSE api_op_resp)
      /\ q[6] = (IF 6 <= n THEN m[6] ELSE api_op_resp)
      /\ q[7] = (IF 7 <= n THEN m[7] ELSE api_op_resp)
  BY <1>5, <1>6
<1>8. /\ Fields(q) \in Header
      /\ Fields(q).op = q[1] /\ Fields(q).ep = q[2] /\ Fields(q).flags = q[3]
      /\ Fields(q).sn = q[4] /\ Fields(q).p1 = q[5] /\ Fields(q).p2 = q[6]
      /\ Fields(q).data_len = q[7]
  BY FieldsFacts
<1>9. n <= Len(q)
  BY <1>1, <1>2, <1>4
<1> QED
  BY <1>4, <1>5, <1>7, <1>8, <1>9

(* A header that is whole.                                                 *)
LEMMA WholeHeader ==
  ASSUME NEW q \in Seq(Nat), HDR <= Len(q), ~IsResponse(q[1]), NEW k \in Nat,
         NEW r \in PlainRequests, NEW sn \in Nat, NEW n \in Nat, n >= HDR,
         Carries(q, k, n, Message(r, sn))
  PROVE  LET p == Fields(q)
         IN /\ p.op = r.op /\ p.ep = r.ep /\ p.flags = 0 /\ p.sn = sn
            /\ p.p1 = r.p1 /\ p.p2 = r.p2 /\ p.data_len = Len(r.data)
            /\ PacketVerdict(p) = Verdict(r) /\ Tame(p)
            /\ AcceptedWrite(p) => is_data_write_op(r.op)
            /\ ~AcceptedWrite(p) => Len(r.data) = 0
<1> DEFINE p == Fields(q)
           m == Message(r, sn)
<1>1. /\ m[1] = r.op /\ m[2] = r.ep /\ m[3] = 0 /\ m[4] = sn
      /\ m[5] = r.p1 /\ m[6] = r.p2 /\ m[7] = Len(r.data)
  BY MessageFacts
<1>2. n >= 7
  BY DEF HDR
<1>3. /\ p.op = (IF 1 <= n THEN m[1] ELSE api_op_resp)
      /\ p.ep = (IF 2 <= n THEN m[2] ELSE api_op_resp)
      /\ p.flags = (IF 3 <= n THEN m[3] ELSE api_op_resp)
      /\ p.sn = (IF 4 <= n THEN m[4] ELSE api_op_resp)
      /\ p.p1 = (IF 5 <= n THEN m[5] ELSE api_op_resp)
      /\ p.p2 = (IF 6 <= n THEN m[6] ELSE api_op_resp)
      /\ p.data_len = (IF 7 <= n THEN m[7] ELSE api_op_resp)
  BY FrontOfMessage
<1> HIDE DEF p, m
<1>4. 1 <= n /\ 2 <= n /\ 3 <= n /\ 4 <= n /\ 5 <= n /\ 6 <= n /\ 7 <= n
  BY <1>2
<1>5. /\ p.op = r.op /\ p.ep = r.ep /\ p.flags = 0 /\ p.sn = sn
      /\ p.p1 = r.p1 /\ p.p2 = r.p2 /\ p.data_len = Len(r.data)
  BY <1>1, <1>3, <1>4
<1>6. PacketVerdict(p) = Verdict(r)
  BY <1>5, SameVerdict
<1>7. Tame(p)
  <2>1. /\ ~(r.op = api_op_str_rd /\ r.ep = API_EP_SEQ /\ r.p2 = 0) /\ r.p2 \in Nat
        /\ r.op \in {api_op_buf_rd, api_op_buf_wr} => r.p1 + r.p2 < WORD
    BY PlainFacts, RequestFacts
  <2> QED
    BY <1>5, <2>1 DEF Tame
<1>8. AcceptedWrite(p) => is_data_write_op(r.op)
  BY <1>5 DEF AcceptedWrite
<1>9. ~AcceptedWrite(p) => Len(r.data) = 0
  <2>1. Len(r.data) # 0 => Verdict(r) = 0 /\ is_data_write_op(r.op)
    BY PlainFacts
  <2> QED
    BY <1>5, <1>6, <2>1 DEF AcceptedWrite
<1> QED
  BY <1>5, <1>6, <1>7, <1>8, <1>9 DEF p

(* A header that has been cut: the rest of it is taken from the flush, and *)
(* so is what is taken for its payload.                                    *)
LEMMA CutHeader ==
  ASSUME NEW q \in Seq(Nat), HDR <= Len(q), ~IsResponse(q[1]), NEW k \in Nat,
         NEW r \in PlainRequests, NEW sn \in Nat, NEW n \in Nat, 1 <= n, n < HDR,
         Carries(q, k, n, Message(r, sn))
  PROVE  LET p == Fields(q)
         IN /\ p.op = r.op /\ p.data_len = api_op_resp /\ Tame(p)
            /\ AcceptedWrite(p) => n >= 2 /\ is_data_write_op(r.op)
            /\ ~AcceptedWrite(p) => PacketVerdict(p) # 0
<1> DEFINE p == Fields(q)
           m == Message(r, sn)
<1>1. m[1] = r.op /\ m[2] = r.ep /\ m[5] = r.p1 /\ m[6] = r.p2
  BY MessageFacts
<1>2. n <= 6
  BY DEF HDR
<1>3. /\ p.op = (IF 1 <= n THEN m[1] ELSE api_op_resp)
      /\ p.ep = (IF 2 <= n THEN m[2] ELSE api_op_resp)
      /\ p.p1 = (IF 5 <= n THEN m[5] ELSE api_op_resp)
      /\ p.p2 = (IF 6 <= n THEN m[6] ELSE api_op_resp)
      /\ p.data_len = (IF 7 <= n THEN m[7] ELSE api_op_resp)
  <2>1. /\ q \in Seq(Nat) /\ HDR <= Len(q) /\ ~IsResponse(q[1])
        /\ k \in Nat /\ n \in Nat /\ Carries(q, k, n, m)
    OBVIOUS
  <2> HIDE DEF m
  <2> QED
    BY <2>1, FrontOfMessage
<1> HIDE DEF p, m
<1>4. p.op = r.op /\ p.data_len = api_op_resp
  BY <1>1, <1>2, <1>3
<1>5. Tame(p)
  <2>1. /\ ~(r.op = api_op_str_rd /\ r.ep = API_EP_SEQ /\ r.p2 = 0)
        /\ r.op \in {api_op_buf_rd, api_op_buf_wr} =>
             r.p1 + r.p2 < WORD /\ r.p1 + api_op_resp < WORD
        /\ r.p1 \in Nat /\ r.p2 \in Nat /\ api_op_resp + api_op_resp < WORD
    BY PlainFacts, RequestFacts, DeviceAssumption DEF api_op_resp
  <2>2. p.op = api_op_str_rd /\ p.ep = API_EP_SEQ => p.p2 > 0
    <3>1. CASE n = 6
      <4>1. p.op = r.op /\ p.ep = r.ep /\ p.p2 = r.p2
        BY <1>1, <1>3, <3>1
      <4> QED
        BY <2>1, <4>1
    <3>2. CASE n # 6
      <4>1. p.p2 = api_op_resp
        BY <1>2, <1>3, <3>2
      <4> QED
        BY <4>1 DEF api_op_resp
    <3> QED
      BY <3>1, <3>2
  <2>3. p.op \in {api_op_buf_rd, api_op_buf_wr} => p.p1 + p.p2 < WORD
    <3>1. CASE n = 6
      BY <1>1, <1>3, <1>4, <2>1, <3>1
    <3>2. CASE n = 5
      <4>1. p.p1 = r.p1 /\ p.p2 = api_op_resp
        BY <1>1, <1>3, <3>2
      <4> QED
        BY <1>4, <2>1, <4>1
    <3>3. CASE n < 5
      <4>1. p.p1 = api_op_resp /\ p.p2 = api_op_resp
        BY <1>3, <3>3
      <4> QED
        BY <2>1, <4>1
    <3> QED
      BY <1>2, <3>1, <3>2, <3>3
  <2> QED
    BY <2>2, <2>3 DEF Tame
<1>6. AcceptedWrite(p) => n >= 2 /\ is_data_write_op(r.op)
  <2>0. AcceptedWrite(p) => is_data_write_op(r.op)
    BY <1>4 DEF AcceptedWrite
  <2> SUFFICES ASSUME n = 1, AcceptedWrite(p) PROVE FALSE
    BY <2>0
  <2>1. p.ep = api_op_resp
    BY <1>3
  <2>2. p.ep \notin DOMAIN EpOps
    BY <2>1, EpOpsFacts DEF api_op_resp, API_EP_SYS, API_EP_APP, API_EP_SEQ, API_EP_ECHO
  <2>3. PacketVerdict(p) # 0
    BY <2>2 DEF PacketVerdict, api_fl_err_sz, api_fl_err_ep
  <2> QED
    BY <2>3 DEF AcceptedWrite
<1>7. ~AcceptedWrite(p) => PacketVerdict(p) # 0
  <2> SUFFICES ASSUME ~is_data_write_op(p.op) PROVE PacketVerdict(p) # 0
    BY DEF AcceptedWrite
  <2>1. p.data_len # 0
    BY <1>4 DEF api_op_resp
  <2>2. is_data_write_op(p.op) # (p.data_len # 0)
    BY <2>1 DEF is_data_write_op
  <2>3. PacketVerdict(p) = api_fl_err_sz
    BY <2>2 DEF PacketVerdict
  <2> QED
    BY <2>3 DEF api_fl_err_sz
<1> QED
  BY <1>4, <1>5, <1>6, <1>7 DEF p

LEMMA LeftAndNeed ==
  ASSUME DevInv
  PROVE  /\ Left \in Nat /\ (state # "responding" => Left = 0)
         /\ state = "responding" => Left > 0
         /\ Need \in Nat /\ (state # "processing" => Need = 0)
         /\ state = "processing" => Need > 0
<1>1. CASE state = "idle"
  BY <1>1 DEF Left, Need
<1>2. CASE state # "idle"
  <2>1. DevType /\ state \in {"responding", "processing"} /\ ctx.len \in Nat
    BY <1>2 DEF DevInv, DevType
  <2>2. Len(pkt_buf) = HDR
    BY <2>1 DEF DevInv, RespondingOK, ProcessingOK
  <2>3. pkt.data_len \in Nat
    BY <2>1, <2>2, PktFacts DEF Header
  <2>4. state = "responding" => Left > 0
    BY DEF DevInv, RespondingOK
  <2>5. state = "processing" => Need > 0
    BY DEF DevInv, ProcessingOK
  <2>6. Left \in Nat /\ (state # "responding" => Left = 0)
    BY <2>1, <2>3 DEF Left
  <2>7. Need \in Nat /\ (state # "processing" => Need = 0)
    BY <2>1, <2>3 DEF Need
  <2> QED
    BY <2>1, <2>4, <2>5, <2>6, <2>7
<1> QED
  BY <1>1, <1>2

LEMMA LeftType ==
  ASSUME DevInv
  PROVE  Left \in Nat
BY LeftAndNeed

(* What is behind a front of flush bytes is flush.                         *)
LEMMA FlushDrops ==
  ASSUME NEW q \in Seq(Nat), NEW j \in Nat, j <= Len(q),
         \A i \in 1 .. Len(q) : i > j => q[i] = api_op_resp
  PROVE  OnlyFlush(Drop(q, j))
<1>1. /\ Len(Drop(q, j)) = Len(q) - j
      /\ \A i \in 1 .. Len(q) - j : Drop(q, j)[i] = q[j + i]
  BY DropFacts
<1>2. ASSUME NEW i \in 1 .. Len(q) - j
      PROVE  Drop(q, j)[i] = api_op_resp
  <2>1. j + i \in 1 .. Len(q) /\ j + i > j
    BY Len(q) \in Nat
  <2> QED
    BY <1>1, <2>1
<1> QED
  BY <1>1, <1>2 DEF OnlyFlush

LEMMA CutAsksForBytes ==
  ASSUME DevType, HostType, Cut
  PROVE  FrontAsked
<1> SUFFICES ASSUME state = "idle", HDR <= Len(Q), ~IsResponse(Q[1])
             PROVE  Tame(Fields(Q))
  BY DEF FrontAsked
<1>1. Q \in Seq(Nat) /\ 1 \in 1 .. Len(Q)
  BY QType DEF HDR
<1>2. CASE CutWaits
  <2>1. PICK k \in Nat, r \in PlainRequests, sn \in Nat : \E n \in 1 .. Len(Message(r, sn)) :
               Carries(Q, k, n, Message(r, sn))
    BY <1>2 DEF CutWaits
  <2>2. PICK n \in 1 .. Len(Message(r, sn)) : Carries(Q, k, n, Message(r, sn))
    BY <2>1
  <2>3. n \in Nat /\ 1 <= n
    OBVIOUS
  <2>4. CASE n >= HDR
    BY <1>1, <2>2, <2>3, <2>4, WholeHeader
  <2>5. CASE ~(n >= HDR)
    <3>1. n < HDR
      BY <2>3, <2>5 DEF HDR
    <3> QED
      BY <1>1, <2>2, <2>3, <3>1, CutHeader
  <2> QED
    BY <2>4, <2>5
<1>3. CASE CutAnswered
  BY <1>1, <1>3 DEF CutAnswered, OnlyFlush, IsResponse, api_op_resp
<1>4. CASE CutTaken
  BY <1>4 DEF CutTaken
<1> QED
  BY <1>2, <1>3, <1>4 DEF Cut

(* What is left of a request that was cut stays what it is.                *)
LEMMA CutWaitsMoves ==
  ASSUME DevInv, HostType, UNCHANGED <<h_queue, hostVars>>, CutWaits, DeviceMoves
  PROVE  Cut'
<1>1. state = "idle" /\ Len(R) = 0 /\ DevType /\ Q \in Seq(Nat) /\ Len(Q) \in Nat
      /\ h_state' = h_state
  BY QType DEF CutWaits, DevInv, hostVars
<1>2. PICK k \in Nat, r \in PlainRequests, sn \in Nat : \E n \in 1 .. Len(Message(r, sn)) :
       /\ Carries(Q, k, n, Message(r, sn))
       /\ MadeUp(r, n)
       /\ h_state \in Opening => Len(Q) >= k + n + FLUSH_LEN
  BY DEF CutWaits
<1> DEFINE m == Message(r, sn)
<1>3. PICK n \in 1 .. Len(m) :
       /\ Carries(Q, k, n, m)
       /\ MadeUp(r, n)
       /\ h_state \in Opening => Len(Q) >= k + n + FLUSH_LEN
  BY <1>2
<1>4. n \in Nat /\ 1 <= n /\ n <= HDR + Len(r.data) /\ m[1] = r.op /\ Len(r.data) \in Nat
  <2>1. Len(m) = HDR + Len(r.data) /\ m[1] = r.op /\ Len(r.data) \in Nat
    BY MessageFacts, RequestFacts
  <2> HIDE DEF m
  <2> QED
    BY <2>1
<1>5. /\ FLUSH_LEN \in Nat /\ QUEUE_SIZE \in Nat
      /\ FLUSH_LEN >= HDR /\ QUEUE_SIZE > HDR + 1
      /\ r.op < api_op_resp
      /\ Len(r.data) <= FLUSH_LEN
      /\ HDR + r.p2 < QUEUE_SIZE
  BY PlainFacts
<1> HIDE DEF m
<1>6. CASE Skips
  <2>1. PICK j \in 1 .. HDR :
            /\ j <= Len(Q)
            /\ \A i \in 1 .. j : IsResponse(Q[i])
            /\ Q' = Drop(Q, j)
            /\ state' = "idle" /\ down' = down
    BY <1>6 DEF Skips
  <2>2. j \in Nat
    OBVIOUS
  <2>3. j <= k /\ Carries(Q', k - j, n, m) /\ Len(Q') = Len(Q) - j
    BY <1>1, <1>3, <1>4, <1>5, <2>1, <2>2, SkipFlush
  <2>4. k - j \in Nat
    BY <2>2, <2>3
  <2>5. h_state \in Opening => Len(Q') >= (k - j) + n + FLUSH_LEN
    BY <1>1, <1>3, <1>4, <1>5, <2>2, <2>3
  <2>6. R' = R
    BY <2>1, AnswerStays
  <2>7. CutWaits'
    <3>1. \E kk \in Nat, rr \in PlainRequests, ss \in Nat : \E nn \in 1 .. Len(Message(rr, ss)) :
            /\ Carries(Q', kk, nn, Message(rr, ss))
            /\ MadeUp(rr, nn)
            /\ h_state' \in Opening => Len(Q') >= kk + nn + FLUSH_LEN
      BY <1>1, <1>3, <2>3, <2>4, <2>5 DEF m
    <3> QED
      BY <1>1, <2>1, <2>6, <3>1 DEF CutWaits, Carries, MadeUp
  <2> QED
    BY <2>7 DEF Cut
<1>7. CASE HDR <= Len(Q) /\ ~IsResponse(Q[1]) /\ Moves(Fields(Q))
  <2> DEFINE p == Fields(Q)
  <2>1. /\ p \in Header /\ n <= Len(Q)
        /\ \A i \in 1 .. Len(Q) : Q[i] = IF i <= n THEN m[i] ELSE api_op_resp
        /\ k = 0
    <3>1. HDR <= Len(Q) /\ ~IsResponse(Q[1])
      BY <1>7
    <3>2. Carries(Q, k, n, m) /\ n \in Nat /\ k \in Nat /\ Q \in Seq(Nat)
      BY <1>1, <1>3, <1>4
    <3>3. /\ k = 0 /\ n <= Len(Q) /\ Fields(Q) \in Header
          /\ \A i \in 1 .. Len(Q) : Q[i] = IF i <= n THEN m[i] ELSE api_op_resp
      BY <3>1, <3>2, FrontOfMessage, Zenon
    <3> QED
      BY <3>3
  <2>2. /\ p.data_len \in Nat /\ p.p2 \in Nat
        /\ AcceptedWrite(p) =>
             /\ p.data_len <= FLUSH_LEN
             /\ n <= HDR + p.data_len /\ n + FLUSH_LEN >= HDR + p.data_len
        /\ ~AcceptedWrite(p) =>
             n <= HDR /\ (PacketVerdict(p) = 0 => HDR + p.p2 < QUEUE_SIZE)
    <3>1. p.data_len \in Nat /\ p.p2 \in Nat
      BY <2>1 DEF Header
    <3>2. CASE n >= HDR
      <4>1. /\ p.p2 = r.p2 /\ p.data_len = Len(r.data)
            /\ ~AcceptedWrite(p) => Len(r.data) = 0
        BY <1>1, <1>3, <1>4, <1>7, <3>2, WholeHeader DEF m
      <4> HIDE DEF p
      <4> QED
        BY <1>4, <1>5, <3>1, <3>2, <4>1 DEF HDR
    <3>3. CASE ~(n >= HDR)
      <4>1. n < HDR
        BY <1>4, <3>3 DEF HDR
      <4>2. /\ p.data_len = api_op_resp
            /\ AcceptedWrite(p) => n >= 2 /\ is_data_write_op(r.op)
            /\ ~AcceptedWrite(p) => PacketVerdict(p) # 0
        BY <1>1, <1>3, <1>4, <1>7, <4>1, CutHeader DEF m
      <4> HIDE DEF p
      <4>3. AcceptedWrite(p) => FLUSH_LEN >= (HDR - n) + api_op_resp
        BY <1>3, <1>4, <4>1, <4>2 DEF MadeUp, HDR
      <4> QED
        BY <1>4, <1>5, <3>1, <4>1, <4>2, <4>3 DEF HDR, api_op_resp
    <3> QED
      BY <3>2, <3>3
  <2> HIDE DEF p
  <2>3. HDR \in Nat
    BY DEF HDR
  <2>4. CASE AcceptedWrite(p) /\ \E x \in Nat :
                  /\ HDR + x <= Len(Q) /\ Q' = Drop(Q, HDR + x)
                  /\ Awaits(p) /\ Need' = p.data_len - x
    <3>1. PICK x \in Nat : /\ HDR + x <= Len(Q) /\ Q' = Drop(Q, HDR + x)
                           /\ Awaits(p) /\ Need' = p.data_len - x
      BY <2>4
    <3>2. /\ Len(Q') = Len(Q) - (HDR + x)
          /\ \A i \in 1 .. Len(Q) - (HDR + x) : Q'[i] = Q[HDR + x + i]
      <4>1. HDR + x \in Nat
        BY <2>3
      <4> QED
        BY <1>1, <3>1, <4>1, DropFacts
    <3>3. ASSUME NEW i \in 1 .. Len(Q'), i > Need'
          PROVE  Q'[i] = api_op_resp
      <4>1. HDR + x + i \in 1 .. Len(Q) /\ i \in 1 .. Len(Q) - (HDR + x)
        BY <1>1, <2>3, <3>1, <3>2
      <4>2. ~(HDR + x + i <= n)
        BY <1>4, <2>2, <2>3, <2>4, <3>1, <3>3
      <4> QED
        BY <2>1, <3>2, <4>1, <4>2
    <3>4. h_state' \in Opening => Len(Q') >= Need'
      <4>1. h_state' \in Opening => Len(Q) >= n + FLUSH_LEN
        BY <1>1, <1>3, <1>4, <2>1
      <4>2. n + FLUSH_LEN >= HDR + p.data_len /\ p.data_len \in Nat
        BY <2>2, <2>4
      <4>3. Len(Q') = Len(Q) - (HDR + x) /\ Need' = p.data_len - x
        BY <3>1, <3>2
      <4>4. \A l, nn, f, h, d, y \in Nat :
              l >= nn + f /\ nn + f >= h + d => l - (h + y) >= d - y
        OBVIOUS
      <4>5. n + FLUSH_LEN <= Len(Q) => Len(Q) - (HDR + x) >= p.data_len - x
        BY <1>1, <1>4, <1>5, <2>3, <4>2, <4>4
      <4> QED
        BY <1>1, <1>4, <1>5, <4>1, <4>3, <4>5
    <3>5. Need' <= FLUSH_LEN
      BY <1>5, <2>2, <2>4, <3>1
    <3>6. state' = "processing" /\ R' = R
      BY <3>1, AnswerStays DEF Awaits
    <3>7. CutTaken'
      BY <1>1, <3>3, <3>4, <3>5, <3>6 DEF CutTaken
    <3> QED
      BY <3>7 DEF Cut
  <2>5. ASSUME NEW j \in Nat, j <= Len(Q), n <= j, Q' = Drop(Q, j)
        PROVE  OnlyFlush(Q')
    <3>1. \A i \in 1 .. Len(Q) : i > j => Q[i] = api_op_resp
      BY <1>4, <2>1, <2>5
    <3> QED
      BY <1>1, <2>5, <3>1, FlushDrops
  <2>6. ASSUME NEW flags, NEW len \in Nat, Replies(p, flags, len), OnlyFlush(Q'),
               HDR + len < QUEUE_SIZE
        PROVE  Cut'
    <3>1. Len(R') + Left' = HDR + len
      BY <1>1, <2>6, FirstAnswer
    <3>2. state' # "processing"
      BY <2>6 DEF Replies
    <3>3. CutAnswered'
      BY <2>6, <3>1, <3>2 DEF CutAnswered, OnlyFlush
    <3> QED
      BY <3>3 DEF Cut
  <2>7. CASE /\ AcceptedWrite(p)
             /\ HDR + p.data_len <= Len(Q) /\ Q' = Drop(Q, HDR + p.data_len)
             /\ Replies(p, p.flags, 0)
    <3>1. HDR + p.data_len \in Nat /\ n <= HDR + p.data_len /\ HDR + 0 < QUEUE_SIZE
      BY <1>5, <2>2, <2>3, <2>7
    <3>2. OnlyFlush(Q')
      BY <2>5, <2>7, <3>1
    <3>3. 0 \in Nat
      OBVIOUS
    <3> QED
      BY <2>6, <2>7, <3>1, <3>2, <3>3
  <2>8. CASE /\ ~AcceptedWrite(p)
             /\ Q' = Drop(Q, HDR)
             /\ \E flags \in Nat, len \in Nat :
                  /\ Replies(p, flags, len)
                  /\ p.flags = 0 => flags = PacketVerdict(p)
                  /\ PacketVerdict(p) # 0 => len = 0
                  /\ PacketVerdict(p) = 0 /\ p.op = api_op_buf_rd => len = p.p2
                  /\ len <= 1 \/ len <= p.p2
    <3>1. PICK flags \in Nat, len \in Nat :
                  /\ Replies(p, flags, len)
                  /\ PacketVerdict(p) # 0 => len = 0
                  /\ len <= 1 \/ len <= p.p2
      BY <2>8
    <3>2. HDR + len < QUEUE_SIZE
      BY <1>5, <2>2, <2>3, <2>8, <3>1
    <3>3. OnlyFlush(Q')
      BY <1>7, <2>2, <2>3, <2>5, <2>8
    <3> QED
      BY <2>6, <3>1, <3>2, <3>3
  <2> QED
    BY <1>7, <2>4, <2>7, <2>8 DEF Moves, p
<1> QED
  BY <1>1, <1>6, <1>7 DEF DeviceMoves

LEMMA CutTakenMoves ==
  ASSUME DevInv, HostType, UNCHANGED <<h_queue, hostVars>>, CutTaken, DeviceMoves
  PROVE  Cut'
<1>1. /\ state = "processing" /\ Len(R) = 0 /\ DevType /\ Q \in Seq(Nat) /\ Len(Q) \in Nat
      /\ h_state' = h_state /\ Need \in Nat
  BY QType, LeftAndNeed DEF CutTaken, DevInv, hostVars
<1>2. /\ Need <= FLUSH_LEN /\ FLUSH_LEN \in Nat
      /\ \A i \in 1 .. Len(Q) : i > Need => Q[i] = api_op_resp
      /\ h_state \in Opening => Len(Q) >= Need
  BY PlainFacts DEF CutTaken
<1>3. PICK x \in 1 .. Need :
          /\ x <= Len(Q) /\ Q' = Drop(Q, x)
          /\ \/ Awaits(pkt) /\ Need' = Need - x
             \/ x = Need /\ Replies(pkt, pkt.flags, 0)
  BY <1>1 DEF DeviceMoves
<1>4. x \in Nat /\ x <= Need
  BY <1>1
<1>5. /\ Len(Q') = Len(Q) - x
      /\ \A i \in 1 .. Len(Q) - x : Q'[i] = Q[x + i]
  BY <1>1, <1>3, <1>4, DropFacts
<1>6. CASE Awaits(pkt) /\ Need' = Need - x
  <2>1. ASSUME NEW i \in 1 .. Len(Q'), i > Need'
        PROVE  Q'[i] = api_op_resp
    <3>1. x + i \in 1 .. Len(Q) /\ i \in 1 .. Len(Q) - x /\ x + i > Need
      BY <1>1, <1>4, <1>5, <1>6, <2>1
    <3> QED
      BY <1>2, <1>5, <3>1
  <2>2. Need' <= FLUSH_LEN /\ (h_state' \in Opening => Len(Q') >= Need')
    BY <1>1, <1>2, <1>4, <1>5, <1>6
  <2>3. state' = "processing" /\ R' = R
    BY <1>6, AnswerStays DEF Awaits
  <2>4. CutTaken'
    BY <1>1, <2>1, <2>2, <2>3 DEF CutTaken
  <2> QED
    BY <2>4 DEF Cut
<1>7. CASE x = Need /\ Replies(pkt, pkt.flags, 0)
  <2>1. OnlyFlush(Q')
    BY <1>1, <1>2, <1>3, <1>4, <1>7, FlushDrops
  <2>2. 0 \in Nat
    OBVIOUS
  <2>3. Len(R') + Left' = HDR + 0
    BY <1>1, <1>7, <2>2, FirstAnswer
  <2>4. HDR + 0 < QUEUE_SIZE
    BY PlainFacts DEF HDR
  <2>5. state' # "processing"
    BY <1>7 DEF Replies
  <2>6. CutAnswered'
    BY <2>1, <2>3, <2>4, <2>5 DEF CutAnswered, OnlyFlush
  <2> QED
    BY <2>6 DEF Cut
<1> QED
  BY <1>3, <1>6, <1>7

(* An answer under way goes on.                                            *)
LEMMA AnswerGoesOn ==
  ASSUME DevType, HostType, UNCHANGED <<h_queue, hostVars>>, RepliesMore, Left \in Nat,
         Left' \in Nat
  PROVE  \E a \in Seq(Nat) : R' = R \o a /\ Len(R') + Left' = Len(R) + Left
<1>1. PICK a \in Seq(Nat) : down' = down \o a /\ Len(a) + Left' = Left
  BY DEF RepliesMore
<1>2. R' = R \o a /\ Len(R') = Len(R) + Len(a) /\ R \in Seq(Nat)
  BY <1>1, AnswerGrows, QType
<1>3. Len(R) \in Nat /\ Len(a) \in Nat
  BY <1>2
<1>4. (Len(R) + Len(a)) + Left' = Len(R) + Left
  <2>1. Len(a) + Left' = Left
    BY <1>1, Zenon
  <2> QED
    BY <1>3, <2>1
<1> QED
  BY <1>2, <1>4

LEMMA CutAnsweredMoves ==
  ASSUME DevInv, DevInv', HostType, UNCHANGED <<h_queue, hostVars>>, CutAnswered,
         DeviceMoves
  PROVE  Cut'
<1>1. /\ state # "processing" /\ OnlyFlush(Q) /\ Len(R) + Left < QUEUE_SIZE
      /\ DevType /\ Q \in Seq(Nat) /\ Len(Q) \in Nat /\ Left \in Nat /\ Left' \in Nat
  <2>1. (DevInv => Left \in Nat)'
    BY LeftType, PTL
  <2> QED
    BY <2>1, QType, LeftAndNeed DEF CutAnswered, DevInv
<1>2. CASE state = "idle" /\ Skips
  <2>1. PICK j \in 1 .. HDR :
            j <= Len(Q) /\ Q' = Drop(Q, j) /\ state' = "idle" /\ down' = down
    BY <1>2 DEF Skips
  <2>2. j \in Nat
    OBVIOUS
  <2>3. OnlyFlush(Q')
    BY <1>1, <2>1, <2>2, FlushDrops DEF OnlyFlush
  <2>4. R' = R /\ Left' = Left
    <3>1. Left' = 0 /\ Left = 0
      BY <1>2, <2>1 DEF Left
    <3> QED
      BY <2>1, <3>1, AnswerStays
  <2>5. CutAnswered'
    BY <1>1, <2>1, <2>3, <2>4 DEF CutAnswered, OnlyFlush
  <2> QED
    BY <2>5 DEF Cut
<1>3. CASE state = "responding" /\ Q' = Q /\ RepliesMore
  <2>1. Len(R') + Left' = Len(R) + Left
    BY <1>1, <1>3, AnswerGoesOn
  <2>2. state' # "processing"
    BY <1>3 DEF RepliesMore
  <2>3. CutAnswered'
    BY <1>1, <1>3, <2>1, <2>2 DEF CutAnswered, OnlyFlush
  <2> QED
    BY <2>3 DEF Cut
<1>4. ~(HDR <= Len(Q) /\ ~IsResponse(Q[1]))
  BY <1>1 DEF OnlyFlush, IsResponse, api_op_resp, HDR
<1> QED
  BY <1>1, <1>2, <1>3, <1>4 DEF DeviceMoves

LEMMA AskAsksForBytes ==
  ASSUME DevType, HostType, Asks
  PROVE  FrontAsked
<1> SUFFICES ASSUME state = "idle", HDR <= Len(Q), ~IsResponse(Q[1])
             PROVE  Tame(Fields(Q))
  BY DEF FrontAsked
<1>1. Q \in Seq(Nat) /\ h_req \in PlainRequests /\ last_sn \in Nat
  BY QType DEF HostType
<1>2. CASE AskWaits
  <2> DEFINE m == Message(h_req, last_sn)
  <2>1. PICK k \in Nat : Carries(Q, k, Len(m), m)
    BY <1>2 DEF AskWaits
  <2>2. Len(m) \in Nat /\ Len(m) >= HDR
    <3>1. Len(m) = HDR + Len(h_req.data) /\ Len(h_req.data) \in Nat
      BY <1>1, MessageFacts, RequestFacts
    <3> HIDE DEF m
    <3> QED
      BY <3>1 DEF HDR
  <2> QED
    BY <1>1, <2>1, <2>2, WholeHeader
<1>3. CASE AskAnswered
  BY <1>3 DEF AskAnswered, HDR
<1>4. CASE AskTaken
  BY <1>4 DEF AskTaken
<1> QED
  BY <1>2, <1>3, <1>4 DEF Asks

(* The request is awaited, taken, answered.                                *)
LEMMA AskWaitsMoves ==
  ASSUME DevInv, HostType, UNCHANGED <<h_queue, hostVars>>, AskWaits, DeviceMoves
  PROVE  Asks'
<1>1. state = "idle" /\ Len(R) = 0 /\ DevType /\ Q \in Seq(Nat) /\ Len(Q) \in Nat
      /\ h_req' = h_req /\ last_sn' = last_sn
      /\ h_req \in PlainRequests /\ last_sn \in Nat
  BY QType DEF AskWaits, DevInv, HostType, hostVars
<1> DEFINE m == Message(h_req, last_sn)
           l == Len(m)
<1>2. PICK k \in Nat : Carries(Q, k, l, m) /\ Len(Q) = k + l
  BY DEF AskWaits
<1>3. /\ m \in Seq(Nat) /\ l = HDR + Len(h_req.data) /\ m[1] = h_req.op
      /\ Len(h_req.data) \in Nat /\ HDR \in Nat /\ h_req.p2 \in Nat
  BY <1>1, MessageFacts, RequestFacts DEF HDR
<1>4. /\ FLUSH_LEN \in Nat /\ QUEUE_SIZE \in Nat /\ QUEUE_SIZE > HDR + 1
      /\ h_req.op < api_op_resp
      /\ Len(h_req.data) # 0 => Verdict(h_req) = 0 /\ is_data_write_op(h_req.op)
      /\ Len(h_req.data) <= FLUSH_LEN
      /\ HDR + h_req.p2 < QUEUE_SIZE
  BY <1>1, PlainFacts
<1>5. m' = m
  BY <1>1 DEF Message
<1> HIDE DEF m, l
<1>6. l \in Nat /\ 1 <= l /\ l >= HDR
  BY <1>3 DEF HDR
<1>7. CASE Skips
  <2>1. PICK j \in 1 .. HDR :
            /\ j <= Len(Q)
            /\ \A i \in 1 .. j : IsResponse(Q[i])
            /\ Q' = Drop(Q, j)
            /\ state' = "idle" /\ down' = down
    BY <1>7 DEF Skips
  <2>2. j \in Nat
    OBVIOUS
  <2>3. j <= k /\ Carries(Q', k - j, l, m) /\ Len(Q') = Len(Q) - j
    <3>1. /\ Q \in Seq(Nat) /\ l \in Nat /\ l >= 1 /\ Carries(Q, k, l, m)
          /\ m[1] < api_op_resp /\ j \in Nat /\ j <= Len(Q)
      BY <1>1, <1>2, <1>3, <1>4, <1>6, <2>1, <2>2
    <3>2. \A i \in 1 .. j : IsResponse(Q[i])
      BY <2>1, Zenon
    <3>3. j <= k /\ Carries(Drop(Q, j), k - j, l, m) /\ Len(Drop(Q, j)) = Len(Q) - j
      BY <3>1, <3>2, SkipFlush
    <3> QED
      BY <2>1, <3>3
  <2>4. k - j \in Nat /\ Len(Q') = (k - j) + l
    BY <1>2, <1>6, <2>2, <2>3
  <2>5. R' = R
    BY <2>1, AnswerStays
  <2>6. AskWaits'
    <3>1. \E kk \in Nat : Carries(Q', kk, l, m) /\ Len(Q') = kk + l
      BY <2>3, <2>4
    <3> QED
      BY <1>1, <1>5, <2>1, <2>5, <3>1 DEF AskWaits, Carries, m, l
  <2> QED
    BY <2>6 DEF Asks
<1>8. CASE HDR <= Len(Q) /\ ~IsResponse(Q[1]) /\ Moves(Fields(Q))
  <2> DEFINE p == Fields(Q)
  <2>1. k = 0
    <3>1. HDR <= Len(Q) /\ ~IsResponse(Q[1]) /\ Carries(Q, k, l, m) /\ Q \in Seq(Nat) /\ l \in Nat
      BY <1>1, <1>2, <1>6, <1>8
    <3> QED
      BY <3>1, FrontOfMessage
  <2>2. Len(Q) = HDR + Len(h_req.data)
    BY <1>2, <1>3, <2>1
  <2>3. /\ p.op = h_req.op /\ p.ep = h_req.ep /\ p.flags = 0 /\ p.sn = last_sn
        /\ p.p2 = h_req.p2 /\ p.data_len = Len(h_req.data)
        /\ PacketVerdict(p) = Verdict(h_req)
        /\ AcceptedWrite(p) => is_data_write_op(h_req.op)
        /\ ~AcceptedWrite(p) => Len(h_req.data) = 0
    <3>1. HDR <= Len(Q) /\ ~IsResponse(Q[1]) /\ Carries(Q, k, l, Message(h_req, last_sn))
          /\ Q \in Seq(Nat) /\ l \in Nat /\ l >= HDR
      BY <1>1, <1>2, <1>6, <1>8 DEF m
    <3> QED
      BY <1>1, <3>1, WholeHeader
  <2> HIDE DEF p
  <2>4. AcceptedWrite(p) => Verdict(h_req) = 0 /\ h_req.op # api_op_buf_rd
    BY <2>3 DEF AcceptedWrite, is_data_write_op, api_op_buf_rd, api_op_buf_wr, api_op_str_wr
  <2>5. CASE AcceptedWrite(p) /\ \E x \in Nat :
                  /\ HDR + x <= Len(Q) /\ Q' = Drop(Q, HDR + x)
                  /\ Awaits(p) /\ Need' = p.data_len - x
    <3>1. PICK x \in Nat : /\ HDR + x <= Len(Q) /\ Q' = Drop(Q, HDR + x)
                           /\ Awaits(p) /\ Need' = p.data_len - x
      BY <2>5
    <3>2. Len(Q') = Len(Q) - (HDR + x)
      <4>1. HDR + x \in Nat
        BY <1>3
      <4> QED
        BY <1>1, <3>1, <4>1, DropFacts
    <3>3. Len(Q') = Need' /\ Need' <= FLUSH_LEN
      BY <1>3, <1>4, <2>2, <2>3, <3>1, <3>2
    <3>4. /\ state' = "processing" /\ R' = R
          /\ pkt'.op = h_req.op /\ pkt'.ep = h_req.ep /\ pkt'.flags = 0 /\ pkt'.sn = last_sn
      BY <2>3, <3>1, AnswerStays DEF Awaits
    <3>5. Verdict(h_req') = 0
      BY <1>1, <2>4, <2>5
    <3>6. AskTaken'
      BY <1>1, <3>3, <3>4, <3>5 DEF AskTaken, Verdict, buf_sz
    <3> QED
      BY <3>6 DEF Asks
  <2>6. ASSUME NEW flags, NEW len \in Nat, Replies(p, flags, len), Len(Q') = 0,
               flags = Verdict(h_req), HDR + len < QUEUE_SIZE,
               Verdict(h_req) # 0 => len = 0,
               Verdict(h_req) = 0 /\ h_req.op = api_op_buf_rd => len = h_req.p2
        PROVE  Asks'
    <3>1. /\ Len(R') >= HDR /\ Len(R') + Left' = HDR + len
          /\ R'[1] = p.op + api_op_resp /\ R'[2] = p.ep /\ R'[3] = flags /\ R'[4] = p.sn
          /\ R'[7] = len
      BY <1>1, <2>6, FirstAnswer
    <3>2. state' # "processing"
      BY <2>6 DEF Replies
    <3>3. Verdict(h_req)' = Verdict(h_req)
      BY <1>1 DEF Verdict, buf_sz
    <3>4. Answer(R)'
      BY <1>1, <2>3, <2>6, <3>1, <3>3 DEF Answer
    <3>5. AskAnswered'
      BY <2>6, <3>1, <3>2, <3>4 DEF AskAnswered
    <3> QED
      BY <3>5 DEF Asks
  <2>7. CASE /\ AcceptedWrite(p)
             /\ HDR + p.data_len <= Len(Q) /\ Q' = Drop(Q, HDR + p.data_len)
             /\ Replies(p, p.flags, 0)
    <3>1. HDR + p.data_len = Len(Q)
      BY <2>2, <2>3
    <3>2. Q' = << >>
      BY <1>1, <2>7, <3>1, DropNone
    <3>3. HDR + 0 < QUEUE_SIZE /\ 0 \in Nat
      BY <1>3, <1>4
    <3> QED
      BY <2>3, <2>4, <2>6, <2>7, <3>2, <3>3
  <2>8. CASE /\ ~AcceptedWrite(p)
             /\ Q' = Drop(Q, HDR)
             /\ \E flags \in Nat, len \in Nat :
                  /\ Replies(p, flags, len)
                  /\ p.flags = 0 => flags = PacketVerdict(p)
                  /\ PacketVerdict(p) # 0 => len = 0
                  /\ PacketVerdict(p) = 0 /\ p.op = api_op_buf_rd => len = p.p2
                  /\ len <= 1 \/ len <= p.p2
    <3>1. PICK flags \in Nat, len \in Nat :
                  /\ Replies(p, flags, len)
                  /\ p.flags = 0 => flags = PacketVerdict(p)
                  /\ PacketVerdict(p) # 0 => len = 0
                  /\ PacketVerdict(p) = 0 /\ p.op = api_op_buf_rd => len = p.p2
                  /\ len <= 1 \/ len <= p.p2
      BY <2>8
    <3>2. HDR + len < QUEUE_SIZE
      <4>1. len <= 1 \/ len <= h_req.p2
        BY <2>3, <3>1
      <4> QED
        BY <1>3, <1>4, <4>1
    <3>3. Len(Q') = 0
      <4>1. Len(Q) = HDR
        BY <1>3, <2>2, <2>3, <2>8
      <4>2. Q' = << >>
        BY <1>1, <2>8, <4>1, DropNone
      <4> QED
        BY <4>2
    <3>4. /\ flags = Verdict(h_req)
          /\ Verdict(h_req) # 0 => len = 0
          /\ Verdict(h_req) = 0 /\ h_req.op = api_op_buf_rd => len = h_req.p2
      BY <2>3, <3>1
    <3> QED
      BY <2>6, <3>1, <3>2, <3>3, <3>4
  <2> QED
    BY <1>8, <2>5, <2>7, <2>8 DEF Moves, p
<1> QED
  BY <1>1, <1>7, <1>8 DEF DeviceMoves

LEMMA AskTakenMoves ==
  ASSUME DevInv, HostType, UNCHANGED <<h_queue, hostVars>>, AskTaken, DeviceMoves
  PROVE  Asks'
<1>1. /\ state = "processing" /\ Len(R) = 0 /\ DevType /\ Q \in Seq(Nat) /\ Len(Q) \in Nat
      /\ Need \in Nat /\ Len(Q) = Need /\ Need <= FLUSH_LEN /\ FLUSH_LEN \in Nat
      /\ pkt.op = h_req.op /\ pkt.ep = h_req.ep /\ pkt.flags = 0 /\ pkt.sn = last_sn
      /\ Verdict(h_req) = 0
      /\ h_req' = h_req /\ last_sn' = last_sn
  BY PlainFacts, QType, LeftAndNeed DEF AskTaken, DevInv, hostVars
<1>2. PICK x \in 1 .. Need :
          /\ x <= Len(Q) /\ Q' = Drop(Q, x)
          /\ \/ Awaits(pkt) /\ Need' = Need - x
             \/ x = Need /\ Replies(pkt, pkt.flags, 0)
  BY <1>1 DEF DeviceMoves
<1>3. x \in Nat /\ x <= Need
  BY <1>1
<1>4. Len(Q') = Len(Q) - x
  BY <1>1, <1>2, <1>3, DropFacts
<1>5. Verdict(h_req)' = 0
  BY <1>1 DEF Verdict, buf_sz
<1>6. CASE Awaits(pkt) /\ Need' = Need - x
  <2>1. Len(Q') = Need' /\ Need' <= FLUSH_LEN
    BY <1>1, <1>3, <1>4, <1>6
  <2>2. /\ state' = "processing" /\ R' = R
        /\ pkt'.op = h_req.op /\ pkt'.ep = h_req.ep /\ pkt'.flags = 0 /\ pkt'.sn = last_sn
    BY <1>1, <1>6, AnswerStays DEF Awaits
  <2>3. AskTaken'
    BY <1>1, <1>5, <2>1, <2>2 DEF AskTaken
  <2> QED
    BY <2>3 DEF Asks
<1>7. CASE x = Need /\ Replies(pkt, pkt.flags, 0)
  <2>1. Len(Q') = 0 /\ 0 \in Nat
    BY <1>1, <1>3, <1>4, <1>7
  <2>2. /\ Len(R') >= HDR /\ Len(R') + Left' = HDR + 0
        /\ R'[1] = pkt.op + api_op_resp /\ R'[2] = pkt.ep /\ R'[3] = pkt.flags
        /\ R'[4] = pkt.sn /\ R'[7] = 0
    BY <1>1, <1>7, <2>1, FirstAnswer
  <2>3. HDR + 0 < QUEUE_SIZE
    BY PlainFacts DEF HDR
  <2>4. h_req.op # api_op_buf_rd
    BY <1>1 DEF DevInv, ProcessingOK, api_op_buf_rd, api_op_buf_wr, api_op_str_wr
  <2>5. Answer(R)'
    BY <1>1, <1>5, <2>2, <2>3, <2>4 DEF Answer
  <2>6. state' # "processing"
    BY <1>7 DEF Replies
  <2>7. AskAnswered'
    BY <2>1, <2>2, <2>5, <2>6 DEF AskAnswered
  <2> QED
    BY <2>7 DEF Asks
<1> QED
  BY <1>2, <1>6, <1>7

LEMMA AskAnsweredMoves ==
  ASSUME DevInv, DevInv', HostType, UNCHANGED <<h_queue, hostVars>>, AskAnswered,
         DeviceMoves
  PROVE  Asks'
<1>1. /\ state # "processing" /\ Len(Q) = 0 /\ Answer(R) /\ Len(R) + Left = HDR + R[7]
      /\ DevType /\ Q \in Seq(Nat) /\ R \in Seq(Nat) /\ Len(R) \in Nat
      /\ Left \in Nat /\ Left' \in Nat
      /\ h_req' = h_req /\ last_sn' = last_sn
  <2>1. (DevInv => Left \in Nat)'
    BY LeftType, PTL
  <2> QED
    BY <2>1, QType, LeftAndNeed DEF AskAnswered, DevInv, hostVars
<1>2. state = "responding" /\ Q' = Q /\ RepliesMore
  <2>1. ~Skips /\ ~(HDR <= Len(Q))
    BY <1>1 DEF Skips, HDR
  <2> QED
    BY <1>1, <2>1 DEF DeviceMoves
<1>3. PICK a \in Seq(Nat) : R' = R \o a /\ Len(R') + Left' = Len(R) + Left
  BY <1>1, <1>2, AnswerGoesOn
<1>4. Len(R) >= 7
  BY <1>1 DEF Answer, HDR
<1>5. /\ Len(R') = Len(R) + Len(a) /\ \A i \in 1 .. Len(R) : R'[i] = R[i]
      /\ Len(a) \in Nat
  BY <1>1, <1>3, ConcatFacts
<1>6. /\ R'[1] = R[1] /\ R'[2] = R[2] /\ R'[3] = R[3] /\ R'[4] = R[4] /\ R'[7] = R[7]
      /\ Len(R') >= HDR
  <2>1. 1 \in 1 .. Len(R) /\ 2 \in 1 .. Len(R) /\ 3 \in 1 .. Len(R) /\ 4 \in 1 .. Len(R)
        /\ 7 \in 1 .. Len(R)
    BY <1>1, <1>4
  <2>2. Len(R') >= HDR
    BY <1>1, <1>4, <1>5 DEF HDR
  <2> QED
    BY <1>5, <2>1, <2>2
<1>7. Verdict(h_req)' = Verdict(h_req)
  BY <1>1 DEF Verdict, buf_sz
<1>8. Answer(R)'
  BY <1>1, <1>6, <1>7 DEF Answer
<1>9. AskAnswered'
  BY <1>1, <1>2, <1>3, <1>6, <1>8 DEF AskAnswered, RepliesMore
<1> QED
  BY <1>9 DEF Asks

(* Nothing to do for an idle device. *)
LEMMA DeviceRests ==
  ASSUME state = "idle", Len(up) + Len(pkt_buf) < HDR, DevType
  PROVE  ~Device
<1>1. ~GetHeader
  BY DEF GetHeader, HDR, DevType
<1>2. ~CallEp
  BY DEF CallEp
<1> QED
  BY <1>1, <1>2 DEF Device, api_process

LEMMA NothingQueued ==
  ASSUME DevType, HostType, state = "idle"
  PROVE  /\ Len(Q) = Len(pkt_buf) + Len(up) + Len(h_out)
         /\ Len(pkt_buf) \in Nat /\ Len(up) \in Nat /\ Len(h_out) \in Nat
<1>1. pkt_buf \in Seq(Nat) /\ up \in Seq(Nat) /\ h_out \in Seq(Nat)
  BY DEF DevType, HostType
<1>2. up \o h_out \in Seq(Nat) /\ Len(up \o h_out) = Len(up) + Len(h_out)
  BY <1>1, ConcatFacts
<1>3. Len(Q) = Len(pkt_buf) + Len(up \o h_out)
  BY <1>1, <1>2, ConcatFacts DEF Q
<1> QED
  BY <1>1, <1>2, <1>3

LEMMA DeviceInvariant ==
  ASSUME ApiInv, Device
  PROVE  ApiInv'
<1>1. DevInv /\ HostInv /\ HostType /\ DevType /\ UNCHANGED <<h_queue, hostVars>>
  BY DEF ApiInv, HostInv, DevInv, Device
<1>2. HostType'
  BY <1>1 DEF HostType, hostVars
<1>3. /\ h_state' # "mismatch"
      /\ h_state' \in {"flush", "write"} <=> h_out' # << >>
      /\ h_state' \in {"closed", "flush", "flushed", "ready", "write"} => h_in' = << >>
      /\ h_state' = "header" => Len(h_in') < HDR
      /\ h_state' = "payload" => Verdict(h_req)' = 0
      /\ h_state' \in {"payload", "answered", "refused"} => Answer(h_in)'
      /\ h_state' = "flush" => Len(h_out') <= FLUSH_LEN
  BY <1>1 DEF HostInv, hostVars, Answer, Verdict, buf_sz
<1>4. h_state \notin {"flushed", "ready", "answered"}
  <2>1. CASE h_state \in {"flushed", "ready"}
    <3>1. Aligned
      BY <1>1, <2>1 DEF HostInv
    <3>2. state = "idle" /\ Len(up) + Len(pkt_buf) < HDR
      BY <1>1, <3>1 DEF Aligned, DevType, HDR
    <3> QED
      BY <1>1, <3>2, DeviceRests
  <2>2. CASE h_state = "answered"
    <3>1. state = "idle" /\ Len(Q) = 0
      BY <1>1, <2>2 DEF HostInv
    <3>2. Len(up) + Len(pkt_buf) < HDR
      BY <1>1, <3>1, NothingQueued DEF HDR
    <3> QED
      BY <1>1, <3>1, <3>2, DeviceRests
  <2> QED
    BY <2>1, <2>2
<1>5. CASE h_state \in Over \cup Opening
  <2>1. Cut
    BY <1>1, <1>5 DEF HostInv
  <2>2. DeviceMoves /\ DevInv'
    BY <1>1, <2>1, CutAsksForBytes, DeviceStep
  <2>3. Cut'
    BY <1>1, <2>1, <2>2, CutWaitsMoves, CutTakenMoves, CutAnsweredMoves DEF Cut
  <2>4. h_state' \notin Asking \cup {"flushed", "ready", "answered"}
    BY <1>1, <1>5 DEF Over, Opening, Asking, hostVars
  <2>5. HostInv'
    BY <1>2, <1>3, <2>3, <2>4 DEF HostInv
  <2> QED
    BY <2>2, <2>5 DEF ApiInv
<1>6. CASE h_state \in Asking
  <2>1. Asks
    BY <1>1, <1>6 DEF HostInv
  <2>2. DeviceMoves /\ DevInv'
    BY <1>1, <2>1, AskAsksForBytes, DeviceStep
  <2>3. Asks'
    BY <1>1, <2>1, <2>2, AskWaitsMoves, AskTakenMoves, AskAnsweredMoves DEF Asks
  <2>4. h_state' \notin Over \cup Opening \cup {"flushed", "ready", "answered"}
    BY <1>1, <1>6 DEF Over, Opening, Asking, hostVars
  <2>5. HostInv'
    BY <1>2, <1>3, <2>3, <2>4 DEF HostInv
  <2> QED
    BY <2>2, <2>5 DEF ApiInv
<1> QED
  BY <1>1, <1>4, <1>5, <1>6 DEF HostType

-----------------------------------------------------------------------------
(* The steps of the host                                                   *)

(* A step of the host changes nothing of the device but its pipes.         *)
LEMMA DeviceKept ==
  ASSUME DevInv, UNCHANGED <<apiVars, epVars>>,
         up' \in Seq(Nat), down' \in Seq(Nat), Len(down') <= DOWN_SIZE
  PROVE  DevInv' /\ Left' = Left /\ Need' = Need /\ pkt' = pkt /\ state' = state
<1>1. Left' = Left /\ Need' = Need /\ pkt' = pkt /\ state' = state
  BY DEF Left, Need, pkt, apiVars
<1>2. DevType' /\ EchoFits' /\ ~halted'
  BY DEF DevInv, DevType, EchoFits, apiVars, epVars
<1>3. (state = "idle" => IdleOK)'
  BY DEF DevInv, IdleOK, apiVars
<1>4. (state = "responding" => RespondingOK)'
  BY <1>1 DEF DevInv, RespondingOK, apiVars, epVars, buf_sz
<1>5. (state = "processing" => ProcessingOK)'
  BY <1>1 DEF DevInv, ProcessingOK, apiVars, epVars
<1> QED
  BY <1>1, <1>2, <1>3, <1>4, <1>5 DEF DevInv

LEMMA DeviceUntouched ==
  ASSUME DevInv, UNCHANGED devVars
  PROVE  DevInv' /\ Left' = Left /\ Need' = Need /\ pkt' = pkt /\ state' = state
<1>1. /\ UNCHANGED <<apiVars, epVars>>
      /\ up' \in Seq(Nat) /\ down' \in Seq(Nat) /\ Len(down') <= DOWN_SIZE
  BY DEF devVars, DevInv, DevType
<1> QED
  BY <1>1, DeviceKept

(* What is under way stays what it is when bytes only move along.          *)
LEMMA CutKept ==
  ASSUME Cut, Q' = Q, R' = R, state' = state, Left' = Left, Need' = Need,
         h_state' \in Opening => h_state \in Opening
  PROVE  Cut'
<1>1. CASE CutWaits
  <2>1. PICK k \in Nat, r \in PlainRequests, sn \in Nat :
          \E n \in 1 .. Len(Message(r, sn)) :
             /\ Carries(Q, k, n, Message(r, sn))
             /\ MadeUp(r, n)
             /\ h_state \in Opening => Len(Q) >= k + n + FLUSH_LEN
    BY <1>1 DEF CutWaits
  <2>2. PICK n \in 1 .. Len(Message(r, sn)) :
             /\ Carries(Q, k, n, Message(r, sn))
             /\ MadeUp(r, n)
             /\ h_state \in Opening => Len(Q) >= k + n + FLUSH_LEN
    BY <2>1
  <2>3. Carries(Q', k, n, Message(r, sn))
    BY <2>2
  <2>4. h_state' \in Opening => Len(Q') >= k + n + FLUSH_LEN
    BY <2>2
  <2>5. state' = "idle" /\ Len(R') = 0
    BY <1>1 DEF CutWaits
  <2>6. /\ Carries(Q, k, n, Message(r, sn))' /\ MadeUp(r, n)'
        /\ h_state' \in Opening => Len(Q') >= k + n + FLUSH_LEN
    BY <2>2, <2>3, <2>4 DEF Carries, MadeUp
  <2>7. CutWaits'
    BY <2>5, <2>6 DEF CutWaits
  <2> QED
    BY <2>7 DEF Cut
<1>2. CASE CutTaken
  BY <1>2 DEF Cut, CutTaken
<1>3. CASE CutAnswered
  BY <1>3 DEF Cut, CutAnswered, OnlyFlush
<1> QED
  BY <1>1, <1>2, <1>3 DEF Cut

LEMMA AskKept ==
  ASSUME Asks, Q' = Q, R' = R, state' = state, Left' = Left, Need' = Need, pkt' = pkt,
         h_req' = h_req, last_sn' = last_sn
  PROVE  Asks'
<1>1. Verdict(h_req)' = Verdict(h_req)
  BY DEF Verdict, buf_sz
<1>2. CASE AskWaits
  BY <1>2 DEF Asks, AskWaits, Carries, Message
<1>3. CASE AskTaken
  BY <1>1, <1>3 DEF Asks, AskTaken
<1>4. CASE AskAnswered
  BY <1>1, <1>4 DEF Asks, AskAnswered, Answer
<1> QED
  BY <1>2, <1>3, <1>4 DEF Asks

(* Bytes that move from one pipe into the next.                            *)
LEMMA MovesOn ==
  ASSUME NEW s \in Seq(Nat), NEW t \in Seq(Nat), NEW n \in Nat, n <= Len(t)
  PROVE  (s \o Take(t, n)) \o Drop(t, n) = s \o t
<1> DEFINE a == Take(t, n)  b == Drop(t, n)
<1>1. a \in Seq(Nat) /\ b \in Seq(Nat) /\ a \o b = t /\ s \in Seq(Nat)
  BY TakeFacts, DropFacts, TakeDrop
<1> HIDE DEF a, b
<1>2. (s \o a) \o b = s \o (a \o b)
  BY <1>1, Concat3
<1> QED
  BY <1>1, <1>2 DEF a, b

LEMMA MovesUp ==
  ASSUME NEW s \in Seq(Nat), NEW t \in Seq(Nat), NEW u \in Seq(Nat),
         NEW n \in Nat, n <= Len(t)
  PROVE  (s \o Take(t, n)) \o (Drop(t, n) \o u) = s \o (t \o u)
<1> DEFINE a == Take(t, n)  b == Drop(t, n)  sa == s \o a
<1>1. a \in Seq(Nat) /\ b \in Seq(Nat) /\ sa \in Seq(Nat) /\ u \in Seq(Nat) /\ s \in Seq(Nat)
  BY TakeFacts, DropFacts, ConcatFacts
<1>2. sa \o b = s \o t
  BY MovesOn
<1> HIDE DEF a, b, sa
<1>3. (sa \o b) \o u = sa \o (b \o u)
  BY <1>1, Concat3, SMTT(30)
<1>4. (s \o t) \o u = s \o (t \o u)
  BY Concat3
<1> QED
  BY <1>2, <1>3, <1>4 DEF sa, a, b

LEMMA ByteMoves ==
  ASSUME NEW s \in Seq(Nat), NEW t \in Seq(Nat), t # << >>
  PROVE  /\ Append(s, Head(t)) \o Tail(t) = s \o t
         /\ Append(s, Head(t)) \in Seq(Nat) /\ Tail(t) \in Seq(Nat)
         /\ Len(Tail(t)) = Len(t) - 1 /\ Len(t) \in Nat /\ Len(t) > 0
<1>1. Len(t) \in Nat /\ Len(t) > 0
  BY EmptySeq
<1>2. /\ Tail(t) \in Seq(Nat) /\ Len(Tail(t)) = Len(t) - 1
      /\ \A i \in 1 .. Len(Tail(t)) : Tail(t)[i] = t[i + 1]
      /\ Head(t) \in Nat /\ Head(t) = t[1]
  BY HeadTailProperties
<1>3. /\ Append(s, Head(t)) \in Seq(Nat) /\ Len(Append(s, Head(t))) = Len(s) + 1
      /\ \A i \in 1 .. Len(s) : Append(s, Head(t))[i] = s[i]
      /\ Append(s, Head(t))[Len(s) + 1] = Head(t)
  BY <1>2, AppendProperties
<1> DEFINE a == Append(s, Head(t))  b == Tail(t)  x == a \o b  y == s \o t
<1>4. /\ x \in Seq(Nat) /\ Len(x) = Len(a) + Len(b)
      /\ \A i \in 1 .. Len(a) + Len(b) : x[i] = IF i <= Len(a) THEN a[i] ELSE b[i - Len(a)]
  BY <1>2, <1>3, ConcatFacts
<1>5. /\ y \in Seq(Nat) /\ Len(y) = Len(s) + Len(t)
      /\ \A i \in 1 .. Len(s) + Len(t) : y[i] = IF i <= Len(s) THEN s[i] ELSE t[i - Len(s)]
  BY ConcatFacts
<1>6. Len(a) = Len(s) + 1 /\ Len(b) = Len(t) - 1 /\ Len(s) \in Nat
  BY <1>2, <1>3
<1> HIDE DEF a, b, x, y
<1>7. \A i \in 1 .. Len(x) : x[i] = y[i]
  <2> TAKE i \in 1 .. Len(x)
  <2>1. i \in 1 .. Len(a) + Len(b) /\ i \in 1 .. Len(s) + Len(t)
    BY <1>1, <1>4, <1>6
  <2>2. CASE i <= Len(s)
    <3>1. i \in 1 .. Len(s) /\ i <= Len(a)
      BY <1>6, <2>1, <2>2
    <3>2. a[i] = s[i]
      BY <1>3, <3>1 DEF a
    <3>3. x[i] = a[i]
      BY <1>4, <2>1, <3>1
    <3>4. y[i] = s[i]
      BY <1>5, <2>1, <2>2
    <3> QED
      BY <3>2, <3>3, <3>4
  <2>3. CASE i = Len(s) + 1
    <3>1. x[i] = Head(t)
      BY <1>3, <1>4, <1>6, <2>1, <2>3 DEF a
    <3>2. y[i] = t[1]
      <4>1. i - Len(s) = 1 /\ ~(i <= Len(s))
        BY <1>6, <2>3
      <4>2. y[i] = t[i - Len(s)]
        BY <1>5, <2>1, <4>1
      <4> QED
        BY <4>1, <4>2
    <3> QED
      BY <1>2, <3>1, <3>2
  <2>4. CASE i > Len(s) + 1
    <3>1. x[i] = b[i - Len(a)] /\ y[i] = t[i - Len(s)]
      BY <1>4, <1>5, <1>6, <2>1, <2>4
    <3>2. i - Len(a) \in 1 .. Len(b) /\ (i - Len(a)) + 1 = i - Len(s)
      BY <1>1, <1>4, <1>6, <2>1, <2>4
    <3> QED
      BY <1>2, <3>1, <3>2 DEF b
  <2>5. i <= Len(s) \/ i = Len(s) + 1 \/ i > Len(s) + 1
    BY <1>6, <2>1
  <2> QED
    BY <2>2, <2>3, <2>4, <2>5, Zenon
<1>8. Len(x) = Len(y)
  BY <1>1, <1>4, <1>5, <1>6
<1>9. x = y
  BY <1>4, <1>5, <1>7, <1>8, SameSeq
<1> QED
  BY <1>1, <1>2, <1>3, <1>9 DEF x, y, a, b

LEMMA WriteInvariant ==
  ASSUME ApiInv, Write
  PROVE  ApiInv'
<1>1. /\ DevInv /\ DevType /\ HostType /\ HostInv
      /\ up \in Seq(Nat) /\ h_out \in Seq(Nat) /\ h_out # << >>
      /\ down' = down /\ UNCHANGED <<apiVars, epVars>>
      /\ h_queue' = h_queue /\ h_in' = h_in /\ h_req' = h_req /\ last_sn' = last_sn
      /\ up' = Append(up, Head(h_out)) /\ h_out' = Tail(h_out)
      /\ h_state' = IF Len(h_out) > 1 THEN h_state
                    ELSE IF h_state = "flush" THEN "drain" ELSE "header"
  BY DEF ApiInv, HostInv, DevInv, DevType, HostType, Write
<1>2. /\ up' \o h_out' = up \o h_out /\ up' \in Seq(Nat) /\ h_out' \in Seq(Nat)
      /\ Len(h_out') = Len(h_out) - 1 /\ Len(h_out) \in Nat /\ Len(h_out) > 0
  BY <1>1, ByteMoves
<1>3. h_out' # << >> <=> Len(h_out) > 1
  BY <1>2, EmptySeq
<1>4. DevInv' /\ Left' = Left /\ Need' = Need /\ pkt' = pkt /\ state' = state
  <2>1. down' \in Seq(Nat) /\ Len(down') <= DOWN_SIZE
    BY <1>1 DEF DevInv, DevType
  <2> QED
    BY <1>1, <1>2, <2>1, DeviceKept
<1>5. h_state \in {"flush", "write"} /\ h_in = << >>
  BY <1>1 DEF HostInv
<1>6. h_state' \in {"flush", "drain", "write", "header"}
  BY <1>1, <1>5
<1>7. Q' = Q
  BY <1>1, <1>2 DEF Q, apiVars
<1>8. R' = R
  <2>1. Got' = Got
    BY <1>1, <1>5, <1>6 DEF Got, Over
  <2> QED
    BY <1>1, <2>1 DEF R
<1>9. HostType'
  BY <1>1, <1>2, <1>6 DEF HostType, Opening, Asking
<1>10. h_state' \in {"flush", "write"} <=> h_out' # << >>
  BY <1>1, <1>3, <1>5
<1>11. h_state' = "header" => Len(h_in') < HDR
  BY <1>1, <1>5 DEF HDR
<1>12. CASE h_state = "flush"
  <2>1. h_state' \in {"flush", "drain"} /\ Cut
    BY <1>1, <1>12 DEF HostInv, Opening
  <2>2. Cut'
    BY <1>4, <1>7, <1>8, <1>12, <2>1, CutKept DEF Opening
  <2>3. Len(h_out') <= FLUSH_LEN
    BY <1>1, <1>2, <1>12, HostAssumption DEF HostInv
  <2>4. HostInv'
    BY <1>1, <1>5, <1>9, <1>10, <2>1, <2>2, <2>3 DEF HostInv, Asking
  <2> QED
    BY <1>4, <2>4 DEF ApiInv
<1>13. CASE h_state = "write"
  <2>1. h_state' \in {"write", "header"} /\ Asks
    BY <1>1, <1>13 DEF HostInv, Asking
  <2>2. Asks'
    BY <1>1, <1>4, <1>7, <1>8, <2>1, AskKept
  <2>3. HostInv'
    BY <1>1, <1>5, <1>9, <1>10, <1>11, <2>1, <2>2 DEF HostInv, Over, Opening
  <2> QED
    BY <1>4, <2>3 DEF ApiInv
<1> QED
  BY <1>5, <1>12, <1>13

LEMMA PollInvariant ==
  ASSUME ApiInv, Poll
  PROVE  ApiInv'
<1> DEFINE n == MIN_(Len(down), QUEUE_SIZE - Len(h_queue))
<1>1. /\ DevInv /\ DevType /\ HostType /\ HostInv
      /\ down \in Seq(Nat) /\ h_queue \in Seq(Nat) /\ h_in \in Seq(Nat)
      /\ h_state \notin Over /\ n > 0
      /\ h_queue' = h_queue \o Take(down, n) /\ down' = Drop(down, n)
      /\ up' = up /\ UNCHANGED <<apiVars, epVars>> /\ UNCHANGED hostVars
      /\ up \in Seq(Nat) /\ Len(down) <= DOWN_SIZE
  BY DEF ApiInv, HostInv, DevInv, DevType, HostType, Poll
<1>2. n \in Nat /\ n <= Len(down)
  <2>1. Len(down) \in Nat /\ QUEUE_SIZE - Len(h_queue) \in Int
    BY <1>1, HostAssumption
  <2> QED
    BY <1>1, <2>1 DEF MIN_
<1> HIDE DEF n
<1>3. /\ Take(down, n) \in Seq(Nat) /\ Drop(down, n) \in Seq(Nat)
      /\ Len(Drop(down, n)) = Len(down) - n
  BY <1>1, <1>2, TakeFacts, DropFacts
<1>4. h_queue' \in Seq(Nat) /\ down' \in Seq(Nat) /\ Len(down') <= DOWN_SIZE
  <2>1. h_queue \o Take(down, n) \in Seq(Nat)
    BY <1>1, <1>3, ConcatFacts
  <2>2. Len(down) \in Nat /\ DOWN_SIZE \in Nat
    BY <1>1, DeviceAssumption
  <2> QED
    BY <1>1, <1>2, <1>3, <2>1, <2>2
<1>5. DevInv' /\ Left' = Left /\ Need' = Need /\ pkt' = pkt /\ state' = state
  BY <1>1, <1>4, DeviceKept
<1>6. Q' = Q
  BY <1>1 DEF Q, apiVars, hostVars
<1>7. R' = R
  <2>1. h_queue' \o down' = h_queue \o down
    BY <1>1, <1>2, MovesOn
  <2>2. Got' = Got
    BY <1>1 DEF Got, hostVars
  <2> QED
    BY <2>1, <2>2 DEF R
<1>8. h_state \notin {"flushed", "ready", "answered"}
  <2>1. down # << >>
    BY <1>1, <1>2
  <2> QED
    BY <1>1, <2>1 DEF HostInv, Aligned
<1>9. HostType'
  BY <1>1, <1>4 DEF HostType, hostVars
<1>10. /\ h_state' # "mismatch"
       /\ h_state' \in {"flush", "write"} <=> h_out' # << >>
       /\ h_state' \in {"closed", "flush", "flushed", "ready", "write"} => h_in' = << >>
       /\ h_state' = "header" => Len(h_in') < HDR
       /\ h_state' = "payload" => Verdict(h_req)' = 0
       /\ h_state' \in {"payload", "answered", "refused"} => Answer(h_in)'
       /\ h_state' = "flush" => Len(h_out') <= FLUSH_LEN
  BY <1>1 DEF HostInv, hostVars, Answer, Verdict, buf_sz
<1>11. h_state' = h_state /\ h_req' = h_req /\ last_sn' = last_sn
  BY <1>1 DEF hostVars
<1>12. h_state' \in Over \cup Opening => Cut'
  <2>1. h_state' \in Over \cup Opening => Cut
    BY <1>1, <1>11 DEF HostInv
  <2> QED
    BY <1>5, <1>6, <1>7, <1>11, <2>1, CutKept
<1>13. h_state' \in Asking => Asks'
  <2>1. h_state' \in Asking => Asks
    BY <1>1, <1>11 DEF HostInv
  <2> QED
    BY <1>5, <1>6, <1>7, <1>11, <2>1, AskKept
<1>14. HostInv'
  BY <1>8, <1>9, <1>10, <1>11, <1>12, <1>13 DEF HostInv
<1> QED
  BY <1>5, <1>14 DEF ApiInv

(* flush has read less than it asked for: it ends by its timeout.          *)
LEMMA DrainInvariant ==
  ASSUME ApiInv, Drain
  PROVE  ApiInv'
<1> DEFINE n == MIN_(Len(h_queue), QUEUE_SIZE - Len(h_in))
<1>1. /\ DevInv /\ DevType /\ HostType /\ HostInv
      /\ down \in Seq(Nat) /\ h_queue \in Seq(Nat) /\ h_in \in Seq(Nat) /\ h_out \in Seq(Nat)
      /\ h_state = "drain" /\ n > 0
      /\ h_queue' = Drop(h_queue, n)
      /\ h_in' = IF Len(h_in) + n < QUEUE_SIZE THEN h_in \o Take(h_queue, n) ELSE << >>
      /\ h_state' = IF Len(h_in) + n < QUEUE_SIZE THEN "drain" ELSE "flushed"
      /\ UNCHANGED devVars
      /\ h_out' = h_out /\ h_req' = h_req /\ last_sn' = last_sn
  BY DEF ApiInv, HostInv, DevInv, DevType, HostType, Drain
<1>2. n \in Nat /\ n <= Len(h_queue) /\ Len(h_queue) \in Nat /\ Len(h_in) \in Nat
  <2>1. Len(h_queue) \in Nat /\ Len(h_in) \in Nat /\ QUEUE_SIZE \in Nat
    BY <1>1, HostAssumption
  <2> QED
    BY <1>1, <2>1 DEF MIN_
<1> HIDE DEF n
<1>3. Cut /\ Got = h_in
  BY <1>1 DEF HostInv, Opening, Got, Over
<1>4. Len(R) < QUEUE_SIZE
  <2>1. CASE CutAnswered
    <3>1. Left \in Nat /\ Len(R) + Left < QUEUE_SIZE /\ R \in Seq(Nat)
      BY <1>1, <2>1, LeftAndNeed, QType DEF CutAnswered
    <3> QED
      BY <3>1, HostAssumption
  <2>2. CASE CutWaits \/ CutTaken
    <3>1. Len(R) = 0
      BY <2>2 DEF CutWaits, CutTaken
    <3> QED
      BY <3>1, HostAssumption DEF HDR
  <2> QED
    BY <1>3, <2>1, <2>2 DEF Cut
<1>5. Len(h_in) + n < QUEUE_SIZE
  <2>1. Len(R) = Len(h_in) + Len(h_queue) + Len(down) /\ Len(down) \in Nat
    BY <1>1, <1>3, QType
  <2> QED
    BY <1>2, <1>4, <2>1, HostAssumption
<1>6. h_state' = "drain" /\ h_in' = h_in \o Take(h_queue, n)
  BY <1>1, <1>5
<1>7. DevInv' /\ Left' = Left /\ Need' = Need /\ pkt' = pkt /\ state' = state
  BY <1>1, DeviceUntouched
<1>8. Q' = Q
  BY <1>1 DEF Q, devVars, apiVars
<1>9. R' = R
  <2>1. Got' = h_in'
    BY <1>6 DEF Got, Over
  <2>2. down' = down
    BY <1>1 DEF devVars
  <2>3. h_in' \o (h_queue' \o down) = h_in \o (h_queue \o down)
    <3>1. /\ h_in \in Seq(Nat) /\ h_queue \in Seq(Nat) /\ down \in Seq(Nat)
          /\ n \in Nat /\ n <= Len(h_queue)
      BY <1>1, <1>2
    <3>2. (h_in \o Take(h_queue, n)) \o (Drop(h_queue, n) \o down) = h_in \o (h_queue \o down)
      BY <3>1, MovesUp
    <3> QED
      BY <1>1, <1>6, <3>2
  <2> QED
    BY <1>3, <2>1, <2>2, <2>3 DEF R
<1>10. HostType'
  <2>1. Take(h_queue, n) \in Seq(Nat) /\ h_queue' \in Seq(Nat)
    BY <1>1, <1>2, TakeFacts, DropFacts
  <2>2. h_in' \in Seq(Nat)
    BY <1>1, <1>6, <2>1, ConcatFacts
  <2> QED
    BY <1>1, <1>6, <2>1, <2>2 DEF HostType, Opening
<1>11. Cut'
  BY <1>1, <1>3, <1>6, <1>7, <1>8, <1>9, CutKept
<1>12. HostInv'
  BY <1>1, <1>6, <1>10, <1>11 DEF HostInv, Asking
<1> QED
  BY <1>7, <1>12 DEF ApiInv

LEMMA QIsUp ==
  ASSUME DevType, HostType, state = "idle" => pkt_buf = << >>, h_out = << >>
  PROVE  Q = up
<1>1. up \in Seq(Nat)
  BY DEF DevType
<1>2. Q = << >> \o (up \o << >>)
  BY DEF Q
<1>3. up \o << >> = up /\ << >> \o up = up
  BY <1>1, ConcatEmptySeq
<1> QED
  BY <1>2, <1>3

(* When nothing comes any more all there was has been looked at: flush has *)
(* left no more than a few of its own bytes.                               *)
LEMMA DrainTimeoutInvariant ==
  ASSUME ApiInv, DrainTimeout
  PROVE  ApiInv'
<1>1. /\ DevInv /\ DevType /\ HostType /\ HostInv
      /\ h_state = "drain" /\ Silent /\ h_state' = "flushed" /\ h_in' = << >>
      /\ UNCHANGED devVars
      /\ h_queue' = h_queue /\ h_out' = h_out /\ h_req' = h_req /\ last_sn' = last_sn
      /\ ~halted
  BY DEF ApiInv, HostInv, DevInv, DrainTimeout
<1>2. Cut /\ h_out = << >> /\ down = << >> /\ h_queue = << >>
  BY <1>1 DEF HostInv, Opening, Silent
<1>3. DevInv' /\ state' = state
  BY <1>1, DeviceUntouched
<1>4. state = "idle" /\ Len(up) + Len(pkt_buf) < HDR
  <2> SUFFICES ASSUME state # "idle" PROVE FALSE
    BY <1>1 DEF Silent
  <2>1. is_write_op(current_op(pkt)) /\ up = << >>
    BY <1>1 DEF Silent, pkt
  <2>2. CASE CutTaken
    <3>1. Q = up /\ Len(Q) >= Need /\ Need \in Nat /\ Need > 0
      BY <1>1, <1>2, <2>2, QIsUp, LeftAndNeed DEF CutTaken, Opening
    <3> QED
      BY <2>1, <3>1
  <2>3. CASE CutAnswered
    <3>1. RespondingOK
      BY <1>1, <2>3 DEF CutAnswered, DevInv, DevType
    <3>2. current_op(pkt) \in {api_op_info, api_op_buf_rd, api_op_str_rd}
      BY <3>1 DEF RespondingOK
    <3> QED
      BY <2>1, <3>2 DEF is_write_op, api_op_info, api_op_buf_rd, api_op_str_rd,
                        api_op_reg_wr, api_op_buf_wr, api_op_str_wr
  <2> QED
    BY <1>2, <2>2, <2>3 DEF Cut, CutWaits
<1>5. OnlyFlush(Q)
  <2>1. Len(Q) < HDR
    BY <1>1, <1>2, <1>4, NothingQueued
  <2>2. ~CutWaits
    <3> SUFFICES ASSUME CutWaits PROVE FALSE
      OBVIOUS
    <3>1. PICK k \in Nat, r \in PlainRequests, sn \in Nat : \E n \in 1 .. Len(Message(r, sn)) :
            h_state \in Opening => Len(Q) >= k + n + FLUSH_LEN
      BY DEF CutWaits
    <3>2. PICK n \in 1 .. Len(Message(r, sn)) : Len(Q) >= k + n + FLUSH_LEN
      BY <1>1, <3>1 DEF Opening
    <3>3. n \in Nat /\ n >= 1 /\ FLUSH_LEN \in Nat /\ FLUSH_LEN >= HDR /\ Len(Q) \in Nat
      BY <1>1, PlainFacts, QType
    <3> QED
      BY <2>1, <3>2, <3>3 DEF HDR
  <2> QED
    BY <1>2, <1>4, <2>2 DEF Cut, CutTaken, CutAnswered
<1>6. pkt_buf = << >>
  <2> SUFFICES ASSUME pkt_buf # << >> PROVE FALSE
    OBVIOUS
  <2>1. pkt_buf \in Seq(Nat) /\ up \o h_out \in Seq(Nat) /\ Q = pkt_buf \o (up \o h_out)
    BY <1>1, <1>4, QType DEF DevType, Q
  <2>2. 1 \in 1 .. Len(pkt_buf)
    BY <2>1, EmptySeq
  <2>3. Q[1] = pkt_buf[1] /\ Len(Q) = Len(pkt_buf) + Len(up \o h_out)
    BY <2>1, <2>2, ConcatFacts
  <2>4. 1 \in 1 .. Len(Q)
    <3>1. Len(up \o h_out) \in Nat /\ Len(pkt_buf) \in Nat
      BY <2>1
    <3> QED
      BY <2>2, <2>3, <3>1
  <2>5. pkt_buf[1] = api_op_resp
    BY <1>5, <2>3, <2>4 DEF OnlyFlush
  <2> QED
    BY <1>1, <1>4, <2>5 DEF DevInv, IdleOK, IsResponse, api_op_resp
<1>7. Q = up
  BY <1>1, <1>2, <1>6, QIsUp
<1>8. Aligned
  <2>1. \A i \in 1 .. Len(up) : IsResponse(up[i])
    BY <1>5, <1>7 DEF OnlyFlush, IsResponse, api_op_resp
  <2>2. Len(up) < HDR
    BY <1>1, <1>4, <1>6 DEF DevType
  <2> QED
    BY <1>2, <1>4, <1>6, <2>1, <2>2 DEF Aligned
<1>9. Aligned' /\ OnlyFlush(Q)'
  BY <1>1, <1>5, <1>8 DEF Aligned, OnlyFlush, Q, devVars, apiVars
<1>10. HostType'
  BY <1>1 DEF HostType
<1>11. HostInv'
  BY <1>1, <1>2, <1>9, <1>10 DEF HostInv, Over, Opening, Asking
<1> QED
  BY <1>3, <1>11 DEF ApiInv

LEMMA PlainAsked ==
  ASSUME Ask, astray' = {}
  PROVE  /\ h_state \in {"flushed", "ready"}
         /\ \E r \in PlainRequests : wr_packet(r)
<1>1. PICK r \in Requests \cup {Verify} : wr_packet(r)
  BY DEF Ask
<1>2. StraysBy(r) = {}
  BY <1>1 DEF wr_packet
<1> QED
  BY <1>1, <1>2 DEF PlainRequests, Ask

LEMMA AskInvariant ==
  ASSUME ApiInv, Ask, astray' = {}
  PROVE  ApiInv'
<1>1. PICK r \in PlainRequests : wr_packet(r)
  BY PlainAsked
<1> DEFINE m == Message(r, last_sn')
<1>2. /\ DevInv /\ DevType /\ HostType /\ HostInv
      /\ h_state \in {"flushed", "ready"} /\ h_state' = "write"
      /\ UNCHANGED devVars
      /\ h_queue' = h_queue /\ h_in' = h_in /\ h_req' = r
      /\ last_sn' = (last_sn + 1) % SN_MOD
      /\ h_out' = m
  BY <1>1 DEF ApiInv, HostInv, DevInv, Ask, wr_packet, Message
<1>3. last_sn' \in Nat
  <2>1. SN_MOD \in Nat \ {0}
    BY HostAssumption DEF Byte, ALL_ONES, api_op_resp
  <2>2. last_sn + 1 \in Nat
    BY <1>2 DEF HostType
  <2> QED
    BY <1>2, <2>1, <2>2
<1>4. m \in Seq(Nat) /\ Len(m) \in Nat /\ Len(m) >= 1
  <2>1. m \in Seq(Nat) /\ Len(m) = HDR + Len(r.data) /\ Len(r.data) \in Nat
    BY <1>3, MessageFacts, RequestFacts
  <2> HIDE DEF m
  <2> QED
    BY <2>1 DEF HDR
<1>5. DevInv' /\ state' = state
  BY <1>2, DeviceUntouched
<1>6. Aligned /\ OnlyFlush(Q) /\ h_in = << >> /\ h_out = << >>
  BY <1>2 DEF HostInv
<1>7. Q = up /\ up \in Seq(Nat) /\ Len(up) \in Nat
  BY <1>2, <1>6, QIsUp DEF Aligned, DevType
<1> HIDE DEF m
<1>8. Q' = up \o m
  <2>1. up \o m \in Seq(Nat)
    BY <1>4, <1>7, ConcatFacts
  <2>2. Q' = << >> \o (up \o m)
    BY <1>2, <1>6 DEF Q, Aligned, devVars, apiVars
  <2> QED
    BY <2>1, <2>2, ConcatEmptySeq
<1>9. /\ Len(Q') = Len(up) + Len(m)
      /\ \A i \in 1 .. Len(up) + Len(m) : Q'[i] = IF i <= Len(up) THEN up[i] ELSE m[i - Len(up)]
  BY <1>4, <1>7, <1>8, ConcatFacts
<1>10. Carries(Q', Len(up), Len(m), m)
  <2>1. ASSUME NEW i \in 1 .. Len(Q')
        PROVE  Q'[i] = IF i \in Len(up) + 1 .. Len(up) + Len(m) THEN m[i - Len(up)]
                       ELSE api_op_resp
    <3>1. i \in 1 .. Len(up) + Len(m)
      BY <1>9
    <3>2. CASE i <= Len(up)
      <4>1. up[i] = api_op_resp
        BY <1>6, <1>7, <3>1, <3>2 DEF OnlyFlush
      <4> QED
        BY <1>4, <1>7, <1>9, <3>1, <3>2, <4>1
    <3>3. CASE ~(i <= Len(up))
      BY <1>4, <1>7, <1>9, <3>1, <3>3
    <3> QED
      BY <3>2, <3>3
  <2> QED
    BY <1>4, <1>7, <1>9, <2>1 DEF Carries
<1>11. Len(R') = 0
  <2>1. R' = << >> \o (<< >> \o << >>)
    BY <1>2, <1>6 DEF R, Got, Over, Aligned, devVars
  <2> QED
    BY <2>1, ConcatEmptySeq
<1>12. AskWaits'
  <2>1. state' = "idle"
    BY <1>5, <1>6 DEF Aligned
  <2>2. m = Message(h_req, last_sn)'
    BY <1>2 DEF m, Message
  <2> QED
    BY <1>7, <1>9, <1>10, <1>11, <2>1, <2>2 DEF AskWaits, Carries
<1>13. HostType'
  BY <1>2, <1>3, <1>4 DEF HostType, Asking
<1>14. HostInv'
  <2>1. h_out' # << >>
    BY <1>2, <1>4
  <2> QED
    BY <1>2, <1>6, <1>12, <1>13, <2>1 DEF HostInv, Asks, Over, Opening
<1> QED
  BY <1>5, <1>14 DEF ApiInv

(* The beginning of an answer tells all there is to tell.                  *)
LEMMA AnswerBegins ==
  ASSUME NEW s \in Seq(Nat), NEW t \in Seq(Nat), Answer(s \o t), Len(s) >= HDR
  PROVE  Answer(s) /\ (s \o t)[7] = s[7]
<1>1. Len(s) >= 7 /\ Len(s) \in Nat
  BY DEF HDR
<1>2. \A i \in 1 .. Len(s) : (s \o t)[i] = s[i]
  BY ConcatFacts
<1>3. 1 \in 1 .. Len(s) /\ 2 \in 1 .. Len(s) /\ 3 \in 1 .. Len(s) /\ 4 \in 1 .. Len(s)
      /\ 7 \in 1 .. Len(s)
  BY <1>1
<1>4. /\ (s \o t)[1] = s[1] /\ (s \o t)[2] = s[2] /\ (s \o t)[3] = s[3]
      /\ (s \o t)[4] = s[4] /\ (s \o t)[7] = s[7]
  BY <1>2, <1>3
<1> QED
  BY <1>4 DEF Answer

LEMMA VerdictCases ==
  ASSUME NEW r
  PROVE  Verdict(r) \in {0, api_fl_err_ep, api_fl_err_op, api_fl_err_sz}
BY DEF Verdict

(* What the two reads have in common: n bytes come from the queue.         *)
LEMMA ReadFacts ==
  ASSUME ApiInv, h_state \in {"header", "payload"}, UNCHANGED devVars,
         NEW n \in Nat, n <= Len(h_queue),
         h_queue' = Drop(h_queue, n), h_in' = h_in \o Take(h_queue, n),
         h_out' = h_out, h_req' = h_req, last_sn' = last_sn
  PROVE  /\ DevInv' /\ Left' = Left /\ Need' = Need /\ pkt' = pkt /\ state' = state
         /\ h_in' \in Seq(Nat) /\ Len(h_in') = Len(h_in) + n
         /\ h_queue' \in Seq(Nat) /\ down \in Seq(Nat) /\ down' = down
         /\ h_queue' \o down \in Seq(Nat)
         /\ R = h_in' \o (h_queue' \o down)
         /\ Len(R) = Len(h_in') + Len(h_queue' \o down)
         /\ Len(h_queue' \o down) = Len(h_queue') + Len(down)
         /\ Q' = Q /\ Len(R) = Len(h_in) + Len(h_queue) + Len(down)
         /\ Asks
<1>1. /\ DevInv /\ DevType /\ HostType /\ HostInv /\ Asks
      /\ down \in Seq(Nat) /\ h_queue \in Seq(Nat) /\ h_in \in Seq(Nat)
      /\ down' = down
  BY DEF ApiInv, HostInv, DevInv, DevType, HostType, Asking, devVars
<1>2. DevInv' /\ Left' = Left /\ Need' = Need /\ pkt' = pkt /\ state' = state
  BY <1>1, DeviceUntouched
<1>3. /\ Take(h_queue, n) \in Seq(Nat) /\ Len(Take(h_queue, n)) = n
      /\ h_queue' \in Seq(Nat)
  BY <1>1, TakeFacts, DropFacts
<1>4. h_in' \in Seq(Nat) /\ Len(h_in') = Len(h_in) + n
  <2> DEFINE a == Take(h_queue, n)
  <2>1. h_in \in Seq(Nat) /\ a \in Seq(Nat) /\ Len(a) = n /\ h_in' = h_in \o a
    BY <1>1, <1>3
  <2> HIDE DEF a
  <2>2. h_in \o a \in Seq(Nat) /\ Len(h_in \o a) = Len(h_in) + Len(a)
    BY <2>1, ConcatFacts
  <2> QED
    BY <2>1, <2>2
<1>5. h_queue' \o down \in Seq(Nat) /\ Len(h_queue' \o down) = Len(h_queue') + Len(down)
  BY <1>1, <1>3, ConcatFacts
<1>6. h_in' \o (h_queue' \o down) = h_in \o (h_queue \o down)
  <2>1. /\ h_in \in Seq(Nat) /\ h_queue \in Seq(Nat) /\ down \in Seq(Nat)
        /\ n \in Nat /\ n <= Len(h_queue)
    BY <1>1
  <2>2. (h_in \o Take(h_queue, n)) \o (Drop(h_queue, n) \o down) = h_in \o (h_queue \o down)
    BY <2>1, MovesUp
  <2> QED
    BY <2>2
<1>7. Got = h_in
  BY DEF Got, Over
<1>8. R = h_in' \o (h_queue' \o down)
  BY <1>6, <1>7 DEF R
<1>9. Len(R) = Len(h_in') + Len(h_queue' \o down)
  BY <1>4, <1>5, <1>8, ConcatFacts
<1>10. Q' = Q
  BY DEF Q, devVars, apiVars
<1>11. Len(R) = Len(h_in) + Len(h_queue) + Len(down)
  BY <1>1, <1>7, QType
<1> QED
  BY <1>1, <1>2, <1>3, <1>4, <1>5, <1>8, <1>9, <1>10, <1>11

LEMMA ReadHeaderInvariant ==
  ASSUME ApiInv, ReadHeader
  PROVE  ApiInv'
<1> DEFINE n == MIN_(Len(h_queue), HDR - Len(h_in))
<1>1. /\ DevInv /\ DevType /\ HostType /\ HostInv
      /\ h_state = "header" /\ h_queue # << >> /\ Len(h_in) < HDR
      /\ h_queue' = Drop(h_queue, n)
      /\ h_in' = h_in \o Take(h_queue, n)
      /\ h_state' = IF Len(h_in') < HDR THEN "header" ELSE HeaderVerdict(Fields(h_in'))
      /\ UNCHANGED devVars
      /\ h_out' = h_out /\ h_req' = h_req /\ last_sn' = last_sn
      /\ h_queue \in Seq(Nat) /\ h_in \in Seq(Nat) /\ h_out = << >>
  BY DEF ApiInv, HostInv, DevInv, HostType, ReadHeader
<1>2. /\ n \in Nat /\ n <= Len(h_queue) /\ Len(h_in) + n <= HDR
      /\ Len(h_queue) \in Nat /\ Len(h_queue) > 0 /\ Len(h_in) \in Nat
  <2>1. Len(h_queue) \in Nat /\ Len(h_queue) > 0 /\ Len(h_in) \in Nat
    BY <1>1, EmptySeq
  <2> QED
    BY <1>1, <2>1 DEF MIN_, HDR
<1> HIDE DEF n
<1>3. /\ DevInv' /\ Left' = Left /\ Need' = Need /\ pkt' = pkt /\ state' = state
      /\ h_in' \in Seq(Nat) /\ Len(h_in') = Len(h_in) + n
      /\ h_queue' \in Seq(Nat) /\ down \in Seq(Nat) /\ down' = down
      /\ h_queue' \o down \in Seq(Nat)
      /\ R = h_in' \o (h_queue' \o down)
      /\ Len(R) = Len(h_in') + Len(h_queue' \o down)
      /\ Q' = Q /\ Len(R) = Len(h_in) + Len(h_queue) + Len(down)
      /\ Asks
  BY <1>1, <1>2, ReadFacts
<1>4. AskAnswered
  <2>1. Len(R) # 0
    <3>1. Len(down) \in Nat
      BY <1>3
    <3> QED
      BY <1>2, <1>3, <3>1
  <2> QED
    BY <1>3, <2>1 DEF Asks, AskWaits, AskTaken
<1>5. Verdict(h_req)' = Verdict(h_req)
  BY <1>1 DEF Verdict, buf_sz
<1>6. ASSUME h_state' \notin Over
      PROVE  Asks'
  <2>1. R' = R
    BY <1>3, <1>6 DEF R, Got
  <2> QED
    BY <1>1, <1>3, <2>1, AskKept
<1>7. ASSUME h_state' \in {"header", "payload", "refused"}
      PROVE  HostType'
  BY <1>1, <1>3, <1>7 DEF HostType, Over, Asking
<1>8. CASE Len(h_in') < HDR
  <2>1. h_state' = "header"
    BY <1>1, <1>8
  <2>2. Asks' /\ HostType'
    BY <1>6, <1>7, <2>1 DEF Over
  <2>3. HostInv'
    BY <1>1, <1>8, <2>1, <2>2 DEF HostInv, Over, Opening
  <2> QED
    BY <1>3, <2>3 DEF ApiInv
<1>9. CASE ~(Len(h_in') < HDR)
  <2>1. Len(h_in') = HDR
    BY <1>2, <1>3, <1>9 DEF HDR
  <2>2. Answer(h_in') /\ R[7] = h_in'[7]
    <3>1. h_in' \in Seq(Nat) /\ h_queue' \o down \in Seq(Nat) /\ Len(h_in') >= HDR
      <4>1. HDR >= HDR
        BY DEF HDR
      <4> QED
        BY <1>3, <2>1, <4>1
    <3>2. Answer(h_in' \o (h_queue' \o down))
      BY <1>3, <1>4 DEF AskAnswered
    <3> QED
      BY <1>3, <3>1, <3>2, AnswerBegins
  <2>3. Answer(h_in)'
    BY <1>1, <1>5, <2>2 DEF Answer
  <2>4. Fields(h_in').sn = last_sn /\ Fields(h_in').flags = Verdict(h_req)
    BY <2>2 DEF Fields, Answer
  <2>5. Verdict(h_req) % api_op_resp # 0 <=> Verdict(h_req) # 0
    BY VerdictCases DEF api_fl_err_ep, api_fl_err_op, api_fl_err_sz, api_op_resp
  <2>6. h_state' = IF Verdict(h_req) # 0 THEN "refused" ELSE "payload"
    BY <1>1, <1>9, <2>4, <2>5 DEF HeaderVerdict
  <2>7. CASE Verdict(h_req) # 0
    <3>1. h_state' = "refused" /\ HostType'
      BY <1>7, <2>6, <2>7
    <3>2. R' = h_queue' \o down
      <4>1. R' = << >> \o (h_queue' \o down)
        BY <1>3, <3>1 DEF R, Got, Over
      <4> QED
        BY <1>3, <4>1, ConcatEmptySeq
    <3>3. Len(R') + Left' < QUEUE_SIZE
      <4>1. Len(R) + Left = HDR + R[7] /\ HDR + R[7] < QUEUE_SIZE /\ Left \in Nat
        BY <1>1, <1>4, LeftAndNeed DEF AskAnswered, Answer
      <4>2. Len(h_queue' \o down) \in Nat /\ Len(R) \in Nat /\ Len(R) >= Len(h_queue' \o down)
        <5>1. Len(h_queue' \o down) \in Nat /\ Len(h_in') \in Nat
          BY <1>3
        <5> QED
          BY <1>3, <5>1
      <4>3. Len(R) + Left < QUEUE_SIZE
        BY <4>1
      <4> QED
        BY <1>3, <3>2, <4>1, <4>2, <4>3, HostAssumption
    <3>4. OnlyFlush(Q') /\ state' # "processing"
      BY <1>3, <1>4 DEF AskAnswered, OnlyFlush
    <3>5. CutAnswered'
      BY <3>3, <3>4 DEF CutAnswered, OnlyFlush
    <3>6. HostInv'
      BY <1>1, <2>3, <3>1, <3>5 DEF HostInv, Cut, Over, Opening, Asking
    <3> QED
      BY <1>3, <3>6 DEF ApiInv
  <2>8. CASE Verdict(h_req) = 0
    <3>1. h_state' = "payload" /\ Asks' /\ HostType'
      BY <1>6, <1>7, <2>6, <2>8 DEF Over
    <3>2. HostInv'
      BY <1>1, <1>5, <2>3, <2>8, <3>1 DEF HostInv, Over, Opening
    <3> QED
      BY <1>3, <3>2 DEF ApiInv
  <2> QED
    BY <2>7, <2>8
<1> QED
  BY <1>8, <1>9

LEMMA ReadPayloadInvariant ==
  ASSUME ApiInv, ReadPayload
  PROVE  ApiInv'
<1> DEFINE len == Fields(h_in).data_len
           n == MIN_(Len(h_queue), HDR + len - Len(h_in))
<1>1. /\ DevInv /\ DevType /\ HostType /\ HostInv
      /\ h_state = "payload" /\ Answer(h_in) /\ Verdict(h_req) = 0
      /\ h_queue' = Drop(h_queue, n)
      /\ h_in' = h_in \o Take(h_queue, n)
      /\ h_state' = IF Len(h_in') < HDR + len THEN "payload"
                    ELSE IF h_req.op = api_op_buf_rd /\ len # h_req.p2 THEN "mismatch"
                    ELSE "answered"
      /\ UNCHANGED devVars
      /\ h_out' = h_out /\ h_req' = h_req /\ last_sn' = last_sn
      /\ h_queue \in Seq(Nat) /\ h_in \in Seq(Nat) /\ h_out = << >> /\ down \in Seq(Nat)
  BY DEF ApiInv, HostInv, DevInv, DevType, HostType, ReadPayload
<1>2. len = h_in[7] /\ len \in Nat /\ Len(h_in) >= HDR
  <2>1. Len(h_in) >= HDR
    BY <1>1 DEF Answer
  <2>2. Fields(h_in).data_len = h_in[7] /\ Fields(h_in) \in Header
    BY <1>1, <2>1, FieldsFacts
  <2> QED
    BY <2>1, <2>2 DEF Header
<1> HIDE DEF len
<1>3. Asks /\ Got = h_in
  BY <1>1 DEF HostInv, Asking, Got, Over
<1>4. Len(R) = Len(h_in) + Len(h_queue) + Len(down) /\ Len(down) \in Nat
      /\ Len(h_in) \in Nat /\ Len(h_queue) \in Nat
  BY <1>1, <1>3, QType
<1>5. AskAnswered
  <2>1. Len(R) # 0
    BY <1>2, <1>4 DEF HDR
  <2> QED
    BY <1>3, <2>1 DEF Asks, AskWaits, AskTaken
<1>6. R[7] = len /\ Len(R) + Left = HDR + len /\ Left \in Nat
  <2>1. h_in \in Seq(Nat) /\ h_queue \o down \in Seq(Nat) /\ R = h_in \o (h_queue \o down)
    BY <1>1, <1>3, ConcatFacts DEF R
  <2>2. R[7] = h_in[7]
    BY <1>2, <1>5, <2>1, AnswerBegins DEF AskAnswered
  <2> QED
    BY <1>1, <1>2, <1>5, <2>2, LeftAndNeed DEF AskAnswered
<1>7. n \in Nat /\ n <= Len(h_queue) /\ Len(h_in) + n <= HDR + len
  <2>1. HDR + len - Len(h_in) \in Nat
    BY <1>2, <1>4, <1>6 DEF HDR
  <2> QED
    BY <1>2, <1>4, <2>1 DEF MIN_, HDR
<1> HIDE DEF n
<1>8. /\ DevInv' /\ Left' = Left /\ Need' = Need /\ pkt' = pkt /\ state' = state
      /\ h_in' \in Seq(Nat) /\ Len(h_in') = Len(h_in) + n
      /\ h_queue' \in Seq(Nat) /\ down' = down
      /\ h_queue' \o down \in Seq(Nat)
      /\ R = h_in' \o (h_queue' \o down)
      /\ Len(R) = Len(h_in') + Len(h_queue' \o down)
      /\ Len(h_queue' \o down) = Len(h_queue') + Len(down)
      /\ Q' = Q
  BY <1>1, <1>7, ReadFacts
<1>9. Verdict(h_req)' = Verdict(h_req)
  BY <1>1 DEF Verdict, buf_sz
<1>10. Answer(h_in)' /\ h_in'[7] = len
  <2>1. h_in' \in Seq(Nat) /\ h_queue' \o down \in Seq(Nat) /\ Len(h_in') >= HDR
    BY <1>2, <1>4, <1>7, <1>8 DEF HDR
  <2>2. Answer(h_in') /\ R[7] = h_in'[7]
    BY <1>5, <1>8, <2>1, AnswerBegins DEF AskAnswered
  <2> QED
    BY <1>1, <1>6, <1>9, <2>2 DEF Answer
<1>11. CASE Len(h_in') < HDR + len
  <2>1. h_state' = "payload"
    BY <1>1, <1>11
  <2>2. R' = R
    BY <1>8, <2>1 DEF R, Got, Over
  <2>3. Asks'
    BY <1>1, <1>3, <1>8, <2>2, AskKept
  <2>4. HostType'
    BY <1>1, <1>8, <2>1 DEF HostType, Asking
  <2>5. HostInv'
    BY <1>1, <1>9, <1>10, <2>1, <2>3, <2>4 DEF HostInv, Over, Opening
  <2> QED
    BY <1>8, <2>5 DEF ApiInv
<1>12. CASE ~(Len(h_in') < HDR + len)
  <2>1. Len(h_in') = HDR + len
    <3>1. Len(h_in') = Len(h_in) + n /\ ~(Len(h_in') < HDR + len)
      BY <1>8, <1>12
    <3>2. Len(h_in) + n <= HDR + len /\ Len(h_in) \in Nat /\ n \in Nat /\ HDR + len \in Nat
      BY <1>2, <1>4, <1>7 DEF HDR
    <3> QED
      BY <3>1, <3>2
  <2>2. h_req.op = api_op_buf_rd => len = h_req.p2
    BY <1>1, <1>2 DEF Answer
  <2>3. h_state' = "answered"
    BY <1>1, <1>12, <2>2
  <2>4. Left = 0 /\ Len(h_queue') = 0 /\ Len(down) = 0
    <3>1. Len(h_queue') \in Nat
      BY <1>8
    <3>2. /\ Len(R) = Len(h_in') + (Len(h_queue') + Len(down))
          /\ Len(R) + Left = HDR + len /\ Left \in Nat /\ Len(down) \in Nat
          /\ HDR \in Nat /\ len \in Nat
      BY <1>2, <1>4, <1>6, <1>8 DEF HDR
    <3> QED
      BY <2>1, <3>1, <3>2
  <2>5. h_queue' = << >> /\ down' = << >>
    BY <1>1, <1>8, <2>4, EmptySeq
  <2>6. state = "idle" /\ Len(Q) = 0
    <3>1. state # "responding"
      BY <1>1, <2>4, LeftAndNeed
    <3> QED
      BY <1>1, <1>5, <3>1 DEF AskAnswered, DevType
  <2>7. HostType'
    BY <1>1, <1>8, <2>3 DEF HostType
  <2>8. HostInv'
    BY <1>1, <1>8, <1>10, <2>3, <2>5, <2>6, <2>7 DEF HostInv, Over, Opening, Asking
  <2> QED
    BY <1>8, <2>8 DEF ApiInv
<1> QED
  BY <1>11, <1>12

LEMMA UseInvariant ==
  ASSUME ApiInv, Use
  PROVE  ApiInv'
<1>1. /\ DevInv /\ DevType /\ HostType /\ HostInv
      /\ h_state = "answered" /\ h_state' = "ready" /\ h_in' = << >>
      /\ UNCHANGED devVars
      /\ h_queue' = h_queue /\ h_out' = h_out /\ h_req' = h_req /\ last_sn' = last_sn
      /\ state = "idle" /\ Len(Q) = 0 /\ h_queue = << >> /\ down = << >> /\ h_out = << >>
  BY DEF ApiInv, HostInv, DevInv, Use
<1>2. Len(pkt_buf) = 0 /\ Len(up) = 0
  BY <1>1, NothingQueued
<1>3. pkt_buf = << >> /\ up = << >>
  BY <1>1, <1>2, EmptySeq DEF DevType
<1>4. Aligned' /\ OnlyFlush(Q)'
  <2>1. Q' = Q
    BY <1>1 DEF Q, devVars, apiVars
  <2>2. OnlyFlush(Q)'
    BY <1>1, <2>1 DEF OnlyFlush
  <2> QED
    BY <1>1, <1>2, <1>3, <2>2 DEF Aligned, devVars, apiVars, HDR
<1>5. DevInv'
  BY <1>1, DeviceUntouched
<1>6. HostType'
  BY <1>1 DEF HostType
<1>7. HostInv'
  BY <1>1, <1>4, <1>6 DEF HostInv, Over, Opening, Asking
<1> QED
  BY <1>5, <1>7 DEF ApiInv

LEMMA WholeOrEnd ==
  ASSUME NEW k \in Nat, NEW l \in Nat, NEW n \in Nat, NEW a \in Nat,
         l <= n, k + n <= a, l = n \/ k + l = a
  PROVE  l = n
OBVIOUS

(* A message that is cut once more, or not at all.                         *)
LEMMA CutShorter ==
  ASSUME NEW q \in Seq(Nat), NEW s \in Seq(Nat), Len(s) <= Len(q),
         \A i \in 1 .. Len(s) : s[i] = q[i],
         NEW k \in Nat, NEW n \in Nat, NEW m, Carries(q, k, n, m), n >= 1
  PROVE  OnlyFlush(s) \/ \E l \in 1 .. n : Carries(s, k, l, m) /\ (l = n \/ k + l = Len(s))
<1>1. Len(s) \in Nat /\ Len(q) \in Nat
  OBVIOUS
<1>2. \A i \in 1 .. Len(q) :
       q[i] = IF i \in k + 1 .. k + n THEN m[i - k] ELSE api_op_resp
  BY DEF Carries
<1>3. CASE Len(s) <= k
  <2>1. ASSUME NEW i \in 1 .. Len(s)
        PROVE  s[i] = api_op_resp
    <3>1. i \in 1 .. Len(q) /\ ~(i \in k + 1 .. k + n)
      BY <1>1, <1>3
    <3> QED
      BY <1>2, <3>1
  <2> QED
    BY <2>1 DEF OnlyFlush
<1>4. ASSUME NEW l \in 1 .. n, k + l <= Len(s), l = n \/ k + l = Len(s)
      PROVE  \E ll \in 1 .. n : Carries(s, k, ll, m) /\ (ll = n \/ k + ll = Len(s))
  <2>1. ASSUME NEW i \in 1 .. Len(s)
        PROVE  s[i] = IF i \in k + 1 .. k + l THEN m[i - k] ELSE api_op_resp
    <3>1. i \in 1 .. Len(q) /\ (i \in k + 1 .. k + l <=> i \in k + 1 .. k + n)
      BY <1>1, <1>4
    <3> QED
      BY <1>2, <3>1
  <2>2. Carries(s, k, l, m)
    BY <1>4, <2>1 DEF Carries
  <2> QED
    BY <1>4, <2>2
<1>5. CASE Len(s) > k /\ k + n <= Len(s)
  <2>1. n \in 1 .. n
    OBVIOUS
  <2> QED
    BY <1>4, <1>5, <2>1
<1>6. CASE Len(s) > k /\ ~(k + n <= Len(s))
  <2>1. Len(s) - k \in 1 .. n /\ k + (Len(s) - k) = Len(s)
    BY <1>1, <1>6
  <2>2. k + (Len(s) - k) <= Len(s)
    BY <1>1
  <2> QED
    BY <1>4, <2>1, <2>2
<1> QED
  BY <1>1, <1>3, <1>5, <1>6

(* The program ends: what it has not written is lost, and what it has not  *)
(* read is nobody's.                                                       *)
LEMMA ExitInvariant ==
  ASSUME ApiInv, Exit, astray' = {}
  PROVE  ApiInv'
<1>1. /\ DevInv /\ DevType /\ HostType /\ HostInv
      /\ h_state \notin Over /\ h_state' = "closed" /\ h_in' = << >> /\ h_out' = << >>
      /\ UNCHANGED devVars
      /\ h_queue' = h_queue /\ h_req' = h_req /\ last_sn' = last_sn
      /\ h_req \in PlainRequests /\ last_sn \in Nat
  BY DEF ApiInv, HostInv, HostType, DevInv, Exit
<1>2. DevInv' /\ Left' = Left /\ Need' = Need /\ pkt' = pkt /\ state' = state
  BY <1>1, DeviceUntouched
<1>3. /\ R \in Seq(Nat) /\ R' = h_queue \o down /\ Len(R') <= Len(R)
      /\ Len(R) \in Nat /\ Len(R') \in Nat
  <2>1. R' = << >> \o (h_queue \o down)
    BY <1>1 DEF R, Got, Over, devVars
  <2>2. R \in Seq(Nat) /\ Got \in Seq(Nat) /\ h_queue \o down \in Seq(Nat)
    BY <1>1, QType
  <2>3. R' = h_queue \o down
    BY <2>1, <2>2, ConcatEmptySeq
  <2>4. Len(R) = Len(Got) + Len(h_queue \o down)
    BY <2>2, ConcatFacts DEF R
  <2>5. Len(Got) \in Nat /\ Len(h_queue \o down) \in Nat
    BY <2>2
  <2> QED
    BY <2>2, <2>3, <2>4, <2>5
<1>4. /\ Q \in Seq(Nat) /\ Q' \in Seq(Nat) /\ Len(Q') <= Len(Q)
      /\ \A i \in 1 .. Len(Q') : Q'[i] = Q[i]
      /\ Len(Q) \in Nat /\ Len(Q') \in Nat /\ Len(h_out) \in Nat
      /\ Len(Q') = Len(Q) - Len(h_out)
  <2> DEFINE a == (IF state = "idle" THEN pkt_buf ELSE << >>) \o up
  <2>1. /\ up \in Seq(Nat) /\ h_out \in Seq(Nat)
        /\ (IF state = "idle" THEN pkt_buf ELSE << >>) \in Seq(Nat)
    BY <1>1 DEF DevType, HostType
  <2>2. a \in Seq(Nat)
    BY <2>1, ConcatFacts
  <2>3. Q = a \o h_out
    BY <2>1, Concat3 DEF Q
  <2>4. Q' = a
    <3>1. up \o << >> = up
      BY <2>1, ConcatEmptySeq
    <3> QED
      BY <1>1, <3>1 DEF Q, devVars, apiVars
  <2> HIDE DEF a
  <2>5. /\ Q \in Seq(Nat) /\ Len(Q) = Len(a) + Len(h_out)
        /\ \A i \in 1 .. Len(a) : Q[i] = a[i]
    BY <2>1, <2>2, <2>3, ConcatFacts
  <2>6. Len(a) \in Nat /\ Len(h_out) \in Nat
    BY <2>1, <2>2
  <2> QED
    BY <2>2, <2>4, <2>5, <2>6
<1>5. h_state' \notin Opening
  BY <1>1 DEF Opening
<1>6. ASSUME OnlyFlush(Q), state # "processing", Len(R') + Left < QUEUE_SIZE
      PROVE  Cut'
  <2>1. OnlyFlush(Q')
    <3>1. \A i \in 1 .. Len(Q) : Q[i] = api_op_resp
      BY <1>6 DEF OnlyFlush
    <3>2. \A i \in 1 .. Len(Q') : i \in 1 .. Len(Q) /\ Q'[i] = Q[i]
      BY <1>4
    <3> QED
      BY <3>1, <3>2 DEF OnlyFlush
  <2>2. CutAnswered'
    BY <1>2, <1>6, <2>1 DEF CutAnswered, OnlyFlush
  <2> QED
    BY <2>2 DEF Cut
<1>7. ASSUME state = "idle", Len(R) = 0, NEW k \in Nat, NEW r \in PlainRequests, NEW sn \in Nat,
             NEW n \in 1 .. Len(Message(r, sn)), Carries(Q, k, n, Message(r, sn)),
             \A l \in 1 .. n : (k + l <= Len(Q') /\ (l = n \/ k + l = Len(Q'))) => MadeUp(r, l)
      PROVE  Cut'
  <2> DEFINE m == Message(r, sn)
  <2>1. n \in Nat /\ n >= 1 /\ Len(m) \in Nat
    <3>1. m \in Seq(Nat)
      BY MessageFacts
    <3> QED
      BY <3>1
  <2>2. Carries(Q, k, n, m)
    BY <1>7
  <2> HIDE DEF m
  <2>3. Len(R') = 0
    BY <1>3, <1>7
  <2>4. \/ OnlyFlush(Q')
        \/ \E l \in 1 .. n : Carries(Q', k, l, m) /\ (l = n \/ k + l = Len(Q'))
    <3>1. /\ Q \in Seq(Nat) /\ Q' \in Seq(Nat) /\ Len(Q') <= Len(Q)
          /\ \A i \in 1 .. Len(Q') : Q'[i] = Q[i]
      BY <1>4, Zenon
    <3>2. k \in Nat /\ n \in Nat /\ n >= 1 /\ Carries(Q, k, n, m)
      BY <2>1, <2>2
    <3> DEFINE q == Q  s == Q'
    <3>3. /\ q \in Seq(Nat) /\ s \in Seq(Nat) /\ Len(s) <= Len(q)
          /\ \A i \in 1 .. Len(s) : s[i] = q[i]
          /\ Carries(q, k, n, m)
      BY <3>1, <3>2
    <3> HIDE DEF q, s
    <3>4. OnlyFlush(s) \/ \E l \in 1 .. n : Carries(s, k, l, m) /\ (l = n \/ k + l = Len(s))
      BY <3>2, <3>3, CutShorter
    <3> QED
      BY <3>4 DEF s
  <2>5. CASE OnlyFlush(Q')
    <3>1. Left = 0 /\ Len(R') + Left' < QUEUE_SIZE
      <4>1. Left = 0
        BY <1>7 DEF Left
      <4> QED
        BY <1>2, <2>3, <4>1, HostAssumption DEF HDR
    <3>2. CutAnswered'
      BY <1>2, <1>7, <2>5, <3>1 DEF CutAnswered, OnlyFlush
    <3> QED
      BY <3>2 DEF Cut
  <2>6. CASE \E l \in 1 .. n : Carries(Q', k, l, m) /\ (l = n \/ k + l = Len(Q'))
    <3>1. PICK l \in 1 .. n : Carries(Q', k, l, m) /\ (l = n \/ k + l = Len(Q'))
      BY <2>6
    <3>1a. MadeUp(r, l)
      BY <1>7, <3>1 DEF Carries
    <3>2. l \in 1 .. Len(m)
      BY <1>7, <2>1 DEF m
    <3>3. /\ Carries(Q, k, l, m)' /\ MadeUp(r, l)'
          /\ h_state' \in Opening => Len(Q') >= k + l + FLUSH_LEN
      BY <1>5, <3>1, <3>1a DEF Carries, MadeUp
    <3>4. CutWaits'
      BY <1>2, <1>7, <2>3, <3>2, <3>3 DEF CutWaits, m
    <3> QED
      BY <3>4 DEF Cut
  <2> QED
    BY <2>4, <2>5, <2>6
<1>8. ASSUME state = "processing", Len(R) = 0, Need <= FLUSH_LEN,
             \A i \in 1 .. Len(Q) : i > Need => Q[i] = api_op_resp
      PROVE  Cut'
  <2>1. Len(R') = 0
    BY <1>3, <1>8
  <2>2. \A i \in 1 .. Len(Q') : i > Need' => Q'[i] = api_op_resp
    <3> TAKE i \in 1 .. Len(Q')
    <3>1. i \in 1 .. Len(Q) /\ Q'[i] = Q[i]
      BY <1>4
    <3> QED
      BY <1>2, <1>8, <3>1
  <2>3. CutTaken'
    BY <1>2, <1>5, <1>8, <2>1, <2>2 DEF CutTaken
  <2> QED
    BY <2>3 DEF Cut
<1>9. Cut'
  <2>1. CASE h_state \in Opening
    <3>1. Cut
      BY <1>1, <2>1 DEF HostInv
    <3>2. CASE CutWaits
      <4>1. state = "idle" /\ Len(R) = 0
        BY <3>2 DEF CutWaits
      <4>2. PICK k \in Nat, r \in PlainRequests, sn \in Nat :
              \E n \in 1 .. Len(Message(r, sn)) :
                /\ Carries(Q, k, n, Message(r, sn)) /\ MadeUp(r, n)
                /\ h_state \in Opening => Len(Q) >= k + n + FLUSH_LEN
        BY <3>2 DEF CutWaits
      <4>3. PICK n \in 1 .. Len(Message(r, sn)) :
              /\ Carries(Q, k, n, Message(r, sn)) /\ MadeUp(r, n)
              /\ Len(Q) >= k + n + FLUSH_LEN
        BY <2>1, <4>2
      <4>4. Len(h_out) <= FLUSH_LEN /\ FLUSH_LEN \in Nat
        <5>1. h_state \in {"flush", "drain"}
          BY <2>1 DEF Opening
        <5>2. h_state = "drain" => Len(h_out) = 0
          BY <1>1, EmptySeq DEF HostInv
        <5>3. h_state = "flush" => Len(h_out) <= FLUSH_LEN
          BY <1>1 DEF HostInv
        <5> QED
          BY <5>1, <5>2, <5>3, HostAssumption
      <4>5. ASSUME NEW l \in 1 .. n, k + l <= Len(Q'), l = n \/ k + l = Len(Q')
            PROVE  MadeUp(r, l)
        <5>1. l = n
          <6>1. n \in Nat /\ l \in Nat /\ k \in Nat
            <7>1. Len(Message(r, sn)) \in Nat
              <8>1. Message(r, sn) \in Seq(Nat)
                BY MessageFacts
              <8> QED
                BY <8>1
            <7>2. n \in Nat
              BY <7>1
            <7> QED
              BY <7>2
          <6>2. k + n <= Len(Q')
            BY <1>4, <4>3, <4>4, <6>1
          <6> DEFINE a == Len(Q')
          <6>3. a \in Nat /\ l <= n /\ k + n <= a /\ (l = n \/ k + l = a)
            BY <1>4, <4>5, <6>1, <6>2
          <6> HIDE DEF a
          <6> QED
            BY <6>1, <6>3, WholeOrEnd
        <5> QED
          BY <4>3, <5>1
      <4> QED
        BY <1>7, <4>1, <4>3, <4>5
    <3>3. CASE CutTaken
      BY <1>8, <3>3 DEF CutTaken
    <3>4. CASE CutAnswered
      <4>1. Left \in Nat /\ Len(R) + Left < QUEUE_SIZE
        BY <1>1, <3>4, LeftAndNeed DEF CutAnswered
      <4>2. Len(R') + Left < QUEUE_SIZE
        BY <1>3, <4>1, HostAssumption
      <4> QED
        BY <1>6, <3>4, <4>2 DEF CutAnswered
    <3> QED
      BY <3>1, <3>2, <3>3, <3>4 DEF Cut
  <2>2. CASE h_state \in {"flushed", "ready"}
    <3>1. Aligned /\ OnlyFlush(Q)
      BY <1>1, <2>2 DEF HostInv
    <3>2. state = "idle" /\ Left = 0
      BY <3>1 DEF Aligned, Left
    <3>3. Len(R') = 0
      <4>1. R' = << >> \o << >>
        BY <1>3, <3>1 DEF Aligned
      <4> QED
        BY <4>1, ConcatEmptySeq
    <3> QED
      BY <1>6, <3>1, <3>2, <3>3, HostAssumption DEF HDR
  <2>3. CASE h_state \in Asking
    <3>1. Asks
      BY <1>1, <2>3 DEF HostInv
    <3>2. CASE AskWaits
      <4> DEFINE m == Message(h_req, last_sn)
      <4>1. PICK k \in Nat : Carries(Q, k, Len(m), m) /\ Len(Q) = k + Len(m)
        BY <3>2 DEF AskWaits
      <4>2. Len(m) \in 1 .. Len(m)
        <5>1. Len(m) = HDR + Len(h_req.data) /\ Len(h_req.data) \in Nat
          BY <1>1, MessageFacts, RequestFacts
        <5> HIDE DEF m
        <5> QED
          BY <5>1 DEF HDR
      <4>3. state = "idle" /\ Len(R) = 0
        BY <3>2 DEF AskWaits
      <4>4. Len(m) = HDR + Len(h_req.data) /\ Len(h_req.data) \in Nat
        BY <1>1, MessageFacts, RequestFacts
      <4> HIDE DEF m
      <4>5. ASSUME NEW l \in 1 .. Len(m), k + l <= Len(Q'), l = Len(m) \/ k + l = Len(Q')
            PROVE  MadeUp(h_req, l)
        <5>1. CASE h_out = << >>
          <6>1. Len(h_out) = 0
            BY <5>1
          <6>2. l = Len(m)
            BY <1>4, <4>1, <4>4, <4>5, <6>1 DEF HDR
          <6>3. l >= HDR
            BY <4>4, <6>2 DEF HDR
          <6> QED
            BY <6>3 DEF MadeUp
        <5>2. CASE h_out # << >>
          <6>1. h_state = "write" /\ Len(h_out) > 0
            BY <1>1, <1>4, <2>3, <5>2, EmptySeq DEF HostInv, Asking, HostType
          <6>2. TornBy(h_out) = {}
            BY DEF Exit
          <6>3. "torn header" \notin TornBy(h_out)
            BY <6>2
          <6>4. ~(/\ is_data_write_op(h_req.op)
                  /\ Len(h_out) - Len(h_req.data) \in 1 .. HDR - 2
                  /\ FLUSH_LEN < (Len(h_out) - Len(h_req.data)) + api_op_resp)
            BY <6>1, <6>3 DEF TornBy
          <6>5. l = HDR - (Len(h_out) - Len(h_req.data))
            BY <1>4, <4>1, <4>4, <4>5, <6>1 DEF HDR
          <6> DEFINE x == Len(h_out) - Len(h_req.data)
          <6>6. l \in Nat /\ l >= 1 /\ FLUSH_LEN \in Nat /\ x \in Int /\ l = HDR - x
            BY <1>4, <4>4, <4>5, <6>5, HostAssumption DEF HDR
          <6>7. ~(is_data_write_op(h_req.op) /\ x \in 1 .. HDR - 2 /\ FLUSH_LEN < x + api_op_resp)
            BY <6>4
          <6> HIDE DEF x
          <6>8. CASE ~(FLUSH_LEN < x + api_op_resp)
            BY <6>6, <6>8 DEF MadeUp, HDR, api_op_resp
          <6>9. CASE ~(x \in 1 .. HDR - 2)
            <7>1. l < 2 \/ l >= HDR
              BY <6>6, <6>9 DEF HDR
            <7> QED
              BY <7>1 DEF MadeUp
          <6>10. CASE ~is_data_write_op(h_req.op)
            BY <6>10 DEF MadeUp
          <6> QED
            BY <6>7, <6>8, <6>9, <6>10
        <5> QED
          BY <5>1, <5>2
      <4>6. Carries(Q, k, Len(m), Message(h_req, last_sn))
        BY <4>1 DEF m
      <4>7. Len(m) \in 1 .. Len(Message(h_req, last_sn))
        BY <4>2 DEF m
      <4> QED
        BY <1>1, <1>7, <4>3, <4>5, <4>6, <4>7
    <3>3. CASE AskTaken
      <4>1. \A i \in 1 .. Len(Q) : ~(i > Need)
        BY <1>4, <3>3 DEF AskTaken
      <4> QED
        BY <1>8, <3>3, <4>1 DEF AskTaken
    <3>4. CASE AskAnswered
      <4>1. OnlyFlush(Q) /\ state # "processing"
        BY <3>4 DEF AskAnswered, OnlyFlush
      <4>2. Left \in Nat /\ Len(R) + Left < QUEUE_SIZE
        BY <1>1, <3>4, LeftAndNeed DEF AskAnswered, Answer
      <4>3. Len(R') + Left < QUEUE_SIZE
        BY <1>3, <4>2, HostAssumption
      <4> QED
        BY <1>6, <4>1, <4>3
    <3> QED
      BY <3>1, <3>2, <3>3, <3>4 DEF Asks
  <2>4. CASE h_state = "answered"
    <3>1. state = "idle" /\ Len(Q) = 0 /\ h_queue = << >> /\ down = << >>
      BY <1>1, <2>4 DEF HostInv
    <3>2. OnlyFlush(Q) /\ Left = 0
      BY <3>1 DEF OnlyFlush, Left
    <3>3. Len(R') = 0
      <4>1. R' = << >> \o << >>
        BY <1>3, <3>1
      <4> QED
        BY <4>1, ConcatEmptySeq
    <3> QED
      BY <1>6, <3>1, <3>2, <3>3, HostAssumption DEF HDR
  <2> QED
    BY <1>1, <2>1, <2>2, <2>3, <2>4 DEF HostType
<1>10. HostType'
  BY <1>1 DEF HostType, Over
<1>11. HostInv'
  BY <1>1, <1>9, <1>10 DEF HostInv, Asking
<1> QED
  BY <1>2, <1>11 DEF ApiInv

(* The next program begins with more flush bytes than anything left takes. *)
LEMMA OpenInvariant ==
  ASSUME ApiInv, Open
  PROVE  ApiInv'
<1> DEFINE f == [i \in 1 .. FLUSH_LEN |-> api_op_resp]
<1>1. /\ DevInv /\ DevType /\ HostType /\ HostInv
      /\ h_state \in Over /\ h_state' = "flush" /\ h_in' = << >> /\ h_out' = f
      /\ h_queue' = << >> /\ h_req' = Verify /\ last_sn' = 0
      /\ UNCHANGED devVars
  BY DEF ApiInv, HostInv, DevInv, Open
<1>2. f \in Seq(Nat) /\ Len(f) = FLUSH_LEN /\ FLUSH_LEN \in Nat \ {0}
      /\ \A i \in 1 .. FLUSH_LEN : f[i] = api_op_resp
  BY HostAssumption DEF api_op_resp, HDR
<1> HIDE DEF f
<1>3. Cut /\ h_out = << >> /\ h_queue \in Seq(Nat) /\ down \in Seq(Nat)
  BY <1>1 DEF HostInv, HostType, DevType, Over
<1>4. DevInv' /\ Left' = Left /\ Need' = Need /\ pkt' = pkt /\ state' = state
  BY <1>1, DeviceUntouched
<1>5. Len(R') <= Len(R) /\ Len(R) \in Nat /\ Len(R') \in Nat
  <2>1. R' = << >> \o (<< >> \o down)
    BY <1>1 DEF R, Got, devVars
  <2>2. R' = down
    BY <1>3, <2>1, ConcatEmptySeq
  <2>3. Len(R) = Len(Got) + Len(h_queue) + Len(down) /\ Got \in Seq(Nat) /\ R \in Seq(Nat)
    BY <1>1, QType
  <2>4. Len(Got) \in Nat /\ Len(h_queue) \in Nat /\ Len(down) \in Nat
    BY <1>3, <2>3
  <2> QED
    BY <2>2, <2>3, <2>4
<1>6. Q' = Q \o f /\ Q \in Seq(Nat)
  <2> DEFINE a == IF state = "idle" THEN pkt_buf ELSE << >>
  <2>1. a \in Seq(Nat) /\ up \in Seq(Nat) /\ f \in Seq(Nat)
    BY <1>1, <1>2 DEF DevType
  <2>2. Q = a \o (up \o << >>) /\ Q' = a \o (up \o f)
    BY <1>1, <1>3 DEF Q, devVars, apiVars
  <2> HIDE DEF a
  <2>3. Q = a \o up
    BY <2>1, <2>2, ConcatEmptySeq
  <2>4. (a \o up) \o f = a \o (up \o f)
    BY <2>1, Concat3
  <2>5. a \o up \in Seq(Nat)
    BY <2>1, ConcatFacts
  <2> QED
    BY <2>2, <2>3, <2>4, <2>5
<1>7. /\ Len(Q') = Len(Q) + FLUSH_LEN /\ Len(Q) \in Nat
      /\ \A i \in 1 .. Len(Q) + FLUSH_LEN :
           Q'[i] = IF i <= Len(Q) THEN Q[i] ELSE api_op_resp
  <2>1. /\ Len(Q') = Len(Q) + Len(f)
        /\ \A i \in 1 .. Len(Q) + Len(f) :
             Q'[i] = IF i <= Len(Q) THEN Q[i] ELSE f[i - Len(Q)]
    BY <1>2, <1>6, ConcatFacts
  <2>2. Len(Q) \in Nat
    BY <1>6
  <2>3. ASSUME NEW i \in 1 .. Len(Q) + FLUSH_LEN, ~(i <= Len(Q))
        PROVE  f[i - Len(Q)] = api_op_resp
    <3>1. i - Len(Q) \in 1 .. FLUSH_LEN
      BY <1>2, <2>2, <2>3
    <3> QED
      BY <1>2, <3>1
  <2> QED
    BY <1>2, <2>1, <2>2, <2>3
<1>8. ASSUME CutWaits
      PROVE  Cut'
  <2>1. PICK k \in Nat, r \in PlainRequests, sn \in Nat :
          \E n \in 1 .. Len(Message(r, sn)) :
             Carries(Q, k, n, Message(r, sn)) /\ MadeUp(r, n)
    BY <1>8 DEF CutWaits
  <2> DEFINE m == Message(r, sn)
  <2>2. PICK n \in 1 .. Len(m) : Carries(Q, k, n, m) /\ MadeUp(r, n)
    BY <2>1
  <2> HIDE DEF m
  <2>3. n \in Nat /\ k + n <= Len(Q)
    BY <2>2 DEF Carries
  <2>4. ASSUME NEW i \in 1 .. Len(Q')
        PROVE  Q'[i] = IF i \in k + 1 .. k + n THEN m[i - k] ELSE api_op_resp
    <3>1. i \in 1 .. Len(Q) + FLUSH_LEN
      BY <1>7
    <3>2. CASE i <= Len(Q)
      <4>1. i \in 1 .. Len(Q)
        BY <1>7, <3>2
      <4>2. Q[i] = IF i \in k + 1 .. k + n THEN m[i - k] ELSE api_op_resp
        BY <2>2, <4>1 DEF Carries
      <4> QED
        BY <1>7, <3>1, <3>2, <4>2
    <3>3. CASE ~(i <= Len(Q))
      <4>1. ~(i \in k + 1 .. k + n)
        BY <1>7, <2>3, <3>3
      <4> QED
        BY <1>7, <3>1, <3>3, <4>1
    <3> QED
      BY <3>2, <3>3
  <2>5. k + n <= Len(Q') /\ Len(Q') >= k + n + FLUSH_LEN
    BY <1>2, <1>7, <2>3
  <2>6. Carries(Q', k, n, m)
    BY <2>4, <2>5 DEF Carries
  <2>7. Len(R') = 0 /\ state' = "idle"
    BY <1>4, <1>5, <1>8 DEF CutWaits
  <2>8. CutWaits'
    BY <2>2, <2>5, <2>6, <2>7 DEF CutWaits, Carries, MadeUp, m
  <2> QED
    BY <2>8 DEF Cut
<1>9. ASSUME CutTaken
      PROVE  Cut'
  <2>1. Need \in Nat /\ Need <= FLUSH_LEN
    BY <1>1, <1>9, LeftAndNeed DEF CutTaken
  <2>2. ASSUME NEW i \in 1 .. Len(Q'), i > Need
        PROVE  Q'[i] = api_op_resp
    <3>1. i \in 1 .. Len(Q) + FLUSH_LEN /\ (i <= Len(Q) => i \in 1 .. Len(Q))
      BY <1>7
    <3> QED
      BY <1>7, <1>9, <2>2, <3>1 DEF CutTaken
  <2>3. Len(Q') >= Need
    BY <1>2, <1>7, <2>1
  <2>4. Len(R') = 0 /\ state' = "processing"
    BY <1>4, <1>5, <1>9 DEF CutTaken
  <2>5. CutTaken'
    BY <1>4, <2>1, <2>2, <2>3, <2>4 DEF CutTaken
  <2> QED
    BY <2>5 DEF Cut
<1>10. ASSUME CutAnswered
      PROVE  Cut'
  <2>1. OnlyFlush(Q')
    <3>1. ASSUME NEW i \in 1 .. Len(Q')
          PROVE  Q'[i] = api_op_resp
      <4>1. i \in 1 .. Len(Q) + FLUSH_LEN /\ (i <= Len(Q) => i \in 1 .. Len(Q))
        BY <1>7
      <4> QED
        BY <1>7, <1>10, <4>1 DEF CutAnswered, OnlyFlush
    <3> QED
      BY <3>1 DEF OnlyFlush
  <2>2. Len(R') + Left' < QUEUE_SIZE
    <3>1. Left \in Nat /\ Len(R) + Left < QUEUE_SIZE
      BY <1>1, <1>10, LeftAndNeed DEF CutAnswered
    <3> QED
      BY <1>4, <1>5, <3>1, HostAssumption
  <2>3. CutAnswered'
    BY <1>4, <1>10, <2>1, <2>2 DEF CutAnswered, OnlyFlush
  <2> QED
    BY <2>3 DEF Cut
<1>11. Cut'
  BY <1>3, <1>8, <1>9, <1>10 DEF Cut
<1>12. HostType'
  BY <1>1, <1>2, VerifyPlain DEF HostType, Opening
<1>13. HostInv'
  <2>1. h_out' # << >> /\ Len(h_out') <= FLUSH_LEN
    BY <1>1, <1>2
  <2> QED
    BY <1>1, <1>11, <1>12, <2>1 DEF HostInv, Asking
<1> QED
  BY <1>4, <1>13 DEF ApiInv

-----------------------------------------------------------------------------
(* The invariant, and what it says                                         *)

LEMMA InitApiInv ==
  ASSUME Init
  PROVE  ApiInv
<1>1. << >> \in Seq(Nat) /\ Len(<< >>) = 0
  OBVIOUS
<1>2. DevInv
  <2>1. APP_SZ \in Nat /\ ECHO_BUF_SZ \in Nat /\ DOWN_SIZE \in Nat
    BY DeviceAssumption
  <2>2. DevType
    BY DEF Init, DeviceInit, DevType
  <2>3. EchoFits /\ IdleOK /\ Len(down) <= DOWN_SIZE
    BY <2>1 DEF Init, DeviceInit, EchoFits, IdleOK, HDR
  <2> QED
    BY <2>2, <2>3 DEF DevInv, Init, DeviceInit
<1>3. HostType
  BY VerifyPlain DEF Init, HostType, Over
<1>4. Q = << >> /\ R = << >>
  <2>1. Q = << >> \o (<< >> \o << >>) /\ R = << >> \o (<< >> \o << >>)
    BY DEF Init, DeviceInit, Q, R, Got
  <2>2. << >> \o << >> = << >>
    BY <1>1, ConcatEmptySeq
  <2> QED
    BY <2>1, <2>2
<1>5. CutAnswered
  <2>1. state # "processing" /\ Left = 0
    BY DEF Init, DeviceInit, Left
  <2> QED
    BY <1>4, <2>1, HostAssumption DEF CutAnswered, OnlyFlush, HDR
<1>6. HostInv
  BY <1>3, <1>5 DEF Init, HostInv, Cut, Asking
<1> QED
  BY <1>2, <1>6 DEF ApiInv

(* Once astray, always astray. *)
LEMMA StaysAstray ==
  ASSUME [Next]_vars, astray' = {}
  PROVE  astray = {}
<1>1. CASE Ask
  <2>1. PICK r : wr_packet(r)
    BY <1>1 DEF Ask
  <2> QED
    BY <2>1 DEF wr_packet
<1>2. CASE Exit
  BY <1>2 DEF Exit
<1>3. CASE UNCHANGED vars \/ Device \/ Poll
  BY <1>3 DEF vars, hostVars, Device, Poll
<1>4. CASE Open \/ Write \/ Drain \/ DrainTimeout
  BY <1>4 DEF Open, Write, Drain, DrainTimeout
<1>5. CASE ReadHeader \/ ReadPayload \/ Use
  BY <1>5 DEF ReadHeader, ReadPayload, Use
<1> QED
  BY <1>1, <1>2, <1>3, <1>4, <1>5 DEF Next

LEMMA NextApiInv ==
  ASSUME ApiInv, [Next]_vars, astray' = {}
  PROVE  ApiInv'
<1>1. CASE UNCHANGED vars
  <2>1. UNCHANGED <<devVars, h_queue, hostVars>>
    BY <1>1 DEF vars
  <2>2. /\ DevInv /\ HostInv
        /\ h_queue' = h_queue /\ h_state' = h_state /\ h_out' = h_out /\ h_in' = h_in
        /\ h_req' = h_req /\ last_sn' = last_sn
    BY <2>1 DEF ApiInv, hostVars
  <2>3. DevInv' /\ Left' = Left /\ Need' = Need /\ pkt' = pkt /\ state' = state
    BY <2>1, <2>2, DeviceUntouched
  <2>4. Q' = Q /\ R' = R
    BY <2>1, <2>2 DEF Q, R, Got, devVars, apiVars
  <2>5. Cut => Cut'
    BY <2>2, <2>3, <2>4, CutKept
  <2>6. Asks => Asks'
    BY <2>2, <2>3, <2>4, AskKept
  <2>7. Aligned => Aligned'
    BY <2>1, <2>2 DEF Aligned, devVars, apiVars
  <2>8. Verdict(h_req)' = Verdict(h_req) /\ (Answer(h_in) => Answer(h_in)')
    BY <2>2 DEF Verdict, Answer, buf_sz
  <2>9. HostType' /\ (OnlyFlush(Q) => OnlyFlush(Q)')
    BY <2>2, <2>4 DEF HostInv, HostType, OnlyFlush
  <2>10. HostInv'
    <3>1. down' = down
      BY <2>1 DEF devVars
    <3> QED
      BY <2>2, <2>3, <2>4, <2>5, <2>6, <2>7, <2>8, <2>9, <3>1 DEF HostInv
  <2> QED
    BY <2>3, <2>10 DEF ApiInv
<1> QED
  BY <1>1, DeviceInvariant, PollInvariant, OpenInvariant, WriteInvariant, DrainInvariant,
     DrainTimeoutInvariant, AskInvariant, ReadHeaderInvariant, ReadPayloadInvariant,
     UseInvariant, ExitInvariant DEF Next

(* ApiInv holds in every reachable state until something leads astray. *)
THEOREM ApiInvariant ==
  Spec => [](astray = {} => ApiInv)
<1>1. Init => (astray = {} => ApiInv)
  BY InitApiInv
<1>2. (astray = {} => ApiInv) /\ [Next]_vars => (astray = {} => ApiInv)'
  BY NextApiInv, StaysAstray
<1> QED
  BY <1>1, <1>2, PTL DEF Spec

(* No assertion of api.c and its endpoints fires, no response overruns the *)
(* pipe and no request goes on without a whole header, wherever a program  *)
(* that was ended left its request and whatever its rest is taken for.     *)
THEOREM NoAssertionFires ==
  Spec => [](astray = {} => NoBug)
<1>1. ApiInv => NoBug
  BY DEF ApiInv, DevInv, DevType, RespondingOK, ProcessingOK, NoBug
<1> QED
  BY <1>1, ApiInvariant, PTL

(* Once a program has flushed the device the two are in step, and stay so  *)
(* between its requests, whatever the programs before it have left.        *)
THEOREM AlwaysInSync ==
  Spec => [](astray = {} => InSync)
<1>1. ApiInv => InSync
  BY DEF ApiInv, HostInv, InSync
<1> QED
  BY <1>1, ApiInvariant, PTL

(* Every response a program gets is the one to the request it has just     *)
(* sent, with its sequence number, and tells what is wrong with it.        *)
THEOREM AnswersMatch ==
  Spec => [](astray = {} => OwnAnswer)
<1>1. ApiInv => OwnAnswer
  <2> SUFFICES ASSUME ApiInv PROVE OwnAnswer
    OBVIOUS
  <2>1. HostInv
    BY DEF ApiInv
  <2>2. h_state # "mismatch"
    BY <2>1 DEF HostInv
  <2>3. ASSUME h_state \in {"answered", "refused"}
        PROVE  /\ answer.op = h_req.op + api_op_resp
               /\ answer.ep = h_req.ep
               /\ answer.flags = Verdict(h_req)
    <3>1. Answer(h_in)
      BY <2>1, <2>3 DEF HostInv
    <3> QED
      BY <3>1 DEF Answer, answer, Fields
  <2> QED
    BY <2>2, <2>3 DEF OwnAnswer
<1> QED
  BY <1>1, ApiInvariant, PTL

(* So it is only what astray records, in any program and for any constants, *)
(* that stops the device or puts it out of step with the host.             *)
THEOREM SafeOtherwise ==
  Spec => []SafeUnlessAstray
<1>1. (astray = {} => NoBug) /\ (astray = {} => InSync) /\ (astray = {} => OwnAnswer)
        => SafeUnlessAstray
  BY DEF SafeUnlessAstray
<1> QED
  BY <1>1, NoAssertionFires, AlwaysInSync, AnswersMatch, PTL

-----------------------------------------------------------------------------
(* The content of the answers                                              *)

(* A request has been begun and its answer not been used yet; the bytes of *)
(* payload there are of the answer, wherever they are.                     *)
Begun == h_state \in Asking \cup {"answered"}
Sent  == IF Begun /\ Len(R) > HDR THEN Len(R) - HDR ELSE 0

(* What the device answers is what has been asked, and what the program    *)
(* reads is all of it.                                                     *)
Follows ==
  /\ h_state \in Asking /\ state = "responding" =>
       current_op(pkt) = h_req.op /\ pkt.ep = h_req.ep
  /\ h_state \in {"payload", "answered"} => Verdict(h_req) = 0
  /\ h_state = "answered" => Len(h_in) = HDR + h_in[7]
  /\ known = [echo |-> known.echo, sure |-> known.sure,
              next |-> known.next, app |-> known.app]
  /\ h_state \in Opening => known = KnowsNothing

(* Steps of the host that only move bytes, ...                             *)
Quiet ==
  /\ UNCHANGED <<apiVars, epVars, known, h_req>>
  /\ h_state \notin Over /\ h_state' \notin Over
  /\ Begun' <=> Begun
  /\ Begun => Q' = Q /\ R' = R
  /\ h_state' \in Opening => h_state \in Opening
  /\ h_state' = "answered" =>
       \/ h_state = "answered" /\ h_in' = h_in
       \/ h_state = "payload" /\ Len(h_in') = HDR + h_in'[7]

(* ... and those that leave no program.                                    *)
Ends == h_state' \in Over /\ UNCHANGED <<epVars, known>>

LEMMA WriteQuiet ==
  ASSUME ApiInv, Write
  PROVE  Quiet
<1>1. /\ DevType /\ HostType /\ HostInv
      /\ up \in Seq(Nat) /\ h_out \in Seq(Nat) /\ h_out # << >>
      /\ down' = down /\ UNCHANGED <<apiVars, epVars, known, h_req>>
      /\ h_queue' = h_queue /\ h_in' = h_in
      /\ up' = Append(up, Head(h_out)) /\ h_out' = Tail(h_out)
      /\ h_state' = IF Len(h_out) > 1 THEN h_state
                    ELSE IF h_state = "flush" THEN "drain" ELSE "header"
  BY DEF ApiInv, HostInv, DevInv, DevType, HostType, Write
<1>2. up' \o h_out' = up \o h_out
  BY <1>1, ByteMoves
<1>3. h_state \in {"flush", "write"}
  BY <1>1 DEF HostInv
<1>4. \/ h_state = "flush" /\ h_state' \in {"flush", "drain"}
      \/ h_state = "write" /\ h_state' \in {"write", "header"}
  BY <1>1, <1>3
<1>5. Q' = Q
  BY <1>1, <1>2 DEF Q, apiVars
<1>6. R' = R
  <2>1. Got' = Got
    BY <1>1, <1>4 DEF Got, Over
  <2> QED
    BY <1>1, <2>1 DEF R
<1> QED
  BY <1>1, <1>4, <1>5, <1>6 DEF Quiet, Begun, Over, Opening, Asking

LEMMA PollQuiet ==
  ASSUME ApiInv, Poll
  PROVE  Quiet
<1> DEFINE n == MIN_(Len(down), QUEUE_SIZE - Len(h_queue))
<1>1. /\ DevType /\ HostType
      /\ down \in Seq(Nat) /\ h_queue \in Seq(Nat)
      /\ h_state \notin Over /\ n > 0
      /\ h_queue' = h_queue \o Take(down, n) /\ down' = Drop(down, n)
      /\ up' = up /\ UNCHANGED <<apiVars, epVars>> /\ UNCHANGED hostVars
  BY DEF ApiInv, HostInv, DevInv, DevType, HostType, Poll
<1>2. n \in Nat /\ n <= Len(down)
  <2>1. Len(down) \in Nat /\ QUEUE_SIZE - Len(h_queue) \in Int
    BY <1>1, HostAssumption
  <2> QED
    BY <1>1, <2>1 DEF MIN_
<1> HIDE DEF n
<1>3. h_queue' \o down' = h_queue \o down
  BY <1>1, <1>2, MovesOn
<1>4. Q' = Q
  BY <1>1 DEF Q, apiVars, hostVars
<1>5. R' = R
  <2>1. Got' = Got
    BY <1>1 DEF Got, hostVars
  <2> QED
    BY <1>3, <2>1 DEF R
<1> QED
  BY <1>1, <1>4, <1>5 DEF Quiet, Begun, hostVars

LEMMA DrainQuiet ==
  ASSUME ApiInv, Drain \/ DrainTimeout
  PROVE  Quiet
<1>1. /\ h_state = "drain" /\ h_state' \in {"drain", "flushed"}
      /\ UNCHANGED <<apiVars, epVars, known, h_req>>
  BY DEF Drain, DrainTimeout, devVars
<1> QED
  BY <1>1 DEF Quiet, Begun, Over, Opening, Asking

LEMMA ReadHeaderQuiet ==
  ASSUME ApiInv, ReadHeader
  PROVE  Quiet \/ Ends
<1> DEFINE n == MIN_(Len(h_queue), HDR - Len(h_in))
<1>1. /\ h_state = "header" /\ h_queue # << >> /\ Len(h_in) < HDR
      /\ h_queue' = Drop(h_queue, n)
      /\ h_in' = h_in \o Take(h_queue, n)
      /\ h_state' = IF Len(h_in') < HDR THEN "header" ELSE HeaderVerdict(Fields(h_in'))
      /\ UNCHANGED devVars
      /\ h_out' = h_out /\ h_req' = h_req /\ last_sn' = last_sn /\ known' = known
      /\ h_queue \in Seq(Nat) /\ h_in \in Seq(Nat)
  BY DEF ApiInv, HostInv, HostType, ReadHeader
<1>2. n \in Nat /\ n <= Len(h_queue)
  <2>1. Len(h_queue) \in Nat /\ Len(h_in) \in Nat
    BY <1>1
  <2> QED
    BY <1>1, <2>1 DEF MIN_, HDR
<1> HIDE DEF n
<1>3. R = h_in' \o (h_queue' \o down) /\ Q' = Q /\ down' = down
  BY <1>1, <1>2, ReadFacts
<1>4. h_state' \in {"header", "payload", "refused", "mismatch"}
  BY <1>1 DEF HeaderVerdict
<1>5. CASE h_state' \in Over
  BY <1>1, <1>5 DEF Ends, devVars
<1>6. CASE h_state' \notin Over
  <2>1. R' = R
    BY <1>3, <1>6 DEF R, Got
  <2> QED
    BY <1>1, <1>3, <1>4, <1>6, <2>1 DEF Quiet, Begun, Over, Opening, Asking, devVars
<1> QED
  BY <1>5, <1>6

(* The payload has been read when all that was announced is there.         *)
LEMMA ReadPayloadQuiet ==
  ASSUME ApiInv, ApiInv', ReadPayload
  PROVE  Quiet
<1> DEFINE len == Fields(h_in).data_len
           n == MIN_(Len(h_queue), HDR + len - Len(h_in))
<1>1. /\ DevType /\ HostType /\ HostInv
      /\ h_state = "payload" /\ Answer(h_in)
      /\ n > 0 \/ len = 0
      /\ h_queue' = Drop(h_queue, n)
      /\ h_in' = h_in \o Take(h_queue, n)
      /\ h_state' = IF Len(h_in') < HDR + len THEN "payload"
                    ELSE IF h_req.op = api_op_buf_rd /\ len # h_req.p2 THEN "mismatch"
                    ELSE "answered"
      /\ UNCHANGED devVars
      /\ h_out' = h_out /\ h_req' = h_req /\ last_sn' = last_sn /\ known' = known
      /\ h_queue \in Seq(Nat) /\ h_in \in Seq(Nat)
  BY DEF ApiInv, HostInv, DevInv, DevType, HostType, ReadPayload
<1>2. len = h_in[7] /\ len \in Nat /\ Len(h_in) >= HDR /\ Len(h_in) \in Nat
  <2>1. Len(h_in) >= HDR
    BY <1>1 DEF Answer
  <2>2. Fields(h_in).data_len = h_in[7] /\ Fields(h_in) \in Header
    BY <1>1, <2>1, FieldsFacts
  <2> QED
    BY <1>1, <2>1, <2>2 DEF Header
<1> HIDE DEF len
<1>3. Len(h_queue) \in Nat
  BY <1>1
<1>4. h_state' \in {"payload", "answered"}
  BY <1>1 DEF ApiInv, HostInv
<1>5. Asks /\ Got = h_in
  BY <1>1 DEF HostInv, Asking, Got, Over
<1>6. /\ Len(R) = Len(h_in) + Len(h_queue) + Len(down) /\ Len(down) \in Nat
      /\ R = h_in \o (h_queue \o down) /\ h_queue \o down \in Seq(Nat)
  BY <1>1, <1>5, QType DEF R, DevType
<1>7. AskAnswered
  <2>1. Len(R) # 0
    BY <1>2, <1>3, <1>6 DEF HDR
  <2> QED
    BY <1>5, <2>1 DEF Asks, AskWaits, AskTaken
<1>8. R[7] = len /\ Len(R) <= HDR + len
  <2>1. R[7] = h_in[7]
    BY <1>1, <1>2, <1>6, <1>7, AnswerBegins DEF AskAnswered
  <2>2. Left \in Nat /\ Len(R) + Left = HDR + R[7]
    BY <1>7, LeftAndNeed DEF AskAnswered, ApiInv
  <2> QED
    BY <1>2, <1>3, <1>6, <2>1, <2>2 DEF HDR
<1>9. n \in Nat /\ n <= Len(h_queue) /\ n <= HDR + len - Len(h_in)
  <2>1. HDR + len - Len(h_in) \in Nat
    BY <1>2, <1>3, <1>6, <1>8 DEF HDR
  <2> QED
    BY <1>2, <1>3, <2>1 DEF MIN_
<1> HIDE DEF n
<1>10. /\ R = h_in' \o (h_queue' \o down) /\ Q' = Q /\ down' = down
       /\ h_in' \in Seq(Nat) /\ h_queue' \o down \in Seq(Nat)
       /\ Len(h_in') = Len(h_in) + n
  BY <1>1, <1>9, ReadFacts
<1>11. R' = R
  BY <1>4, <1>10 DEF R, Got, Over
<1>12. h_in'[7] = len
  <2>1. Len(h_in') >= HDR
    BY <1>2, <1>9, <1>10 DEF HDR
  <2>2. R[7] = h_in'[7]
    BY <1>7, <1>10, <2>1, AnswerBegins DEF AskAnswered
  <2> QED
    BY <1>8, <2>2
<1>13. h_state' = "answered" => Len(h_in') = HDR + h_in'[7]
  <2>1. h_state' = "answered" => ~(Len(h_in') < HDR + len)
    BY <1>1
  <2>2. Len(h_in') <= HDR + len /\ Len(h_in') \in Nat /\ HDR + len \in Nat
    <3>1. HDR + len \in Nat /\ HDR \in Nat /\ len \in Nat /\ Len(h_in) \in Nat /\ n \in Nat
      BY <1>2, <1>9 DEF HDR
    <3>2. Len(h_in) + n <= HDR + len
      BY <1>9, <3>1
    <3>3. Len(h_in') = Len(h_in) + n
      BY <1>10
    <3> QED
      BY <3>1, <3>2, <3>3
  <2>3. h_state' = "answered" => Len(h_in') = HDR + len
    BY <2>1, <2>2
  <2> QED
    BY <1>12, <2>3
<1> QED
  BY <1>1, <1>4, <1>10, <1>11, <1>13 DEF Quiet, Begun, Over, Opening, Asking, devVars

(* Every step of the host is one of these, or begins or ends a request.    *)
LEMMA HostSteps ==
  ASSUME ApiInv, ApiInv', [Next]_vars
  PROVE  Quiet \/ Ends \/ Device \/ Open \/ Ask \/ Use
<1>1. CASE UNCHANGED vars
  <2>1. /\ UNCHANGED <<apiVars, epVars, known, h_req>>
        /\ h_state' = h_state /\ h_in' = h_in /\ Q' = Q /\ R' = R
    BY <1>1 DEF vars, devVars, hostVars, apiVars, Q, R, Got
  <2> QED
    BY <2>1 DEF Quiet, Ends, Begun
<1>2. CASE Exit
  BY <1>2 DEF Exit, Ends, Over, devVars
<1> QED
  BY <1>1, <1>2, WriteQuiet, PollQuiet, DrainQuiet, ReadHeaderQuiet, ReadPayloadQuiet DEF Next

(* A header that asks what the program has asked.                          *)
AsksFor(p) ==
  /\ p \in Header /\ p.op < api_op_resp
  /\ p.op = h_req.op /\ p.ep = h_req.ep /\ p.flags = 0 /\ p.sn = last_sn
  /\ p.p1 = h_req.p1 /\ p.p2 = h_req.p2 /\ p.data_len = Len(h_req.data)

(* What a step of the device does while a program waits for its answer:    *)
(* it skips what the flush has left, ...                                   *)
AskSkips == state = "idle" /\ state' = "idle" /\ R' = R /\ Len(R) = 0 /\ UNCHANGED epVars

(* ... it takes the request, which in is the payload of, ...               *)
AskBegins(p, in) ==
  /\ state = "idle" /\ Len(R) = 0
  /\ AsksFor(p)
  /\ in \in Seq(Nat) /\ in \o h_out = h_req.data
  /\ api_start_ep_req(p, in)

(* ... or it goes on with it.                                              *)
AskGoesOn ==
  /\ state # "idle" /\ Verdict(h_req) = 0
  /\ pkt \in Header /\ current_op(pkt) = h_req.op /\ pkt.ep = h_req.ep
  /\ CallEp /\ Callback(pkt, up, FALSE)

LEMMA AskHeader ==
  ASSUME DevInv, HostType, HostInv, h_state \in Asking, GetHeader,
         UNCHANGED <<h_queue, hostVars>>
  PROVE  AskSkips \/ \E p, in : AskBegins(p, in)
<1> DEFINE n == HDR - Len(pkt_buf)
           buf == pkt_buf \o Take(up, n)
           in == Drop(up, n)
           left == api_skip_invalid_bytes(buf)
<1>1. DevType /\ state = "idle" /\ IdleOK /\ pkt_buf \in Seq(Nat) /\ up \in Seq(Nat)
  BY DEF DevInv, DevType, GetHeader
<1>2. n \in Nat /\ n <= Len(up) /\ Len(pkt_buf) + n = HDR
  <2>1. Len(pkt_buf) \in Nat /\ Len(up) \in Nat
    BY <1>1
  <2> QED
    BY <1>1, <2>1 DEF GetHeader, IdleOK, HDR
<1>3. \/ /\ left # buf
         /\ pkt_buf' = left
         /\ up' = in
         /\ UNCHANGED <<down, state, ctx, halted, epVars>>
      \/ /\ left = buf
         /\ api_start_ep_req(Fields(buf), in)
  BY DEF GetHeader
<1>4. /\ buf \in Seq(Nat) /\ Len(buf) = Len(pkt_buf) + n /\ in \in Seq(Nat)
      /\ in \o h_out \in Seq(Nat)
      /\ Len(Q) = Len(buf) + Len(in \o h_out)
      /\ \A i \in 1 .. Len(buf) : Q[i] = buf[i]
      /\ \A i \in Nat : i <= Len(buf) => Drop(Q, i) = Drop(buf, i) \o (in \o h_out)
      /\ Drop(Q, Len(buf)) = in \o h_out
  <2> HIDE DEF n
  <2> QED
    BY <1>1, <1>2, Front
<1> HIDE DEF n, buf, in, left
<1>5. Len(buf) = HDR /\ HDR <= Len(Q) /\ HDR \in Nat
  <2>1. Len(in \o h_out) \in Nat
    BY <1>4
  <2>2. Len(buf) = HDR /\ HDR \in Nat
    BY <1>2, <1>4 DEF HDR
  <2> QED
    BY <1>4, <2>1, <2>2
<1>6. AskWaits
  <2>1. Asks
    BY DEF HostInv
  <2>2. Len(Q) # 0
    BY <1>4, <1>5 DEF HDR
  <2> QED
    BY <1>1, <2>1, <2>2 DEF Asks, AskTaken, AskAnswered
<1>7. CASE left # buf /\ UNCHANGED <<down, state, epVars>>
  <2>1. R' = R
    BY <1>7, AnswerStays
  <2> QED
    BY <1>1, <1>6, <1>7, <2>1 DEF AskSkips, AskWaits
<1>8. CASE left = buf /\ api_start_ep_req(Fields(buf), in)
  <2>1. ~IsResponse(buf[1]) /\ 1 \in 1 .. Len(buf)
    <3>1. Len(buf) <= HDR
      BY <1>5
    <3>2. PICK j \in 0 .. Len(buf) :
               /\ left = Drop(buf, j)
               /\ j < Len(buf) => ~IsResponse(buf[j + 1])
      BY <1>4, <3>1, SkipFacts DEF left
    <3>3. Len(Drop(buf, j)) = Len(buf) - j
      <4>1. j \in Nat /\ j <= Len(buf)
        BY <1>5
      <4> QED
        BY <1>4, <4>1, DropFacts
    <3>4. Len(buf) = Len(buf) - j
      BY <1>8, <3>2, <3>3
    <3>5. j = 0
      BY <1>5, <3>4
    <3> QED
      BY <1>5, <3>2, <3>5 DEF HDR
  <2>2. Fields(Q) = Fields(buf)
    <3>1. \A i \in 1 .. 7 : Q[i] = buf[i]
      BY <1>4, <1>5 DEF HDR
    <3> QED
      BY <3>1 DEF Fields
  <2>3. ~IsResponse(Q[1]) /\ Q \in Seq(Nat)
    BY <1>1, <1>4, <2>1, QType
  <2> DEFINE m == Message(h_req, last_sn)
             l == Len(m)
  <2>4. PICK k \in Nat : Carries(Q, k, l, m) /\ Len(Q) = k + l
    BY <1>6 DEF AskWaits
  <2>5. /\ h_req \in PlainRequests /\ last_sn \in Nat /\ h_req.data \in Seq(Nat)
        /\ m \in Seq(Nat) /\ l = HDR + Len(h_req.data) /\ Len(h_req.data) \in Nat
        /\ h_req.op < api_op_resp
    BY MessageFacts, RequestFacts, PlainFacts DEF HostType
  <2>6. l \in Nat /\ l >= HDR
    BY <2>5 DEF HDR
  <2>7. k = 0
    <3> HIDE DEF m, l
    <3> QED
      BY <1>5, <2>3, <2>4, <2>6, FrontOfMessage
  <2>8. AsksFor(Fields(Q))
    <3>1. Fields(Q) \in Header
      BY <1>5, <2>3, FieldsFacts
    <3>2. Carries(Q, k, l, Message(h_req, last_sn))
      BY <2>4
    <3> HIDE DEF m, l
    <3> DEFINE p == Fields(Q)
    <3>3. HDR <= Len(Q) /\ ~IsResponse(Q[1]) /\ Carries(Q, k, l, Message(h_req, last_sn))
          /\ Q \in Seq(Nat) /\ l \in Nat /\ l >= HDR /\ h_req \in PlainRequests /\ last_sn \in Nat
      BY <1>5, <2>3, <2>5, <2>6, <3>2
    <3>4. /\ p.op = h_req.op /\ p.ep = h_req.ep /\ p.flags = 0 /\ p.sn = last_sn
          /\ p.p1 = h_req.p1 /\ p.p2 = h_req.p2 /\ p.data_len = Len(h_req.data)
      BY <3>3, WholeHeader
    <3> QED
      BY <2>5, <3>1, <3>4 DEF AsksFor
  <2>9. in \o h_out = h_req.data
    <3> DEFINE d == Drop(Q, HDR)
    <3>1. Q = m
      <4>1. \A i \in 1 .. Len(Q) : Q[i] = m[i]
        <5>1. \A i \in 1 .. Len(Q) :
                 Q[i] = IF i \in k + 1 .. k + l THEN m[i - k] ELSE api_op_resp
          BY <2>4 DEF Carries
        <5> HIDE DEF m, l
        <5>2. ASSUME NEW i \in 1 .. Len(Q)
              PROVE  i \in k + 1 .. k + l /\ i - k = i
          BY <2>4, <2>6, <2>7
        <5> QED
          BY <5>1, <5>2
      <4>2. Len(Q) = Len(m)
        <5> HIDE DEF m
        <5> QED
          BY <2>4, <2>6, <2>7
      <4> HIDE DEF m
      <4> QED
        BY <2>3, <2>5, <4>1, <4>2, SameSeq
    <3>2. Drop(m, HDR) = h_req.data
      <4> DEFINE p == [op |-> h_req.op, ep |-> h_req.ep, flags |-> 0, sn |-> last_sn,
                       p1 |-> h_req.p1, p2 |-> h_req.p2, data_len |-> Len(h_req.data)]
      <4>1. p \in Header
        BY <2>5, RequestFacts DEF Header
      <4>2. m = Bytes(p) \o h_req.data
        BY DEF Message
      <4> HIDE DEF p
      <4>3. Bytes(p) \in Seq(Nat) /\ Len(Bytes(p)) = HDR
        BY <4>1, BytesFacts
      <4> DEFINE b == Bytes(p)
      <4>4. b \in Seq(Nat) /\ Len(b) = HDR /\ HDR \in Nat /\ HDR <= Len(b)
        BY <1>5, <4>3
      <4> HIDE DEF b
      <4>5. Drop(b \o h_req.data, HDR) = Drop(b, HDR) \o h_req.data
        BY <2>5, <4>4, DropConcat
      <4>6. Drop(b, HDR) = << >>
        BY <4>4, DropNone
      <4>7. << >> \o h_req.data = h_req.data
        BY <2>5, ConcatEmptySeq
      <4> QED
        BY <4>2, <4>5, <4>6, <4>7 DEF b
    <3> HIDE DEF m
    <3> QED
      BY <1>4, <1>5, <3>1, <3>2
  <2> QED
    BY <1>1, <1>4, <1>6, <1>8, <2>2, <2>8, <2>9 DEF AskBegins, AskWaits
<1> QED
  BY <1>3, <1>7, <1>8

LEMMA AskStep ==
  ASSUME ApiInv, Follows, h_state \in Asking, Device
  PROVE  AskSkips \/ AskGoesOn \/ \E p, in : AskBegins(p, in)
<1>1. /\ DevInv /\ DevType /\ HostInv /\ HostType /\ Asks
      /\ HasRoom /\ (GetHeader \/ CallEp)
      /\ UNCHANGED <<h_queue, hostVars>>
  BY DEF ApiInv, HostInv, DevInv, Device, api_process
<1>2. CASE GetHeader
  BY <1>1, <1>2, AskHeader
<1>3. CASE CallEp
  <2>1. state # "idle" /\ Callback(Fields(pkt_buf), up, FALSE)
    BY <1>3 DEF CallEp
  <2>2. Len(pkt_buf) = HDR /\ (state = "processing" => ProcessingOK)
    BY <1>1, <2>1 DEF DevInv, DevType, RespondingOK, ProcessingOK
  <2>3. pkt \in Header /\ Fields(pkt_buf) = pkt
    BY <1>1, <2>2, PktFacts
  <2>4. CASE state = "responding"
    <3>1. AskAnswered
      BY <1>1, <2>4 DEF Asks, AskWaits, AskTaken
    <3>2. Verdict(h_req) = 0
      <4>1. Answer(R) /\ Len(R) + Left = HDR + R[7] /\ Left \in Nat /\ Left > 0
        BY <1>1, <2>4, <3>1, LeftAndNeed DEF AskAnswered
      <4>2. Len(R) >= HDR /\ (Verdict(h_req) # 0 => R[7] = 0) /\ Len(R) \in Nat
        BY <1>1, <4>1, QType DEF Answer
      <4> QED
        BY <4>1, <4>2 DEF HDR
    <3> QED
      BY <1>3, <2>1, <2>3, <2>4, <3>2 DEF AskGoesOn, Follows
  <2>5. CASE state = "processing"
    <3>1. AskTaken
      BY <1>1, <2>5 DEF Asks, AskWaits, AskAnswered
    <3>2. current_op(pkt) = pkt.op
      BY <2>2, <2>3, <2>5, OpCases DEF ProcessingOK
    <3> QED
      BY <1>3, <2>1, <2>3, <3>1, <3>2 DEF AskGoesOn, AskTaken
  <2> QED
    BY <1>1, <2>1, <2>4, <2>5 DEF DevType
<1> QED
  BY <1>1, <1>2, <1>3

(* The callback of an operation.                                           *)
LEMMA InfoCalled ==
  ASSUME NEW p, NEW in, NEW new, current_op(p) = api_op_info, Callback(p, in, new)
  PROVE  api_ep_info_cb(p, new) /\ up' = in
BY DEF Callback, api_op_info, api_op_buf_rd, api_op_buf_wr, api_op_str_rd, api_op_str_wr

LEMMA BufReadCalled ==
  ASSUME NEW p, NEW in, NEW new, current_op(p) = api_op_buf_rd, Callback(p, in, new)
  PROVE  api_buf_rd(p, new) /\ up' = in
BY DEF Callback, api_op_info, api_op_buf_rd, api_op_buf_wr, api_op_str_rd, api_op_str_wr

LEMMA BufWriteCalled ==
  ASSUME NEW p, NEW in, NEW new, current_op(p) = api_op_buf_wr, Callback(p, in, new)
  PROVE  api_buf_wr(p, in, new)
BY DEF Callback, api_op_info, api_op_buf_rd, api_op_buf_wr, api_op_str_rd, api_op_str_wr

LEMMA StreamReadCalled ==
  ASSUME NEW p, NEW in, NEW new, current_op(p) = api_op_str_rd, Callback(p, in, new)
  PROVE  /\ \/ p.ep = API_EP_ECHO /\ api_str_buf_rd(p, new)
            \/ p.ep = API_EP_SEQ /\ api_str_seq_rd(p, new)
         /\ up' = in
BY DEF Callback, api_op_info, api_op_buf_rd, api_op_buf_wr, api_op_str_rd, api_op_str_wr

LEMMA StreamWriteCalled ==
  ASSUME NEW p, NEW in, NEW new, current_op(p) = api_op_str_wr, Callback(p, in, new)
  PROVE  api_str_buf_wr(p, in, new)
BY DEF Callback, api_op_info, api_op_buf_rd, api_op_buf_wr, api_op_str_rd, api_op_str_wr

(* A request that is taken is refused, or its callback called.             *)
LEMMA AskTakes ==
  ASSUME HostType, DevInv, NEW p, NEW in, AskBegins(p, in)
  PROVE  \/ Verdict(h_req) # 0 /\ UNCHANGED epVars /\ state' = "idle"
         \/ Verdict(h_req) = 0 /\ InOrder(p) /\ Callback(p, in, TRUE)
<1>1. /\ AsksFor(p) /\ p \in Header /\ p.op < api_op_resp /\ api_start_ep_req(p, in)
      /\ h_req \in PlainRequests
  BY DEF AskBegins, AsksFor, HostType
<1>2. PacketVerdict(p) = Verdict(h_req)
  BY <1>1, SameVerdict DEF AsksFor
<1>3. current_op(p) = p.op
  BY <1>1, OpCases
<1>4. CASE \E err : api_op_complete_err(p, err)
           /\ (WrongSize(p) \/ p.ep \notin DOMAIN EpOps \/ current_op(p) \notin EpOps[p.ep])
  <2>1. PacketVerdict(p) # 0
    BY <1>3, <1>4 DEF PacketVerdict, WrongSize, api_fl_err_sz, api_fl_err_ep, api_fl_err_op
  <2> QED
    BY <1>2, <1>4, <2>1 DEF api_op_complete_err, api_op_complete
<1>5. CASE InOrder(p) /\ Callback(p, in, TRUE)
  <2>1. CASE Verdict(h_req) = 0
    BY <1>5, <2>1
  <2>2. CASE Verdict(h_req) # 0
    <3>1. p.op \in {api_op_buf_rd, api_op_buf_wr}
          /\ (OutOfBuffer(p) \/ (p.op = api_op_buf_wr /\ p.p2 # p.data_len))
      <4>1. PacketVerdict(p) =
               IF p.op \in {api_op_buf_rd, api_op_buf_wr} /\ p.p1 + p.p2 > buf_sz(p.ep)
               THEN api_fl_err_sz
               ELSE IF p.op = api_op_buf_wr /\ p.p2 # p.data_len THEN api_fl_err_sz
               ELSE 0
        BY <1>5, InOrderFacts
      <4>2. PacketVerdict(p) # 0
        BY <1>2, <2>2
      <4>3. CASE p.op \in {api_op_buf_rd, api_op_buf_wr} /\ p.p1 + p.p2 > buf_sz(p.ep)
        <5>1. p.p1 \in Nat /\ p.p2 \in Nat
          BY <1>1 DEF Header
        <5>2. p.op = h_req.op /\ p.p1 = h_req.p1 /\ p.p2 = h_req.p2
          BY <1>1 DEF AsksFor
        <5>3. h_req.p1 + h_req.p2 < WORD
          BY <1>1, <4>3, <5>2, PlainFacts
        <5>4. OutOfBuffer(p)
          BY <4>3, <5>1, <5>2, <5>3, RegionJudged
        <5> QED
          BY <4>3, <5>4
      <4>4. CASE ~(p.op \in {api_op_buf_rd, api_op_buf_wr} /\ p.p1 + p.p2 > buf_sz(p.ep))
        BY <4>1, <4>2, <4>4
      <4> QED
        BY <4>3, <4>4
    <3>2. CASE p.op = api_op_buf_rd
      <4>1. OutOfBuffer(p)
        BY <3>1, <3>2 DEF api_op_buf_rd, api_op_buf_wr
      <4>2. api_buf_rd(p, TRUE)
        BY <1>3, <1>5, <3>2, BufReadCalled
      <4> QED
        BY <2>2, <4>1, <4>2 DEF api_buf_rd, api_op_complete_err, api_op_complete
    <3>3. CASE p.op = api_op_buf_wr
      <4>1. BadWrite(p)
        BY <3>1 DEF BadWrite
      <4>2. api_buf_wr(p, in, TRUE)
        BY <1>3, <1>5, <3>3, BufWriteCalled
      <4> QED
        BY <2>2, <4>1, <4>2 DEF api_buf_wr, api_op_complete_err, api_op_complete
    <3> QED
      BY <3>1, <3>2, <3>3
  <2> QED
    BY <2>1, <2>2
<1> QED
  BY <1>1, <1>3, <1>4, <1>5 DEF api_start_ep_req, InOrder

(* A response under way is for the packet of the callback.                 *)
LEMMA PacketKept ==
  ASSUME NEW p \in Header, NEW x, NEW n, NEW new \in BOOLEAN,
         pkt_buf' = IF new THEN Response([p EXCEPT !.p1 = x], n) ELSE Bytes(p)
  PROVE  current_op(pkt') = current_op(p) /\ pkt'.ep = p.ep
<1>1. current_op(p) \in 0 .. 7
  BY OpCases
<1>2. (current_op(p) + 8) % 8 = current_op(p)
  BY <1>1
<1>3. CASE new
  <2> DEFINE q == [p EXCEPT !.p1 = x]
             h == [q EXCEPT !.op = current_op(q) + api_op_resp, !.data_len = n]
  <2>1. pkt_buf' = Bytes(h)
    BY <1>3 DEF Response
  <2>2. q.op = p.op
    BY DEF Header
  <2>3. h.op = current_op(q) + api_op_resp /\ h.ep = p.ep
    BY DEF Header
  <2>4. pkt'.op = h.op /\ pkt'.ep = h.ep
    BY <2>1 DEF pkt, Fields, Bytes
  <2> HIDE DEF q, h
  <2> QED
    BY <1>2, <2>2, <2>3, <2>4 DEF current_op, api_op_resp
<1>4. CASE ~new
  BY <1>4 DEF pkt, Fields, Bytes, current_op
<1> QED
  BY <1>3, <1>4

LEMMA Responder ==
  ASSUME NEW p \in Header, NEW in, NEW new \in BOOLEAN, Callback(p, in, new),
         ~halted', state' = "responding"
  PROVE  current_op(pkt') = current_op(p) /\ pkt'.ep = p.ep
<1>1. p = [p EXCEPT !.p1 = p.p1]
  BY DEF Header
<1>2. ASSUME api_ep_info_cb(p, new)
      PROVE  \E x, n : pkt_buf' = IF new THEN Response([p EXCEPT !.p1 = x], n) ELSE Bytes(p)
  BY <1>2 DEF api_ep_info_cb, Send, BUG, api_op_complete
<1>3. ASSUME api_buf_rd(p, new)
      PROVE  \E x, n : pkt_buf' = IF new THEN Response([p EXCEPT !.p1 = x], n) ELSE Bytes(p)
  BY <1>1, <1>3 DEF api_buf_rd, Send, BUG, api_op_complete, api_op_complete_err
<1>4. ASSUME api_buf_wr(p, in, new)
      PROVE  FALSE
  BY <1>4 DEF api_buf_wr, Fill, BUG, api_op_complete, api_op_complete_err
<1>5. ASSUME api_str_buf_rd(p, new)
      PROVE  \E x, n : pkt_buf' = IF new THEN Response([p EXCEPT !.p1 = x], n) ELSE Bytes(p)
  BY <1>5 DEF api_str_buf_rd, Send, BUG, api_op_complete
<1>6. ASSUME api_str_buf_wr(p, in, new)
      PROVE  FALSE
  BY <1>6 DEF api_str_buf_wr, Store, BUG, api_op_complete
<1>7. ASSUME api_str_seq_rd(p, new)
      PROVE  current_op(pkt') = current_op(p) /\ pkt'.ep = p.ep
  <2> DEFINE p1 == [p EXCEPT !.p1 = ALL_ONES]
             q  == IF new THEN Fields(Response(p1, p.p2)) ELSE p
  <2>1. q \in Header /\ current_op(q) = current_op(p) /\ q.ep = p.ep
    <3>1. p1 \in Header /\ p1.op = p.op /\ p1.ep = p.ep /\ p.p2 \in Nat
      BY DEF Header, ALL_ONES, api_op_resp
    <3> HIDE DEF p1
    <3>2. /\ Fields(Response(p1, p.p2)) \in Header
          /\ current_op(Fields(Response(p1, p.p2))) = current_op(p1)
          /\ Fields(Response(p1, p.p2)).ep = p1.ep
      BY <3>1, ResponseFacts
    <3> QED
      BY <3>1, <3>2 DEF current_op
  <2>2. \E l : pkt_buf' = Bytes([q EXCEPT !.data_len = l])
    BY <1>7 DEF api_str_seq_rd, api_op_complete
  <2> HIDE DEF q
  <2>3. PICK l : pkt_buf' = Bytes([q EXCEPT !.data_len = l])
    BY <2>2
  <2> DEFINE h == [q EXCEPT !.data_len = l]
  <2>4. h.op = q.op /\ h.ep = q.ep
    BY <2>1 DEF Header
  <2>5. pkt'.op = h.op /\ pkt'.ep = h.ep
    BY <2>3 DEF pkt, Fields, Bytes
  <2> QED
    BY <2>1, <2>4, <2>5 DEF current_op
<1> QED
  BY <1>2, <1>3, <1>4, <1>5, <1>6, <1>7, PacketKept DEF Callback

(* The steps of the device in which the answer is the program's own.       *)
LEMMA DeviceFollows ==
  ASSUME ApiInv, ApiInv', Follows, Device
  PROVE  Follows'
<1>1. /\ UNCHANGED <<h_queue, hostVars>>
      /\ h_state' = h_state /\ h_req' = h_req /\ h_in' = h_in /\ known' = known
      /\ DevInv /\ HostType /\ ~halted'
  BY DEF Device, hostVars, ApiInv, HostInv, DevInv
<1>2. /\ h_state' \in {"payload", "answered"} => Verdict(h_req)' = 0
      /\ h_state' = "answered" => Len(h_in') = HDR + h_in'[7]
      /\ known' = [echo |-> known'.echo, sure |-> known'.sure,
                   next |-> known'.next, app |-> known'.app]
      /\ h_state' \in Opening => known' = KnowsNothing
  BY <1>1 DEF Follows, Verdict, buf_sz, KnowsNothing
<1>3. ASSUME h_state \in Asking, state' = "responding"
      PROVE  current_op(pkt') = h_req.op /\ pkt'.ep = h_req.ep
  <2>1. CASE AskSkips
    BY <1>3, <2>1 DEF AskSkips
  <2>2. CASE AskGoesOn
    <3>1. pkt \in Header /\ Callback(pkt, up, FALSE)
          /\ current_op(pkt) = h_req.op /\ pkt.ep = h_req.ep
      BY <2>2 DEF AskGoesOn
    <3> HIDE DEF pkt
    <3>2. current_op(pkt') = current_op(pkt) /\ pkt'.ep = pkt.ep
      BY <1>1, <1>3, <3>1, Responder
    <3> QED
      BY <3>1, <3>2
  <2>3. ASSUME NEW p, NEW in, AskBegins(p, in)
        PROVE  current_op(pkt') = h_req.op /\ pkt'.ep = h_req.ep
    <3>1. p \in Header /\ p.op < api_op_resp /\ p.op = h_req.op /\ p.ep = h_req.ep
      BY <2>3 DEF AskBegins, AsksFor
    <3>2. Callback(p, in, TRUE)
      BY <1>1, <1>3, <2>3, AskTakes
    <3>3. current_op(pkt') = current_op(p) /\ pkt'.ep = p.ep
      BY <1>1, <1>3, <3>1, <3>2, Responder
    <3> QED
      BY <3>1, <3>3, OpCases
  <2> QED
    BY <1>3, <2>1, <2>2, <2>3, AskStep
<1> QED
  BY <1>1, <1>2, <1>3 DEF Follows

(* What the program makes of an answer, field by field.                    *)
LEMMA UseKnown ==
  ASSUME Follows, Use
  PROVE  /\ known' = [echo |-> known'.echo, sure |-> known'.sure,
                      next |-> known'.next, app |-> known'.app]
         /\ known'.echo =
              IF Asked(api_op_str_wr, API_EP_ECHO) /\ known.sure
              THEN known.echo \o Take(h_req.data, answer.p1)
              ELSE IF Asked(api_op_str_rd, API_EP_ECHO) /\ known.sure
              THEN Drop(known.echo, Len(payload)) ELSE known.echo
         /\ known'.sure =
              IF Asked(api_op_str_rd, API_EP_ECHO)
              THEN known.sure \/ answer.p1 = 0 ELSE known.sure
         /\ known'.next =
              IF Asked(api_op_str_rd, API_EP_SEQ) /\ payload # << >>
              THEN (payload[Len(payload)] + 1) % (SEQ_MAX + 1) ELSE known.next
         /\ known'.app =
              IF Asked(api_op_buf_wr, API_EP_APP)
              THEN [i \in 1 .. APP_SZ |->
                      IF i \in Region(h_req) THEN h_req.data[i - h_req.p1] ELSE known.app[i]]
              ELSE known.app
<1>1. /\ ~(Asked(api_op_str_wr, API_EP_ECHO) /\ Asked(api_op_str_rd, API_EP_ECHO))
      /\ ~(Asked(api_op_str_wr, API_EP_ECHO) /\ Asked(api_op_str_rd, API_EP_SEQ))
      /\ ~(Asked(api_op_str_wr, API_EP_ECHO) /\ Asked(api_op_buf_wr, API_EP_APP))
      /\ ~(Asked(api_op_str_rd, API_EP_ECHO) /\ Asked(api_op_str_rd, API_EP_SEQ))
      /\ ~(Asked(api_op_str_rd, API_EP_ECHO) /\ Asked(api_op_buf_wr, API_EP_APP))
      /\ ~(Asked(api_op_str_rd, API_EP_SEQ) /\ Asked(api_op_buf_wr, API_EP_APP))
  BY DEF Asked, api_op_str_wr, api_op_str_rd, api_op_buf_wr, API_EP_ECHO, API_EP_SEQ, API_EP_APP
<1> DEFINE e == known.echo  s == known.sure  x == known.next  a == known.app
           a2 == [i \in 1 .. APP_SZ |->
                    IF i \in Region(h_req) THEN h_req.data[i - h_req.p1] ELSE a[i]]
<1>2. known = [echo |-> e, sure |-> s, next |-> x, app |-> a]
  BY DEF Follows
<1>3. \/ Asked(api_op_str_wr, API_EP_ECHO) /\ known.sure
         /\ known' = [known EXCEPT !.echo = e \o Take(h_req.data, answer.p1)]
      \/ Asked(api_op_str_rd, API_EP_ECHO)
         /\ known' = [known EXCEPT !.echo = IF s THEN Drop(e, Len(payload)) ELSE e,
                                   !.sure = s \/ answer.p1 = 0]
      \/ Asked(api_op_str_rd, API_EP_SEQ) /\ payload # << >>
         /\ known' = [known EXCEPT !.next = (payload[Len(payload)] + 1) % (SEQ_MAX + 1)]
      \/ Asked(api_op_buf_wr, API_EP_APP) /\ known' = [known EXCEPT !.app = a2]
      \/ /\ ~(Asked(api_op_str_wr, API_EP_ECHO) /\ known.sure)
         /\ ~Asked(api_op_str_rd, API_EP_ECHO)
         /\ ~(Asked(api_op_str_rd, API_EP_SEQ) /\ payload # << >>)
         /\ ~Asked(api_op_buf_wr, API_EP_APP)
         /\ known' = known
  <2> DEFINE c1 == Asked(api_op_str_wr, API_EP_ECHO) /\ known.sure
             c2 == Asked(api_op_str_rd, API_EP_ECHO)
             c3 == Asked(api_op_str_rd, API_EP_SEQ) /\ payload # << >>
             c4 == Asked(api_op_buf_wr, API_EP_APP)
             k1 == [known EXCEPT !.echo = e \o Take(h_req.data, answer.p1)]
             k2 == [known EXCEPT !.echo = IF s THEN Drop(e, Len(payload)) ELSE e,
                                 !.sure = s \/ answer.p1 = 0]
             k3 == [known EXCEPT !.next = (payload[Len(payload)] + 1) % (SEQ_MAX + 1)]
             k4 == [known EXCEPT !.app = a2]
  <2>1. known' = CASE c1 -> k1 [] c2 -> k2 [] c3 -> k3 [] c4 -> k4 [] OTHER -> known
    BY DEF Use
  <2>2. ~(c1 /\ c2) /\ ~(c1 /\ c3) /\ ~(c1 /\ c4) /\ ~(c2 /\ c3) /\ ~(c2 /\ c4) /\ ~(c3 /\ c4)
    BY <1>1
  <2> HIDE DEF c1, c2, c3, c4, k1, k2, k3, k4
  <2>3. /\ c1 => known' = k1
        /\ c2 => known' = k2
        /\ c3 => known' = k3
        /\ c4 => known' = k4
        /\ ~c1 /\ ~c2 /\ ~c3 /\ ~c4 => known' = known
    <3>1. ASSUME c1 PROVE known' = k1
      BY <2>1, <2>2, <3>1
    <3>2. ASSUME c2 PROVE known' = k2
      BY <2>1, <2>2, <3>2
    <3>3. ASSUME c3 PROVE known' = k3
      BY <2>1, <2>2, <3>3
    <3>4. ASSUME c4 PROVE known' = k4
      BY <2>1, <2>2, <3>4
    <3>5. ASSUME ~c1, ~c2, ~c3, ~c4 PROVE known' = known
      BY <2>1, <3>5
    <3> QED
      BY <3>1, <3>2, <3>3, <3>4, <3>5
  <2> QED
    BY <2>3 DEF c1, c2, c3, c4, k1, k2, k3, k4
<1> HIDE DEF e, s, x, a, a2
<1>4. known.echo = e /\ known.sure = s /\ known.next = x /\ known.app = a
  BY <1>2
<1>5. CASE Asked(api_op_str_wr, API_EP_ECHO) /\ known.sure
           /\ known' = [known EXCEPT !.echo = e \o Take(h_req.data, answer.p1)]
  <2>1. known' = [echo |-> e \o Take(h_req.data, answer.p1), sure |-> s, next |-> x, app |-> a]
    BY <1>2, <1>5
  <2> QED
    BY <1>1, <1>4, <1>5, <2>1
<1>6. CASE Asked(api_op_str_rd, API_EP_ECHO)
         /\ known' = [known EXCEPT !.echo = IF s THEN Drop(e, Len(payload)) ELSE e,
                                   !.sure = s \/ answer.p1 = 0]
  <2>1. known' = [echo |-> IF s THEN Drop(e, Len(payload)) ELSE e,
                  sure |-> s \/ answer.p1 = 0, next |-> x, app |-> a]
    BY <1>2, <1>6
  <2> QED
    BY <1>1, <1>4, <1>6, <2>1
<1>7. CASE Asked(api_op_str_rd, API_EP_SEQ) /\ payload # << >>
         /\ known' = [known EXCEPT !.next = (payload[Len(payload)] + 1) % (SEQ_MAX + 1)]
  <2>1. known' = [echo |-> e, sure |-> s,
                  next |-> (payload[Len(payload)] + 1) % (SEQ_MAX + 1), app |-> a]
    BY <1>2, <1>7
  <2> QED
    BY <1>1, <1>4, <1>7, <2>1
<1>8. CASE Asked(api_op_buf_wr, API_EP_APP) /\ known' = [known EXCEPT !.app = a2]
  <2>1. known' = [echo |-> e, sure |-> s, next |-> x, app |-> a2]
    BY <1>2, <1>8
  <2> QED
    BY <1>1, <1>4, <1>8, <2>1 DEF a2
<1>9. CASE /\ ~(Asked(api_op_str_wr, API_EP_ECHO) /\ known.sure)
           /\ ~Asked(api_op_str_rd, API_EP_ECHO)
           /\ ~(Asked(api_op_str_rd, API_EP_SEQ) /\ payload # << >>)
           /\ ~Asked(api_op_buf_wr, API_EP_APP)
           /\ known' = known
  BY <1>2, <1>4, <1>9
<1> QED
  BY <1>3, <1>5, <1>6, <1>7, <1>8, <1>9

LEMMA AskFresh ==
  ASSUME ApiInv, ApiInv', Ask
  PROVE  /\ h_state \in {"flushed", "ready"} /\ h_state' = "write"
         /\ UNCHANGED <<apiVars, epVars, known>>
         /\ state' = "idle" /\ Len(R') = 0 /\ ~Begun
<1>1. /\ h_state \in {"flushed", "ready"} /\ h_state' = "write" /\ HostInv
      /\ UNCHANGED <<apiVars, epVars, known>> /\ UNCHANGED devVars
      /\ h_queue' = h_queue /\ h_in' = h_in
  BY DEF Ask, wr_packet, devVars, ApiInv
<1>2. Aligned /\ h_in = << >>
  BY <1>1 DEF HostInv
<1>3. state' = "idle"
  BY <1>1, <1>2 DEF Aligned, apiVars
<1>4. Len(R') = 0
  <2>1. R' = << >> \o (<< >> \o << >>)
    BY <1>1, <1>2 DEF R, Got, Over, Aligned, devVars
  <2> QED
    BY <2>1, ConcatEmptySeq
<1> QED
  BY <1>1, <1>3, <1>4 DEF Begun, Asking

LEMMA NextFollows ==
  ASSUME ApiInv, ApiInv', Follows, [Next]_vars
  PROVE  Follows'
<1>1. HostInv /\ HostInv'
  BY DEF ApiInv
<1>2. CASE Quiet
  <2>1. /\ state' = state /\ pkt' = pkt /\ known' = known /\ h_req' = h_req
        /\ Verdict(h_req)' = Verdict(h_req)
    BY <1>2 DEF Quiet, apiVars, pkt, Verdict, buf_sz
  <2>2. h_state' \in Asking /\ state' = "responding" =>
          current_op(pkt') = h_req'.op /\ pkt'.ep = h_req'.ep
    <3> SUFFICES ASSUME h_state' \in Asking, state' = "responding"
                 PROVE  current_op(pkt) = h_req.op /\ pkt.ep = h_req.ep
      BY <2>1
    <3>1. h_state \in Asking \/ h_state = "answered"
      BY <1>2 DEF Quiet, Begun
    <3>2. h_state # "answered"
      BY <1>1, <2>1 DEF HostInv
    <3> QED
      BY <2>1, <3>1, <3>2 DEF Follows
  <2>3. h_state' \in {"payload", "answered"} => Verdict(h_req)' = 0
    <3>1. h_state' = "payload" => Verdict(h_req)' = 0
      BY <1>1 DEF HostInv
    <3>2. h_state' = "answered" => h_state \in {"payload", "answered"}
      BY <1>2 DEF Quiet
    <3> QED
      BY <2>1, <3>1, <3>2 DEF Follows
  <2>4. h_state' = "answered" => Len(h_in') = HDR + h_in'[7]
    BY <1>2 DEF Quiet, Follows
  <2>5. h_state' \in Opening => known' = KnowsNothing
    BY <1>2, <2>1 DEF Quiet, Follows
  <2> QED
    BY <2>1, <2>2, <2>3, <2>4, <2>5 DEF Follows, KnowsNothing
<1>3. CASE Ends
  <2>1. h_state' \in {"closed", "refused", "mismatch"} /\ known' = known
    BY <1>3 DEF Ends, Over
  <2> QED
    BY <2>1 DEF Follows, Opening, Asking
<1>4. CASE Open
  <2>1. h_state' = "flush" /\ known' = KnowsNothing
    BY <1>4 DEF Open
  <2> QED
    BY <2>1 DEF Follows, Opening, Asking, KnowsNothing
<1>5. CASE Ask
  <2>1. h_state' = "write" /\ known' = known /\ state' = "idle"
    BY <1>5, AskFresh
  <2> QED
    BY <2>1 DEF Follows, Opening
<1>6. CASE Use
  <2>1. h_state' = "ready"
        /\ known' = [echo |-> known'.echo, sure |-> known'.sure,
                     next |-> known'.next, app |-> known'.app]
    BY <1>6, UseKnown DEF Use
  <2> QED
    BY <2>1 DEF Follows, Opening, Asking
<1> QED
  BY <1>2, <1>3, <1>4, <1>5, <1>6, DeviceFollows, HostSteps


(* A callback leaves alone what is not its endpoint's.                     *)
LEMMA OtherEndpoints ==
  ASSUME NEW p, NEW in, NEW new \in BOOLEAN, Callback(p, in, new)
  PROVE  /\ ~(current_op(p) = api_op_str_rd /\ p.ep = API_EP_SEQ) => next_n' = next_n
         /\ current_op(p) # api_op_buf_wr => app_buf' = app_buf
         /\ ~(current_op(p) = api_op_str_rd /\ p.ep = API_EP_ECHO)
              /\ current_op(p) # api_op_str_wr => echo' = echo
<1>1. CASE current_op(p) = api_op_info
  <2>1. api_ep_info_cb(p, new)
    BY <1>1, InfoCalled
  <2> QED
    BY <2>1 DEF api_ep_info_cb, BUG, epVars
<1>2. CASE current_op(p) = api_op_buf_rd
  <2>1. api_buf_rd(p, new)
    BY <1>2, BufReadCalled
  <2> QED
    BY <2>1 DEF api_buf_rd, api_op_complete_err, BUG, epVars
<1>3. CASE current_op(p) = api_op_buf_wr
  <2>1. api_buf_wr(p, in, new)
    BY <1>3, BufWriteCalled
  <2>2. echo' = echo /\ next_n' = next_n
    BY <2>1 DEF api_buf_wr, Fill, api_op_complete_err, BUG, epVars
  <2> QED
    BY <1>3, <2>2
<1>4. CASE current_op(p) = api_op_str_rd
  <2>1. \/ p.ep = API_EP_ECHO /\ api_str_buf_rd(p, new)
        \/ p.ep = API_EP_SEQ /\ api_str_seq_rd(p, new)
    BY <1>4, StreamReadCalled
  <2>2. CASE p.ep = API_EP_ECHO /\ api_str_buf_rd(p, new)
    <3>1. app_buf' = app_buf /\ next_n' = next_n
      BY <2>2 DEF api_str_buf_rd, BUG, epVars
    <3> QED
      BY <1>4, <2>2, <3>1
  <2>3. CASE p.ep = API_EP_SEQ /\ api_str_seq_rd(p, new)
    <3>1. app_buf' = app_buf /\ echo' = echo
      BY <2>3 DEF api_str_seq_rd
    <3> QED
      BY <1>4, <2>3, <3>1
  <2> QED
    BY <2>1, <2>2, <2>3
<1>5. CASE current_op(p) = api_op_str_wr
  <2>1. api_str_buf_wr(p, in, new)
    BY <1>5, StreamWriteCalled
  <2>2. app_buf' = app_buf /\ next_n' = next_n
    BY <2>1 DEF api_str_buf_wr, Store, BUG, epVars
  <2> QED
    BY <1>5, <2>2
<1>6. current_op(p) \in {api_op_info, api_op_buf_rd, api_op_buf_wr, api_op_str_rd, api_op_str_wr}
  BY DEF Callback
<1> QED
  BY <1>1, <1>2, <1>3, <1>4, <1>5, <1>6

(* The device rests while no request is under way in a session.            *)
LEMMA DeviceWaits ==
  ASSUME ApiInv, Device
  PROVE  h_state \in Over \cup Opening \cup Asking
<1>1. /\ DevType /\ HostType /\ HostInv
      /\ h_state \in Over \cup Opening \cup Asking \cup {"flushed", "ready", "answered"}
  BY DEF ApiInv, DevInv, HostInv, HostType
<1>2. CASE h_state \in {"flushed", "ready"}
  <2>1. state = "idle" /\ pkt_buf = << >> /\ Len(up) < HDR
    BY <1>1, <1>2 DEF HostInv, Aligned
  <2>2. Len(pkt_buf) = 0 /\ Len(up) \in Nat
    BY <1>1, <2>1 DEF DevType
  <2>3. Len(up) + Len(pkt_buf) < HDR
    BY <2>1, <2>2
  <2> QED
    BY <1>1, <2>1, <2>3, DeviceRests
<1>3. CASE h_state = "answered"
  <2>1. state = "idle" /\ Len(Q) = 0
    BY <1>1, <1>3 DEF HostInv
  <2>2. /\ Len(Q) = Len(pkt_buf) + Len(up) + Len(h_out)
        /\ Len(pkt_buf) \in Nat /\ Len(up) \in Nat /\ Len(h_out) \in Nat
    BY <1>1, <2>1, NothingQueued
  <2>3. Len(up) + Len(pkt_buf) < HDR
    BY <2>1, <2>2 DEF HDR
  <2> QED
    BY <1>1, <2>1, <2>3, DeviceRests
<1> QED
  BY <1>1, <1>2, <1>3

(* The payload there is of the answer.                                     *)
LEMMA SentFacts ==
  ASSUME DevType, HostType
  PROVE  /\ Sent \in Nat
         /\ ~Begun => Sent = 0
         /\ Len(R) <= HDR => Sent = 0
         /\ Begun /\ Len(R) >= HDR => Len(R) = HDR + Sent
<1>1. Len(R) \in Nat
  BY QType
<1> DEFINE l == Len(R)
<1>2. Sent = IF Begun /\ l > HDR THEN l - HDR ELSE 0
  BY DEF Sent
<1>3. l \in Nat
  BY <1>1
<1> HIDE DEF l
<1>4. /\ Sent \in Nat
      /\ ~Begun => Sent = 0
      /\ l <= HDR => Sent = 0
      /\ Begun /\ l >= HDR => l = HDR + Sent
  BY <1>2, <1>3 DEF HDR
<1> QED
  BY <1>4, Zenon DEF l

LEMMA SentMeanwhile ==
  ASSUME DevType, HostType, DevType', HostType', UNCHANGED hostVars, h_state \in Asking
  PROVE  /\ Begun /\ Begun' /\ h_state' \notin Over
         /\ Sent \in Nat /\ Sent' \in Nat
         /\ Len(R) <= HDR => Sent = 0
         /\ Len(R) >= HDR => Len(R) = HDR + Sent
         /\ Len(R') <= HDR => Sent' = 0
         /\ Len(R') >= HDR => Len(R') = HDR + Sent'
<1>1. Begun /\ Begun' /\ h_state' \notin Over
  BY DEF Begun, Asking, Over, hostVars
<1>2. (DevType /\ HostType =>
          /\ Sent \in Nat
          /\ ~Begun => Sent = 0
          /\ Len(R) <= HDR => Sent = 0
          /\ Begun /\ Len(R) >= HDR => Len(R) = HDR + Sent)'
  BY SentFacts, PTL
<1>3. /\ Sent \in Nat /\ (Len(R) <= HDR => Sent = 0)
      /\ Begun /\ Len(R) >= HDR => Len(R) = HDR + Sent
  BY SentFacts
<1> QED
  BY <1>1, <1>2, <1>3

(* What a program has read of the answer when it uses it.                  *)
LEMMA AnswerRead ==
  ASSUME ApiInv, Follows, h_state = "answered"
  PROVE  /\ Begun /\ R = h_in /\ h_in \in Seq(Nat) /\ Len(h_in) >= HDR
         /\ payload \in Seq(Nat) /\ Len(payload) = Sent /\ Sent = h_in[7]
         /\ \A i \in 1 .. Sent : payload[i] = R[HDR + i]
         /\ answer.p1 = h_in[5] /\ answer.data_len = h_in[7]
         /\ Verdict(h_req) = 0
<1>1. /\ DevType /\ HostType /\ HostInv /\ h_in \in Seq(Nat)
      /\ h_queue = << >> /\ down = << >> /\ Answer(h_in)
      /\ Len(h_in) = HDR + h_in[7] /\ Verdict(h_req) = 0
  BY DEF ApiInv, DevInv, HostInv, HostType, Follows
<1>2. R = h_in
  <2>1. R = h_in \o (<< >> \o << >>)
    BY <1>1 DEF R, Got, Over
  <2> QED
    BY <1>1, <2>1, ConcatEmptySeq
<1>3. Begun
  BY DEF Begun
<1>4. Len(h_in) >= HDR /\ Len(h_in) \in Nat /\ HDR \in Nat
  BY <1>1 DEF Answer, HDR
<1>5. Len(h_in) = HDR + Sent /\ Sent \in Nat
  BY <1>1, <1>2, <1>3, <1>4, SentFacts
<1>6. Sent = h_in[7]
  <2>1. h_in[7] \in Nat
    BY <1>1, <1>4 DEF HDR
  <2> QED
    BY <1>1, <1>4, <1>5, <2>1
<1>7. /\ payload \in Seq(Nat) /\ Len(payload) = Len(h_in) - HDR
      /\ \A i \in 1 .. Len(h_in) - HDR : payload[i] = h_in[HDR + i]
  BY <1>1, <1>4, DropFacts DEF payload
<1>8. Len(h_in) - HDR = Sent
  BY <1>4, <1>5
<1> QED
  BY <1>1, <1>2, <1>3, <1>4, <1>6, <1>7, <1>8 DEF answer, Fields

(* Sums modulo m.                                                          *)
LEMMA ModSum ==
  ASSUME NEW x \in Nat, NEW y \in Nat, NEW m \in Nat, m > 0
  PROVE  ((x % m) + y) % m = (x + y) % m
<1> DEFINE q == x \div m
           r == x % m
           t == (r + y) \div m
           u == (r + y) % m
<1>1. x = (m * q) + r /\ q \in Int /\ r \in Int
  OBVIOUS
<1>2. r + y = (m * t) + u /\ t \in Int /\ u \in Int /\ 0 <= u /\ u < m
  BY <1>1
<1> HIDE DEF q, r, t, u
<1>3. x + y = (m * (q + t)) + u
  BY <1>1, <1>2
<1>4. \A z \in Int : ((m * z) + u) % m = u
  BY <1>2
<1>5. (x + y) % m = u
  BY <1>1, <1>2, <1>3, <1>4
<1> QED
  BY <1>5 DEF u, r

(* The test sequence.  s is the byte the answer under way began with, and  *)
(* next_n the one after its last.                                          *)
SeqSent == IF Asked(api_op_str_rd, API_EP_SEQ) THEN Sent ELSE 0

SeqAt(s) ==
  /\ known.next # NONE => known.next = s % (SEQ_MAX + 1)
  /\ next_n % (SEQ_MAX + 1) = (s + SeqSent) % (SEQ_MAX + 1)
  /\ \A i \in 1 .. SeqSent : R[HDR + i] = (s + (i - 1)) % (SEQ_MAX + 1)

SeqInv ==
  /\ h_state \notin Over => \E s \in Nat : SeqAt(s)
  /\ Begun /\ Asked(api_op_str_rd, API_EP_SEQ) /\ Len(R) > 0 => R[7] = h_req.p2

LEMMA SeqFirst ==
  ASSUME DevInv, HostType, UNCHANGED <<h_queue, hostVars>>, HasRoom, Len(R) = 0,
         NEW p \in Header, p.op = api_op_str_rd, p.p2 > 0, api_str_seq_rd(p, TRUE)
  PROVE  \E n \in Nat :
           /\ Len(R') = HDR + n /\ R'[7] = p.p2
           /\ next_n' = (next_n + n) % (SEQ_MAX + 1)
           /\ \A i \in 1 .. n : R'[HDR + i] = (next_n + i - 1) % (SEQ_MAX + 1)
<1> DEFINE p1 == [p EXCEPT !.p1 = ALL_ONES]
           s == Response(p1, p.p2)
           q == Fields(s)
           chunk == MIN_(CHUNK_SZ, q.data_len)
           n == Fits(TRUE, chunk)
           g == [i \in 1 .. n |-> (next_n + i - 1) % (SEQ_MAX + 1)]
           a == Bytes(q) \o g
<1>1. DevType /\ Len(down) <= DOWN_SIZE
  BY DEF DevInv
<1>2. p1 \in Header /\ p.p2 \in Nat
  BY DEF Header, ALL_ONES, api_op_resp
<1> HIDE DEF p1
<1>3. q \in Header /\ q.data_len = p.p2
  BY <1>2, ResponseFacts
<1>4. /\ down' = (down \o Bytes(q)) \o g
      /\ next_n' = (next_n + n) % (SEQ_MAX + 1)
  BY DEF api_str_seq_rd, api_str_seq_advance, p1
<1> HIDE DEF s, q
<1>5. n \in Nat
  <2>1. chunk \in Nat
    BY <1>2, <1>3, DeviceAssumption DEF MIN_
  <2> HIDE DEF chunk
  <2>2. n \in 0 .. chunk
    BY <1>1, <2>1, RoomFacts
  <2> HIDE DEF n
  <2> QED
    BY <2>1, <2>2
<1> HIDE DEF chunk, n
<1>6. g \in Seq(Nat) /\ Len(g) = n
  BY <1>1, <1>5, ChunkFacts
<1>7. \A i \in 1 .. n : g[i] = (next_n + i - 1) % (SEQ_MAX + 1)
  OBVIOUS
<1> HIDE DEF g
<1>8. /\ Bytes(q) \in Seq(Nat) /\ Len(Bytes(q)) = HDR /\ Bytes(q)[7] = p.p2
  BY <1>3, BytesFacts
<1>9. /\ a \in Seq(Nat) /\ Len(a) = HDR + n
      /\ \A i \in 1 .. HDR : a[i] = Bytes(q)[i]
      /\ \A i \in 1 .. n : a[HDR + i] = g[i]
  BY <1>6, <1>8, ConcatFacts
<1>10. a[7] = p.p2
  <2>1. a[7] = Bytes(q)[7]
    <3> HIDE DEF a
    <3> QED
      BY <1>9 DEF HDR
  <2> HIDE DEF a
  <2> QED
    BY <1>8, <2>1
<1>11. down' = down \o a
  <2>1. down \in Seq(Nat) /\ Bytes(q) \in Seq(Nat) /\ g \in Seq(Nat)
    BY <1>1, <1>6, <1>8 DEF DevType
  <2>2. (down \o Bytes(q)) \o g = down \o (Bytes(q) \o g)
    BY <2>1, Concat3
  <2> QED
    BY <2>2, <1>4
<1> HIDE DEF a
<1>12. R' = a
  <2>1. R' = R \o a /\ R \in Seq(Nat)
    BY <1>1, <1>9, <1>11, AnswerGrows, QType
  <2>2. R = << >>
    BY <2>1, EmptySeq
  <2> QED
    BY <1>9, <2>1, <2>2, ConcatEmptySeq
<1> QED
  BY <1>4, <1>5, <1>7, <1>9, <1>10, <1>12

LEMMA SeqMore ==
  ASSUME DevInv, HostType, UNCHANGED <<h_queue, hostVars>>, HasRoom, pkt \in Header,
         api_str_seq_rd(pkt, FALSE)
  PROVE  \E n \in Nat :
           /\ Len(R') = Len(R) + n /\ \A i \in 1 .. Len(R) : R'[i] = R[i]
           /\ next_n' = (next_n + n) % (SEQ_MAX + 1)
           /\ \A i \in 1 .. n : R'[Len(R) + i] = (next_n + i - 1) % (SEQ_MAX + 1)
<1> DEFINE chunk == MIN_(CHUNK_SZ, pkt.data_len)
           n == Fits(FALSE, chunk)
           a == [i \in 1 .. n |-> (next_n + i - 1) % (SEQ_MAX + 1)]
<1>1. DevType /\ Len(down) <= DOWN_SIZE /\ pkt.data_len \in Nat
  BY DEF DevInv, Header
<1>2. /\ down' = (down \o << >>) \o a
      /\ next_n' = (next_n + n) % (SEQ_MAX + 1)
  BY DEF api_str_seq_rd, api_str_seq_advance
<1>3. n \in Nat
  <2>1. chunk \in Nat
    BY <1>1, DeviceAssumption DEF MIN_
  <2> HIDE DEF chunk
  <2>2. n \in 0 .. chunk
    BY <1>1, <2>1, RoomFacts
  <2> HIDE DEF n
  <2> QED
    BY <2>1, <2>2
<1> HIDE DEF chunk, n
<1>4. a \in Seq(Nat) /\ Len(a) = n
  BY <1>1, <1>3, ChunkFacts
<1>5. \A i \in 1 .. n : a[i] = (next_n + i - 1) % (SEQ_MAX + 1)
  OBVIOUS
<1> HIDE DEF a
<1>6. down' = down \o a
  BY <1>1, <1>2, ConcatEmptySeq DEF DevType
<1>7. R' = R \o a /\ R \in Seq(Nat)
  BY <1>1, <1>4, <1>6, AnswerGrows, QType
<1>8. /\ Len(R') = Len(R) + n
      /\ \A i \in 1 .. Len(R) : R'[i] = R[i]
      /\ \A i \in 1 .. n : R'[Len(R) + i] = a[i]
  BY <1>4, <1>7, ConcatFacts
<1> QED
  BY <1>2, <1>3, <1>5, <1>8

(* Steps in which the sequence rests, ...                                  *)
LEMMA SeqRests ==
  ASSUME NEW s \in Nat, SeqAt(s), next_n' = next_n, known' = known, SeqSent' = SeqSent,
         SeqSent = 0 \/ R' = R
  PROVE  SeqAt(s)'
BY DEF SeqAt

(* ... and in which n bytes of it are sent.                                *)
LEMMA SeqAdvances ==
  ASSUME NEW s \in Nat, SeqAt(s), next_n \in Nat, known' = known, SeqSent \in Nat,
         NEW n \in Nat, SeqSent' = SeqSent + n, next_n' = (next_n + n) % (SEQ_MAX + 1),
         \A i \in 1 .. SeqSent : R'[HDR + i] = R[HDR + i],
         \A i \in 1 .. n : R'[HDR + (SeqSent + i)] = (next_n + i - 1) % (SEQ_MAX + 1)
  PROVE  SeqAt(s)'
<1> DEFINE m == SEQ_MAX + 1
           k == SeqSent
<1>1. m \in Nat /\ m > 0
  BY DeviceAssumption DEF Byte, ALL_ONES, api_op_resp
<1>2. /\ known.next # NONE => known.next = s % m
      /\ next_n % m = (s + k) % m
      /\ \A i \in 1 .. k : R[HDR + i] = (s + (i - 1)) % m
  BY DEF SeqAt
<1>3. next_n' = (next_n + n) % m /\ \A i \in 1 .. n : R'[HDR + (k + i)] = (next_n + i - 1) % m
  OBVIOUS
<1>4. k \in Nat
  OBVIOUS
<1> HIDE DEF k, m
<1>5. \A j \in Nat : (next_n + j) % m = (s + (k + j)) % m
  <2> TAKE j \in Nat
  <2>1. ((next_n % m) + j) % m = (next_n + j) % m
    BY <1>1, ModSum
  <2>2. s + k \in Nat
    BY <1>4
  <2>3. (((s + k) % m) + j) % m = ((s + k) + j) % m
    BY <1>1, <2>2, ModSum
  <2>4. (s + k) + j = s + (k + j)
    BY <1>4
  <2> QED
    BY <1>2, <2>1, <2>3, <2>4
<1>6. next_n' % m = (s + (k + n)) % m
  <2> DEFINE x == next_n + n
  <2>1. x \in Nat
    OBVIOUS
  <2>2. ((x % m) + 0) % m = (x + 0) % m
    BY <1>1, <2>1, ModSum
  <2>3. x % m \in Nat
    <3> HIDE DEF x
    <3>1. x % m \in 0 .. m - 1
      BY <1>1, <2>1, ModFacts
    <3> QED
      BY <1>1, <3>1
  <2> HIDE DEF x
  <2>4. (x % m) % m = x % m
    BY <2>1, <2>2, <2>3
  <2> QED
    BY <1>3, <1>5, <2>4 DEF x
<1>7. \A i \in 1 .. k + n : R'[HDR + i] = (s + (i - 1)) % m
  <2> TAKE i \in 1 .. k + n
  <2>1. CASE i <= k
    <3>1. i \in 1 .. k
      BY <1>4, <2>1
    <3> QED
      BY <1>2, <3>1 DEF k
  <2>2. CASE i > k
    <3> DEFINE j == i - k
    <3>1. j \in 1 .. n /\ k + j = i /\ j - 1 \in Nat
      BY <1>4, <2>2
    <3> HIDE DEF j
    <3>2. R'[HDR + (k + j)] = (next_n + j - 1) % m
      BY <1>3, <3>1
    <3>3. next_n + j - 1 = next_n + (j - 1)
      BY <3>1
    <3>4. (next_n + (j - 1)) % m = (s + (k + (j - 1))) % m
      BY <1>5, <3>1
    <3>5. k + (j - 1) = i - 1
      BY <1>4, <3>1
    <3> QED
      BY <3>1, <3>2, <3>3, <3>4, <3>5
  <2> QED
    BY <1>4, <2>1, <2>2
<1>8. SeqSent' = k + n
  BY DEF k
<1> QED
  BY <1>2, <1>6, <1>7, <1>8 DEF SeqAt, m

(* The device's steps: it sends more of the sequence, or leaves it alone.  *)
LEMMA SeqDevice ==
  ASSUME ApiInv, ApiInv', Follows, SeqInv, Device
  PROVE  SeqInv'
<1>1. /\ DevInv /\ DevType /\ HostType /\ HostInv /\ HasRoom /\ next_n \in Nat
      /\ DevType' /\ HostType' /\ next_n' \in Nat
      /\ UNCHANGED <<h_queue, hostVars>>
      /\ h_state' = h_state /\ h_req' = h_req /\ known' = known
      /\ h_req \in PlainRequests
  BY DEF ApiInv, DevInv, DevType, HostInv, HostType, Device, api_process, hostVars
<1>2. h_state \in Over \cup Opening \cup Asking
  BY DeviceWaits
<1>3. CASE h_state \in Over
  BY <1>1, <1>3 DEF SeqInv, Begun, Asking, Over
<1>4. CASE h_state \in Opening
  <2>1. known.next = NONE /\ ~Begun'
    BY <1>1, <1>4 DEF Follows, KnowsNothing, Begun, Opening, Asking
  <2>2. SeqSent' = 0
    BY <2>1 DEF SeqSent, Sent
  <2>3. PICK s \in Nat : s = next_n'
    BY <1>1
  <2>4. SeqAt(s)'
    <3>1. s + 0 = s
      OBVIOUS
    <3> QED
      BY <1>1, <2>1, <2>2, <2>3, <3>1 DEF SeqAt
  <2> QED
    BY <1>1, <2>1, <2>4 DEF SeqInv
<1>5. CASE h_state \in Asking
  <2>1. PICK s \in Nat : SeqAt(s)
    BY <1>5 DEF SeqInv, Asking, Over
  <2>2. /\ Begun /\ Begun' /\ Asked(api_op_str_rd, API_EP_SEQ)' = Asked(api_op_str_rd, API_EP_SEQ)
        /\ h_state' \notin Over
    BY <1>1, <1>5, SentMeanwhile DEF Asked
  <2>3. /\ Sent \in Nat /\ Sent' \in Nat
        /\ Len(R) <= HDR => Sent = 0
        /\ Len(R) >= HDR => Len(R) = HDR + Sent
        /\ Len(R') <= HDR => Sent' = 0
        /\ Len(R') >= HDR => Len(R') = HDR + Sent'
    BY <1>1, <1>5, SentMeanwhile
  <2>4. ASSUME ~Asked(api_op_str_rd, API_EP_SEQ), next_n' = next_n
        PROVE  SeqInv'
    <3>1. SeqSent = 0 /\ SeqSent' = 0
      BY <2>2, <2>4 DEF SeqSent
    <3>2. SeqAt(s)'
      BY <1>1, <2>1, <2>4, <3>1, SeqRests
    <3> QED
      BY <2>2, <2>4, <3>2 DEF SeqInv
  <2>5. CASE AskSkips
    <3>1. R' = R /\ next_n' = next_n /\ Sent' = Sent
      BY <2>2, <2>5 DEF AskSkips, epVars, Sent
    <3>2. SeqAt(s)'
      <4>1. SeqSent' = SeqSent
        BY <2>2, <3>1 DEF SeqSent
      <4> QED
        BY <1>1, <2>1, <3>1, <4>1, SeqRests
    <3> QED
      BY <1>1, <2>2, <3>1, <3>2 DEF SeqInv
  <2>6. CASE AskGoesOn
    <3>1. /\ pkt \in Header /\ Callback(pkt, up, FALSE) /\ state # "idle"
          /\ current_op(pkt) = h_req.op /\ pkt.ep = h_req.ep
      BY <2>6 DEF AskGoesOn
    <3>2. CASE ~Asked(api_op_str_rd, API_EP_SEQ)
      <4>1. next_n' = next_n
        BY <3>1, <3>2, OtherEndpoints DEF Asked
      <4> QED
        BY <2>4, <3>2, <4>1
    <3>3. CASE Asked(api_op_str_rd, API_EP_SEQ)
      <4>1. current_op(pkt) = api_op_str_rd /\ pkt.ep = API_EP_SEQ
        BY <3>1, <3>3 DEF Asked
      <4>2. api_str_seq_rd(pkt, FALSE)
        <5>1. API_EP_SEQ # API_EP_ECHO
          BY DEF API_EP_SEQ, API_EP_ECHO
        <5> HIDE DEF pkt
        <5> QED
          BY <3>1, <4>1, <5>1, StreamReadCalled
      <4>3. state = "responding"
        <5>1. state = "processing" => ProcessingOK
          BY <1>1 DEF DevInv
        <5>2. ProcessingOK => pkt.op \in {api_op_buf_wr, api_op_str_wr}
          BY DEF ProcessingOK
        <5>3. pkt.op \in {api_op_buf_wr, api_op_str_wr} => current_op(pkt) # api_op_str_rd
          BY DEF current_op, api_op_buf_wr, api_op_str_wr, api_op_str_rd, api_op_resp
        <5> QED
          BY <1>1, <3>1, <4>1, <5>1, <5>2, <5>3 DEF DevType
      <4>4. Len(R) >= HDR /\ Len(R) \in Nat
        <5>1. AskAnswered
          BY <1>1, <1>5, <4>3 DEF HostInv, Asks, AskWaits, AskTaken
        <5> QED
          BY <1>1, <5>1, QType DEF AskAnswered, Answer
      <4>5. PICK n \in Nat :
              /\ Len(R') = Len(R) + n /\ \A i \in 1 .. Len(R) : R'[i] = R[i]
              /\ next_n' = (next_n + n) % (SEQ_MAX + 1)
              /\ \A i \in 1 .. n : R'[Len(R) + i] = (next_n + i - 1) % (SEQ_MAX + 1)
        BY <1>1, <3>1, <4>2, SeqMore
      <4> DEFINE k == Sent
      <4>6. Len(R) = HDR + k /\ k \in Nat /\ HDR = 7
        BY <2>3, <4>4 DEF HDR
      <4>7. SeqSent = k /\ SeqSent' = k + n
        <5>1. Len(R') = HDR + Sent' /\ Sent' \in Nat
          <6>1. Len(R') >= HDR
            BY <4>4, <4>5, <4>6
          <6> QED
            BY <2>3, <6>1
        <5>2. Sent' = k + n
          <6> HIDE DEF k
          <6> QED
            BY <4>5, <4>6, <5>1
        <5> QED
          BY <2>2, <3>3, <5>2 DEF SeqSent
      <4> HIDE DEF k
      <4>8. \A i \in 1 .. k : R'[HDR + i] = R[HDR + i]
        <5> TAKE i \in 1 .. k
        <5>1. HDR + i \in 1 .. Len(R)
          BY <4>6
        <5> QED
          BY <4>5, <5>1
      <4>9. \A i \in 1 .. n : R'[HDR + (k + i)] = (next_n + i - 1) % (SEQ_MAX + 1)
        <5> TAKE i \in 1 .. n
        <5>1. Len(R) + i = HDR + (k + i)
          BY <4>6
        <5>2. R'[Len(R) + i] = (next_n + i - 1) % (SEQ_MAX + 1)
          BY <4>5
        <5> QED
          BY <5>1, <5>2
      <4>10. SeqAt(s)'
        BY <1>1, <2>1, <4>5, <4>6, <4>7, <4>8, <4>9, SeqAdvances
      <4>11. R'[7] = h_req'.p2
        <5>1. Len(R) > 0 /\ 7 \in 1 .. Len(R)
          BY <4>4 DEF HDR
        <5>2. R[7] = h_req.p2
          BY <2>2, <3>3, <5>1 DEF SeqInv
        <5> QED
          BY <1>1, <4>5, <5>1, <5>2
      <4> QED
        BY <2>2, <4>10, <4>11 DEF SeqInv
    <3> QED
      BY <3>2, <3>3
  <2>7. ASSUME NEW p, NEW in, AskBegins(p, in)
        PROVE  SeqInv'
    <3>1. /\ p \in Header /\ p.op < api_op_resp /\ p.op = h_req.op /\ p.ep = h_req.ep
          /\ p.p2 = h_req.p2 /\ Len(R) = 0 /\ current_op(p) = p.op
      BY <2>7, OpCases DEF AskBegins, AsksFor
    <3>2. CASE ~Asked(api_op_str_rd, API_EP_SEQ)
      <4>1. next_n' = next_n
        <5>1. CASE UNCHANGED epVars
          BY <5>1 DEF epVars
        <5>2. CASE Callback(p, in, TRUE)
          BY <3>1, <3>2, <5>2, OtherEndpoints DEF Asked
        <5> QED
          BY <1>1, <2>7, <5>1, <5>2, AskTakes
      <4> QED
        BY <2>4, <3>2, <4>1
    <3>3. CASE Asked(api_op_str_rd, API_EP_SEQ)
      <4>1. p.op = api_op_str_rd /\ p.ep = API_EP_SEQ
        BY <3>1, <3>3 DEF Asked
      <4>2. Verdict(h_req) = 0
        <5>1. h_req.data # << >> => Verdict(h_req) = 0
          BY <1>1, PlainFacts, RequestFacts
        <5>2. h_req.op = api_op_str_rd /\ h_req.ep = API_EP_SEQ
          BY <3>3 DEF Asked
        <5>3. h_req.data = << >> => Verdict(h_req) = 0
          BY <5>2, EpOpsFacts DEF Verdict, is_data_write_op, api_op_str_rd, api_op_buf_rd,
                                  api_op_buf_wr, api_op_str_wr
        <5> QED
          BY <5>1, <5>3
      <4>3. api_str_seq_rd(p, TRUE)
        <5>1. API_EP_SEQ # API_EP_ECHO
          BY DEF API_EP_SEQ, API_EP_ECHO
        <5>2. Callback(p, in, TRUE)
          BY <1>1, <2>7, <4>2, AskTakes
        <5> QED
          BY <3>1, <4>1, <5>1, <5>2, StreamReadCalled
      <4>4. p.p2 > 0
        <5>1. ~(h_req.op = api_op_str_rd /\ h_req.ep = API_EP_SEQ /\ h_req.p2 = 0)
          BY <1>1, PlainFacts
        <5>2. p.p2 \in Nat
          BY <3>1 DEF Header
        <5> QED
          BY <3>1, <3>3, <5>1, <5>2 DEF Asked
      <4>5. PICK n \in Nat :
              /\ Len(R') = HDR + n /\ R'[7] = p.p2
              /\ next_n' = (next_n + n) % (SEQ_MAX + 1)
              /\ \A i \in 1 .. n : R'[HDR + i] = (next_n + i - 1) % (SEQ_MAX + 1)
        BY <1>1, <3>1, <4>1, <4>3, <4>4, SeqFirst
      <4>6. SeqSent = 0 /\ SeqSent' = n
        <5>1. Sent = 0
          BY <2>3, <3>1 DEF HDR
        <5>2. Sent' = n
          <6>1. Len(R') >= HDR /\ HDR \in Nat
            BY <4>5 DEF HDR
          <6>2. Len(R') = HDR + Sent' /\ Sent' \in Nat
            BY <2>3, <6>1
          <6>3. Len(R') = HDR + n
            BY <4>5
          <6> QED
            BY <6>1, <6>2, <6>3
        <5> QED
          BY <2>2, <3>3, <5>1, <5>2 DEF SeqSent
      <4>7. SeqAt(s)'
        <5>1. /\ SeqSent \in Nat /\ SeqSent' = SeqSent + n
              /\ \A i \in 1 .. SeqSent : R'[HDR + i] = R[HDR + i]
              /\ \A i \in 1 .. n : SeqSent + i = i
          BY <4>6
        <5>2. \A i \in 1 .. n : R'[HDR + (SeqSent + i)] = (next_n + i - 1) % (SEQ_MAX + 1)
          BY <4>5, <5>1
        <5> QED
          BY <1>1, <2>1, <4>5, <5>1, <5>2, SeqAdvances
      <4> QED
        BY <1>1, <2>2, <3>1, <4>5, <4>7 DEF SeqInv
    <3> QED
      BY <3>2, <3>3
  <2> QED
    BY <1>5, <2>5, <2>6, <2>7, AskStep
<1> QED
  BY <1>2, <1>3, <1>4, <1>5

LEMMA NextSeqInv ==
  ASSUME ApiInv, ApiInv', Follows, SeqInv, [Next]_vars
  PROVE  SeqInv'
<1>1. /\ DevType /\ HostType /\ DevType' /\ HostType' /\ next_n \in Nat
  BY DEF ApiInv, DevInv, DevType, HostInv
<1>2. CASE Quiet
  <2>1. /\ h_req' = h_req /\ known' = known /\ next_n' = next_n
        /\ h_state \notin Over /\ (Begun' <=> Begun) /\ (Begun => R' = R)
        /\ Asked(api_op_str_rd, API_EP_SEQ)' = Asked(api_op_str_rd, API_EP_SEQ)
    BY <1>2 DEF Quiet, epVars, Asked
  <2>2. Sent' = Sent
    BY <2>1 DEF Sent
  <2>3. SeqSent' = SeqSent /\ (SeqSent = 0 \/ R' = R)
    <3>1. ~Begun => Sent = 0
      BY <1>1, SentFacts
    <3> QED
      BY <2>1, <2>2, <3>1 DEF SeqSent
  <2>4. PICK s \in Nat : SeqAt(s)
    BY <2>1 DEF SeqInv
  <2>5. SeqAt(s)'
    BY <2>1, <2>3, <2>4, SeqRests
  <2> QED
    BY <2>1, <2>5 DEF SeqInv
<1>3. CASE Ends
  BY <1>3 DEF Ends, SeqInv, Begun, Over, Asking
<1>4. CASE Open \/ Ask
  <2>1. /\ next_n' = next_n /\ (Ask => known' = known /\ h_state \in {"flushed", "ready"})
        /\ ~Begun' \/ Len(R') = 0
    <3>3. Ask => ~Open
      BY AskFresh DEF Open, Over
    <3>1. CASE Open
      <4>1. next_n' = next_n /\ ~Begun'
        BY <3>1 DEF Open, devVars, epVars, Begun, Asking
      <4> QED
        BY <3>1, <3>3, <4>1
    <3>2. CASE Ask
      BY <3>2, AskFresh DEF epVars
    <3> QED
      BY <1>4, <3>1, <3>2, <3>3
  <2>2. SeqSent' = 0
    BY <2>1 DEF SeqSent, Sent, HDR
  <2>3. \E s \in Nat : SeqAt(s)'
    <3>1. CASE Open
      <4>1. known'.next = NONE
        BY <3>1 DEF Open, KnowsNothing
      <4>2. PICK s \in Nat : s = next_n
        BY <1>1
      <4>3. s + 0 = s
        OBVIOUS
      <4> QED
        BY <2>1, <2>2, <4>1, <4>2, <4>3 DEF SeqAt
    <3>2. CASE Ask
      <4>1. PICK s \in Nat : SeqAt(s)
        BY <2>1, <3>2 DEF SeqInv, Over
      <4>2. SeqSent = 0
        <5>1. ~Begun
          BY <3>2, AskFresh
        <5> QED
          BY <5>1 DEF SeqSent, Sent
      <4> QED
        BY <2>1, <2>2, <3>2, <4>1, <4>2, SeqRests
    <3> QED
      BY <1>4, <3>1, <3>2
  <2>4. Begun' /\ Len(R') > 0 => FALSE
    BY <2>1
  <2> QED
    BY <2>3, <2>4 DEF SeqInv
<1>5. CASE Use
  <2> DEFINE m == SEQ_MAX + 1
  <2>1. /\ h_state = "answered" /\ h_state' = "ready" /\ next_n' = next_n
    BY <1>5 DEF Use, devVars, epVars
  <2>2. ~Begun' /\ SeqSent' = 0
    BY <2>1 DEF Begun, Asking, SeqSent, Sent
  <2>3. PICK s \in Nat : SeqAt(s)
    BY <2>1 DEF SeqInv, Over
  <2>4. m \in Nat /\ m > 0
    BY DeviceAssumption DEF Byte, ALL_ONES, api_op_resp
  <2>5. PICK t \in Nat : t = next_n
    BY <1>1
  <2>6. known'.next # NONE => known'.next = t % m
    <3>1. known'.next =
            IF Asked(api_op_str_rd, API_EP_SEQ) /\ payload # << >>
            THEN (payload[Len(payload)] + 1) % m ELSE known.next
      BY <1>5, UseKnown
    <3>2. /\ payload \in Seq(Nat) /\ Len(payload) = Sent
          /\ \A i \in 1 .. Sent : payload[i] = R[HDR + i]
      BY <2>1, AnswerRead
    <3>3. CASE Asked(api_op_str_rd, API_EP_SEQ) /\ payload # << >>
      <4> DEFINE k == Len(payload)
      <4>1. k \in Nat /\ k > 0 /\ k \in 1 .. k /\ k - 1 \in Nat
        BY <3>2, <3>3, EmptySeq
      <4>2. SeqSent = k
        BY <3>2, <3>3 DEF SeqSent
      <4>3. payload[k] = (s + (k - 1)) % m
        <5>1. payload[k] = R[HDR + k]
          BY <3>2, <4>1
        <5>2. R[HDR + k] = (s + (k - 1)) % m
          <6> HIDE DEF k
          <6> QED
            BY <2>3, <4>1, <4>2 DEF SeqAt
        <5> QED
          BY <5>1, <5>2
      <4>4. next_n % m = (s + k) % m
        BY <2>3, <4>2 DEF SeqAt
      <4>5. known'.next = (payload[k] + 1) % m
        BY <3>1, <3>3
      <4> HIDE DEF k, m
      <4>6. (((s + (k - 1)) % m) + 1) % m = (s + k) % m
        <5>1. s + (k - 1) \in Nat /\ (s + (k - 1)) + 1 = s + k
          BY <4>1
        <5> QED
          BY <2>4, <5>1, ModSum
      <4> QED
        BY <2>5, <4>3, <4>4, <4>5, <4>6
    <3>4. CASE ~(Asked(api_op_str_rd, API_EP_SEQ) /\ payload # << >>)
      <4>1. known'.next = known.next
        BY <3>1, <3>4
      <4>2. SeqSent = 0
        <5>1. payload = << >> => Len(payload) = 0
          OBVIOUS
        <5> QED
          BY <3>2, <3>4, <5>1 DEF SeqSent
      <4>3. s + 0 = s
        OBVIOUS
      <4> QED
        BY <2>3, <2>5, <4>1, <4>2, <4>3 DEF SeqAt
    <3> QED
      BY <3>3, <3>4
  <2>7. SeqAt(t)'
    <3>1. t + 0 = t
      OBVIOUS
    <3> QED
      BY <2>1, <2>2, <2>5, <2>6, <3>1 DEF SeqAt
  <2> QED
    BY <2>2, <2>7 DEF SeqInv
<1> QED
  BY <1>2, <1>3, <1>4, <1>5, SeqDevice, HostSteps

LEMMA InitContent ==
  ASSUME Init
  PROVE  Follows /\ SeqInv
<1>1. h_state = "closed" /\ known = KnowsNothing
  BY DEF Init
<1> QED
  BY <1>1 DEF Follows, SeqInv, KnowsNothing, Over, Begun, Asking

LEMMA SeqHolds ==
  ASSUME ApiInv, Follows, SeqInv
  PROVE  SequenceOK
<1> SUFFICES ASSUME h_state = "answered", Asked(api_op_str_rd, API_EP_SEQ)
             PROVE  /\ Len(payload) = h_req.p2
                    /\ \A i \in 1 .. Len(payload) - 1 :
                         payload[i + 1] = (payload[i] + 1) % (SEQ_MAX + 1)
                    /\ known.next # NONE /\ payload # << >> => payload[1] = known.next
  BY DEF SequenceOK
<1> DEFINE m == SEQ_MAX + 1
<1>1. /\ Begun /\ R = h_in /\ h_in \in Seq(Nat) /\ Len(h_in) >= HDR
      /\ payload \in Seq(Nat) /\ Len(payload) = Sent /\ Sent = h_in[7]
      /\ \A i \in 1 .. Sent : payload[i] = R[HDR + i]
  BY AnswerRead
<1>2. PICK s \in Nat : SeqAt(s)
  BY DEF SeqInv, Over
<1>3. SeqSent = Sent
  BY DEF SeqSent
<1>4. /\ known.next # NONE => known.next = s % m
      /\ \A i \in 1 .. Sent : payload[i] = (s + (i - 1)) % m
  BY <1>1, <1>2, <1>3 DEF SeqAt
<1>5. Len(payload) = h_req.p2
  <2>1. Len(R) > 0
    BY <1>1 DEF HDR
  <2> QED
    BY <1>1, <2>1 DEF SeqInv
<1>6. m \in Nat /\ m > 0
  BY DeviceAssumption DEF Byte, ALL_ONES, api_op_resp
<1>7. Sent \in Nat
  BY <1>1
<1> HIDE DEF m
<1>8. ASSUME NEW i \in 1 .. Sent - 1
      PROVE  payload[i + 1] = (payload[i] + 1) % m
  <2>1. /\ i \in 1 .. Sent /\ i + 1 \in 1 .. Sent /\ (i + 1) - 1 = i
        /\ s + (i - 1) \in Nat /\ (s + (i - 1)) + 1 = s + i
    BY <1>7
  <2>2. payload[i + 1] = (s + i) % m /\ payload[i] = (s + (i - 1)) % m
    BY <1>4, <2>1
  <2>3. (((s + (i - 1)) % m) + 1) % m = ((s + (i - 1)) + 1) % m
    <3>1. s + (i - 1) \in Nat /\ 1 \in Nat /\ m \in Nat /\ m > 0
      BY <1>6, <2>1
    <3> QED
      BY <3>1, ModSum, Zenon
  <2> QED
    BY <2>1, <2>2, <2>3
<1>9. known.next # NONE /\ payload # << >> => payload[1] = known.next
  <2> SUFFICES ASSUME known.next # NONE, payload # << >>
               PROVE  payload[1] = known.next
    OBVIOUS
  <2>1. 1 \in 1 .. Sent
    BY <1>1, EmptySeq
  <2>2. payload[1] = (s + (1 - 1)) % m
    BY <1>4, <2>1
  <2>3. s + (1 - 1) = s
    OBVIOUS
  <2> QED
    BY <1>4, <2>2, <2>3
<1> QED
  BY <1>1, <1>5, <1>8, <1>9 DEF m

(* An answer begins with its header, and goes on with pieces of src: what  *)
(* Send adds to it, as the program will read it.                           *)
Copies(s, at, src, off, n) == \A i \in 1 .. n : s[at + i] = src[off + i]

LEMMA ResponseParameter ==
  ASSUME NEW p \in Header, NEW n \in Nat
  PROVE  Response(p, n)[5] = p.p1 /\ Response(p, n)[7] = n
<1> DEFINE q == [p EXCEPT !.op = current_op(p) + api_op_resp, !.data_len = n]
<1>1. q.p1 = p.p1 /\ q.data_len = n
  BY DEF Header
<1>2. Response(p, n) = Bytes(q)
  BY DEF Response
<1> HIDE DEF q
<1> QED
  BY <1>1, <1>2 DEF Bytes

LEMMA SentFirst ==
  ASSUME DevInv, HostType, UNCHANGED <<h_queue, hostVars>>, HasRoom, Len(R) = 0,
         NEW p \in Header, NEW src \in Seq(Nat), NEW off \in Nat, NEW len \in Nat,
         off + len <= Len(src), Send(p, TRUE, src, off, len)
  PROVE  \E n \in 0 .. len :
           /\ n = Fits(TRUE, len) /\ ctx' = [off |-> off + n, len |-> len - n]
           /\ Len(R') = HDR + n /\ R'[5] = p.p1 /\ R'[7] = len
           /\ Copies(R', HDR, src, off, n)
<1>1. DevType /\ Len(down) <= DOWN_SIZE
  BY DEF DevInv
<1>2. PICK n \in 0 .. len, a \in Seq(Nat) :
           /\ n = Fits(TRUE, len)
           /\ down' = down \o a /\ down' \in Seq(Nat) /\ Len(down') <= DOWN_SIZE
           /\ Len(a) = HDR + n
           /\ \A i \in 1 .. HDR : a[i] = Response(p, len)[i]
           /\ \A i \in 1 .. n : a[HDR + i] = src[off + i]
           /\ ctx' = [off |-> off + n, len |-> len - n]
           /\ \/ n = len /\ state' = "idle" /\ pkt_buf' = << >>
              \/ n < len /\ state' = "responding" /\ pkt_buf' = Response(p, len)
  BY <1>1, SendFirst
<1>3. R' = a
  <2>1. R' = R \o a /\ R \in Seq(Nat)
    BY <1>1, <1>2, AnswerGrows, QType
  <2>2. R = << >>
    BY <2>1, EmptySeq
  <2> QED
    BY <2>1, <2>2, ConcatEmptySeq
<1>4. a[5] = p.p1 /\ a[7] = len
  <2>1. a[5] = Response(p, len)[5] /\ a[7] = Response(p, len)[7]
    <3>1. \A i \in 1 .. HDR : a[i] = Response(p, len)[i]
      BY <1>2
    <3>2. 5 \in 1 .. HDR /\ 7 \in 1 .. HDR
      BY DEF HDR
    <3> QED
      BY <3>1, <3>2
  <2> QED
    BY <2>1, ResponseParameter
<1>5. Copies(R', HDR, src, off, n)
  BY <1>2, <1>3 DEF Copies
<1> QED
  BY <1>2, <1>3, <1>4, <1>5

LEMMA SentMore ==
  ASSUME DevInv, HostType, UNCHANGED <<h_queue, hostVars>>, HasRoom,
         NEW p, NEW src \in Seq(Nat), NEW off \in Nat, NEW len \in Nat,
         off + len <= Len(src), Send(p, FALSE, src, off, len)
  PROVE  \E n \in 0 .. len :
           /\ n = Fits(FALSE, len) /\ ctx' = [off |-> off + n, len |-> len - n]
           /\ Len(R') = Len(R) + n
           /\ Copies(R', 0, R, 0, Len(R)) /\ Copies(R', Len(R), src, off, n)
<1>1. DevType /\ Len(down) <= DOWN_SIZE
  BY DEF DevInv
<1>2. PICK n \in 0 .. len, a \in Seq(Nat) :
           /\ n = Fits(FALSE, len)
           /\ down' = down \o a /\ down' \in Seq(Nat) /\ Len(down') <= DOWN_SIZE
           /\ Len(a) = n
           /\ \A i \in 1 .. n : a[i] = src[off + i]
           /\ ctx' = [off |-> off + n, len |-> len - n]
           /\ \/ n = len /\ state' = "idle" /\ pkt_buf' = << >>
              \/ n < len /\ state' = "responding" /\ pkt_buf' = Bytes(p)
  BY <1>1, SendMore
<1>3. R' = R \o a /\ R \in Seq(Nat)
  BY <1>1, <1>2, AnswerGrows, QType
<1>4. /\ Len(R') = Len(R) + Len(a)
      /\ \A i \in 1 .. Len(R) : R'[i] = R[i]
      /\ \A i \in 1 .. Len(a) : R'[Len(R) + i] = a[i]
  BY <1>3, ConcatFacts
<1>5. Copies(R', 0, R, 0, Len(R))
  BY <1>3, <1>4 DEF Copies
<1>6. Copies(R', Len(R), src, off, n)
  <2>1. Len(a) = n /\ \A i \in 1 .. n : a[i] = src[off + i]
    BY <1>2, Zenon
  <2>2. \A i \in 1 .. n : R'[Len(R) + i] = src[off + i]
    BY <1>4, <2>1
  <2> QED
    BY <2>2 DEF Copies
<1> QED
  BY <1>2, <1>4, <1>5, <1>6

(* What has been sent of an answer, one call after another, is a piece of  *)
(* one sequence.                                                           *)
LEMMA PiecesJoin ==
  ASSUME NEW old, NEW new, NEW src, NEW off \in Nat, NEW k \in Nat, NEW n \in Nat,
         NEW l \in Nat, l = HDR + k, Copies(old, HDR, src, off, k),
         Copies(new, 0, old, 0, l), Copies(new, l, src, off + k, n)
  PROVE  Copies(new, HDR, src, off, k + n)
<1>1. HDR = 7
  BY DEF HDR
<1>2. \A i \in 1 .. l : new[i] = old[i]
  BY DEF Copies
<1> SUFFICES ASSUME NEW i \in 1 .. k + n
             PROVE  new[HDR + i] = src[off + i]
  BY DEF Copies
<1>3. CASE i <= k
  <2>1. HDR + i \in 1 .. l /\ i \in 1 .. k
    BY <1>1, <1>3
  <2> QED
    BY <1>2, <2>1 DEF Copies
<1>4. CASE i > k
  <2> DEFINE j == i - k
  <2>1. j \in 1 .. n /\ l + j = HDR + i /\ (off + k) + j = off + i
    BY <1>1, <1>4
  <2> HIDE DEF j
  <2>2. new[l + j] = src[(off + k) + j]
    BY <2>1 DEF Copies
  <2> QED
    BY <2>1, <2>2
<1> QED
  BY <1>3, <1>4

(* Buffers: what is sent of one, what is stored in the application's, and  *)
(* what the program knows of it.                                           *)
BufReads  == Begun /\ h_req.op = api_op_buf_rd /\ Verdict(h_req) = 0
BufWrites == Begun /\ Asked(api_op_buf_wr, API_EP_APP) /\ Verdict(h_req) = 0

BufSent ==
  BufReads =>
    /\ Copies(R, HDR, Buf(h_req.ep), h_req.p1, Sent)
    /\ state = "responding" => ctx.off = h_req.p1 + Sent

BufHas(k) == \A i \in 1 .. k : app_buf[h_req.p1 + i] = h_req.data[i]

BufStored ==
  BufWrites =>
    /\ state = "processing" =>
         /\ ctx.len <= h_req.p2 /\ ctx.off = h_req.p1 + (h_req.p2 - ctx.len)
         /\ Q = Drop(h_req.data, h_req.p2 - ctx.len)
         /\ BufHas(h_req.p2 - ctx.len)
    /\ Len(R) > 0 => BufHas(h_req.p2)

BufKnown ==
  h_state \notin Over =>
    \A i \in 1 .. APP_SZ :
      known.app[i] # NONE =>
        known.app[i] = app_buf[i] \/ (BufWrites /\ i \in Region(h_req))

BufInv == BufSent /\ BufStored /\ BufKnown

(* Of a request that is in order. *)
LEMMA GoodVerdict ==
  ASSUME HostType, Verdict(h_req) = 0
  PROVE  /\ h_req.ep \in DOMAIN EpOps
         /\ h_req.op \in {api_op_buf_rd, api_op_buf_wr} => h_req.p1 + h_req.p2 <= buf_sz(h_req.ep)
         /\ h_req.op = api_op_buf_rd => h_req.ep \in {API_EP_SYS, API_EP_APP}
         /\ h_req.op = api_op_buf_wr =>
              h_req.ep = API_EP_APP /\ h_req.p2 = Len(h_req.data) /\ buf_sz(h_req.ep) = APP_SZ
<1>1. ~(is_data_write_op(h_req.op) # (h_req.data # << >>))
  BY DEF Verdict, api_fl_err_sz
<1>2. h_req.ep \in DOMAIN EpOps
  BY <1>1 DEF Verdict, api_fl_err_ep
<1>3. h_req.op \in EpOps[h_req.ep]
  BY <1>1, <1>2 DEF Verdict, api_fl_err_op
<1>4. h_req.op \in {api_op_buf_rd, api_op_buf_wr} => ~(h_req.p1 + h_req.p2 > buf_sz(h_req.ep))
  BY <1>1, <1>2, <1>3 DEF Verdict, api_fl_err_sz
<1>5. h_req.op = api_op_buf_wr => h_req.p2 = Len(h_req.data)
  BY <1>1, <1>2, <1>3, <1>4 DEF Verdict, api_fl_err_sz
<1>6. /\ h_req.op = api_op_buf_rd => h_req.ep \in {API_EP_SYS, API_EP_APP}
      /\ h_req.op = api_op_buf_wr => h_req.ep = API_EP_APP
  BY <1>2, <1>3, EpOpsFacts DEF api_op_buf_rd, api_op_buf_wr, api_op_info, api_op_str_rd,
                                api_op_str_wr
<1>7. buf_sz(API_EP_APP) = APP_SZ
  BY DEF buf_sz, API_EP_SYS, API_EP_APP, API_EP_SEQ, API_EP_ECHO
<1>8. h_req.op \in {api_op_buf_rd, api_op_buf_wr} => h_req.p1 + h_req.p2 <= buf_sz(h_req.ep)
  <2> SUFFICES ASSUME h_req.op \in {api_op_buf_rd, api_op_buf_wr}
               PROVE  h_req.p1 + h_req.p2 <= buf_sz(h_req.ep)
    OBVIOUS
  <2>1. h_req.ep \in {API_EP_SYS, API_EP_APP}
    BY <1>6
  <2>2. buf_sz(h_req.ep) \in {Len(SYS_DESCR), APP_SZ}
    BY <2>1 DEF buf_sz, API_EP_SYS, API_EP_APP, API_EP_SEQ, API_EP_ECHO
  <2>3. Len(SYS_DESCR) \in Nat /\ APP_SZ \in Nat
    BY DeviceAssumption
  <2>4. h_req.p1 \in Nat /\ h_req.p2 \in Nat
    BY RequestFacts DEF HostType
  <2>5. buf_sz(h_req.ep) \in Nat
    BY <2>2, <2>3
  <2> QED
    BY <1>4, <2>4, <2>5
<1> QED
  BY <1>2, <1>5, <1>6, <1>7, <1>8

(* A call stores the next bytes of the payload.                            *)
(* A part of what is asked for lies where all of it does. *)
LEMMA InRegion ==
  ASSUME NEW p \in Nat, NEW k \in Nat, NEW n \in Nat, NEW q \in Nat, NEW z \in Nat,
         k + n <= q, p + q <= z
  PROVE  \A i \in 1 .. k + n : p + i \in 1 .. z
OBVIOUS

LEMMA BufFills ==
  ASSUME DevType, HostType, UNCHANGED <<h_queue, hostVars>>, Len(R) = 0,
         h_req.p2 = Len(h_req.data), h_req.p1 + h_req.p2 <= APP_SZ,
         NEW p \in Header, NEW in \in Seq(Nat), NEW k \in Nat, NEW len \in Nat,
         k + len = h_req.p2, in \o h_out = Drop(h_req.data, k), BufHas(k),
         Fill(p, in, h_req.p1 + k, len)
  PROVE  /\ \E n \in Nat :
              /\ n <= len /\ k + n <= h_req.p2
              /\ ctx' = [off |-> (h_req.p1 + k) + n, len |-> len - n]
              /\ Q' = Drop(h_req.data, k + n)
              /\ BufHas(k + n)'
              /\ state' = "processing" => R' = R
              /\ state' # "processing" => n = len
         /\ \A i \in 1 .. APP_SZ : i \notin Region(h_req) => app_buf'[i] = app_buf[i]
<1> DEFINE d == h_req.data
           off == h_req.p1 + k
<1>1. /\ d \in Seq(Nat) /\ Len(d) \in Nat /\ h_req.p1 \in Nat /\ h_req.p2 \in Nat
      /\ h_req' = h_req /\ APP_SZ \in Nat /\ h_out \in Seq(Nat)
  BY RequestFacts, DeviceAssumption DEF HostType, hostVars
<1>2. off \in Nat /\ off + len <= APP_SZ
  BY <1>1
<1>3. Fill(p, in, off, len)
  OBVIOUS
<1> HIDE DEF off
<1>4. PICK n \in 0 .. len :
           /\ n <= Len(in) /\ (in # << >> /\ len > 0 => n > 0)
           /\ up' = Drop(in, n) /\ up' \in Seq(Nat)
           /\ app_buf' = Placed(in, off, n) /\ app_buf' \in [1 .. APP_SZ -> Nat]
           /\ ctx' = [off |-> off + n, len |-> len - n]
           /\ ctx' \in [off : Nat, len : Nat]
           /\ UNCHANGED <<echo, next_n, halted>>
           /\ \/ n = len /\ down' = down \o Response(p, 0)
                 /\ state' = "idle" /\ pkt_buf' = << >>
              \/ n < len /\ down' = down /\ state' = "processing" /\ pkt_buf' = Bytes(p)
  BY <1>2, <1>3, FillFacts
<1>5. n \in Nat /\ n <= len /\ k + n <= h_req.p2 /\ k <= Len(d) /\ k + n <= Len(d)
  BY <1>1
<1>6. Q' = Drop(d, k + n)
  <2>1. Q' = Drop(in \o h_out, n)
    <3>1. state' = "idle" => pkt_buf' = << >>
      BY <1>4
    <3>2. UNCHANGED h_out
      BY DEF hostVars
    <3> QED
      BY <1>4, <1>5, <3>1, <3>2, TakenFromFront
  <2>2. Drop(Drop(d, k), n) = Drop(d, k + n)
    BY <1>1, <1>5, DropDrop
  <2> QED
    BY <2>1, <2>2
<1>7. \A i \in 1 .. n : in[i] = d[k + i]
  <2> TAKE i \in 1 .. n
  <2>1. (in \o h_out)[i] = in[i]
    <3>1. i \in 1 .. Len(in)
      BY <1>4
    <3> QED
      BY <1>1, <3>1, ConcatFacts
  <2>2. Drop(d, k)[i] = d[k + i]
    <3>1. i \in 1 .. Len(d) - k
      BY <1>1, <1>5
    <3> QED
      BY <1>1, <1>5, <3>1, DropFacts
  <2> QED
    BY <2>1, <2>2
<1>8. \A i \in 1 .. APP_SZ : app_buf'[i] = IF i \in off + 1 .. off + n THEN in[i - off] ELSE app_buf[i]
  <2>1. off \in Nat /\ n \in Nat /\ off + n <= APP_SZ
    BY <1>1, <1>2, <1>5
  <2>2. Placed(in, off, n) = Overlaid(in, off, n)
    BY <2>1, PlacedInside, Zenon
  <2>3. app_buf' = Overlaid(in, off, n)
    BY <1>4, <2>2
  <2> QED
    BY <2>3 DEF Overlaid
<1>9. \A i \in 1 .. k + n : h_req.p1 + i \in 1 .. APP_SZ
  <2>1. /\ h_req.p1 \in Nat /\ k \in Nat /\ n \in Nat /\ h_req.p2 \in Nat /\ APP_SZ \in Nat
        /\ k + n <= h_req.p2 /\ h_req.p1 + h_req.p2 <= APP_SZ
    BY <1>1, <1>5, Zenon
  <2> QED
    BY <2>1, InRegion, Zenon
<1>10. \A i \in 1 .. k + n : app_buf'[h_req.p1 + i] = d[i]
  <2> TAKE i \in 1 .. k + n
  <2> DEFINE x == h_req.p1 + i
  <2>1. x \in 1 .. APP_SZ /\ x = h_req.p1 + i
    BY <1>9, Zenon
  <2> HIDE DEF x
  <2>2. CASE i <= k
    <3>1. x \notin off + 1 .. off + n /\ i \in 1 .. k
      BY <1>1, <2>1, <2>2 DEF off
    <3>2. app_buf[x] = d[i]
      BY <2>1, <3>1 DEF BufHas
    <3> QED
      BY <1>8, <2>1, <3>1, <3>2
  <2>3. CASE i > k
    <3>1. x \in off + 1 .. off + n /\ x - off = i - k /\ i - k \in 1 .. n /\ k + (i - k) = i
      <4>1. \A b \in Nat : /\ b + i \in (b + k) + 1 .. (b + k) + n /\ (b + i) - (b + k) = i - k
                          /\ i - k \in 1 .. n /\ k + (i - k) = i
        BY <1>5, <2>3
      <4> QED
        BY <1>1, <2>1, <4>1 DEF off
    <3>2. in[x - off] = d[i]
      BY <1>7, <3>1
    <3> QED
      BY <1>8, <2>1, <3>1, <3>2
  <2> QED
    BY <2>2, <2>3
<1>11. BufHas(k + n)'
  BY <1>1, <1>10 DEF BufHas
<1>12. \A i \in 1 .. APP_SZ : i \notin Region(h_req) => app_buf'[i] = app_buf[i]
  <2> TAKE i \in 1 .. APP_SZ
  <2>1. i \in off + 1 .. off + n => i \in h_req.p1 + 1 .. h_req.p1 + h_req.p2
    <3> DEFINE first == h_req.p1
               asked == h_req.p2
    <3>1. first \in Nat /\ asked \in Nat /\ k + n <= asked
      BY <1>1, <1>5, Zenon
    <3> HIDE DEF first, asked
    <3>2. i \in (first + k) + 1 .. (first + k) + n => i \in first + 1 .. first + asked
      BY <1>5, <3>1
    <3> QED
      BY <3>2, Zenon DEF off, first, asked
  <2> QED
    BY <1>8, <2>1 DEF Region
<1>13. state' = "processing" => R' = R
  <2>1. state' = "processing" => down' = down
    BY <1>4
  <2> QED
    BY <2>1, AnswerStays
<1>14. state' # "processing" => n = len
  BY <1>4
<1> QED
  BY <1>4, <1>5, <1>6, <1>11, <1>12, <1>13, <1>14 DEF off

LEMMA BufWritten ==
  ASSUME DevType, HostType, UNCHANGED <<h_queue, hostVars>>, Len(R) = 0,
         h_req.p2 = Len(h_req.data), h_req.p1 + h_req.p2 <= APP_SZ,
         NEW p \in Header, NEW in \in Seq(Nat), NEW k \in Nat, NEW len \in Nat,
         k + len = h_req.p2, in \o h_out = Drop(h_req.data, k), BufHas(k),
         Fill(p, in, h_req.p1 + k, len), BufKnown, BufWrites, BufWrites'
  PROVE  BufStored' /\ BufKnown'
<1>1a. /\ \E n \in Nat :
              /\ n <= len /\ k + n <= h_req.p2
              /\ ctx' = [off |-> (h_req.p1 + k) + n, len |-> len - n]
              /\ Q' = Drop(h_req.data, k + n)
              /\ BufHas(k + n)'
              /\ state' = "processing" => R' = R
              /\ state' # "processing" => n = len
       /\ \A i \in 1 .. APP_SZ : i \notin Region(h_req) => app_buf'[i] = app_buf[i]
  BY BufFills
<1>1. PICK n \in Nat :
        /\ n <= len /\ k + n <= h_req.p2
        /\ ctx' = [off |-> (h_req.p1 + k) + n, len |-> len - n]
        /\ Q' = Drop(h_req.data, k + n)
        /\ BufHas(k + n)'
        /\ state' = "processing" => R' = R
        /\ state' # "processing" => n = len
  BY <1>1a
<1>2. \A i \in 1 .. APP_SZ : i \notin Region(h_req) => app_buf'[i] = app_buf[i]
  BY <1>1a
<1>3. /\ h_req' = h_req /\ known' = known /\ h_state' = h_state
      /\ h_req.p1 \in Nat /\ h_req.p2 \in Nat
  BY RequestFacts DEF HostType, hostVars
<1>4. BufKnown'
  <2>1. Region(h_req)' = Region(h_req)
    BY <1>3 DEF Region
  <2> QED
    BY <1>2, <1>3, <2>1 DEF BufKnown
<1>5. /\ ctx'.len = len - n /\ ctx'.off = (h_req.p1 + k) + n
      /\ ctx'.len <= h_req.p2 /\ h_req.p2 - ctx'.len = k + n
      /\ ctx'.off = h_req.p1 + (k + n)
  <2>1. ctx'.len = len - n /\ ctx'.off = (h_req.p1 + k) + n
    BY <1>1
  <2>2. h_req.p2 = k + len /\ n <= len
    BY <1>1
  <2>3. \A b \in Nat : (b + k) + n = b + (k + n)
    OBVIOUS
  <2>4. len - n <= k + len /\ (k + len) - (len - n) = k + n
    BY <2>2
  <2> QED
    BY <1>3, <2>1, <2>2, <2>3, <2>4
<1>6. /\ ctx'.len <= h_req'.p2 /\ ctx'.off = h_req'.p1 + (h_req'.p2 - ctx'.len)
      /\ Q' = Drop(h_req.data, h_req.p2 - ctx.len)'
      /\ BufHas(h_req.p2 - ctx.len)'
  <2>1. \A j : j = k + n => BufHas(j)'
    BY <1>1
  <2>2. h_req'.p2 - ctx'.len = k + n
    BY <1>3, <1>5
  <2>3. Drop(h_req.data, h_req.p2 - ctx.len)' = Drop(h_req.data, k + n)
    BY <1>3, <2>2 DEF Drop
  <2>4. BufHas(h_req.p2 - ctx.len)'
    BY <1>1, <2>2 DEF BufHas
  <2> QED
    BY <1>1, <1>3, <1>5, <2>2, <2>3, <2>4
<1>7. Len(R') > 0 => BufHas(h_req.p2)'
  <2>1. CASE state' = "processing"
    BY <1>1, <2>1
  <2>2. CASE state' # "processing"
    <3>1. k + n = h_req'.p2
      BY <1>1, <1>3, <2>2
    <3> QED
      BY <1>1, <3>1 DEF BufHas
  <2> QED
    BY <2>1, <2>2
<1>8. BufStored'
  BY <1>6, <1>7 DEF BufStored
<1> QED
  BY <1>4, <1>8

LEMMA BufRests ==
  ASSUME app_buf' = app_buf, known' = known, h_req' = h_req, h_state' = h_state, BufKnown
  PROVE  BufKnown'
<1>1. (BufWrites' <=> BufWrites) /\ Region(h_req)' = Region(h_req)
  BY DEF BufWrites, Begun, Asked, Verdict, buf_sz, Region
<1> QED
  BY <1>1 DEF BufKnown

(* A step of the device, by the kind of the request: a read, ...           *)
LEMMA BufReadStep ==
  ASSUME ApiInv, ApiInv', Follows, BufInv, Device, h_state \in Asking,
         AskGoesOn \/ \E p, in : AskBegins(p, in), BufReads
  PROVE  BufInv'
<1> DEFINE ep == h_req.ep
           b == Buf(h_req.ep)
<1>1. /\ DevInv /\ DevType /\ HostType /\ HostInv /\ HasRoom
      /\ DevType' /\ HostType' /\ DevInv' /\ ~halted'
      /\ UNCHANGED <<h_queue, hostVars>> /\ UNCHANGED hostVars
      /\ h_state' = h_state /\ h_req' = h_req /\ known' = known
      /\ h_req \in PlainRequests
  BY DEF ApiInv, DevInv, HostInv, HostType, Device, api_process, hostVars
<1>2. /\ Begun /\ Begun' /\ Sent \in Nat /\ Sent' \in Nat
      /\ Len(R) <= HDR => Sent = 0
      /\ Len(R) >= HDR => Len(R) = HDR + Sent
      /\ Len(R') >= HDR => Len(R') = HDR + Sent'
  BY <1>1, SentMeanwhile
<1>3. h_req.op = api_op_buf_rd /\ Verdict(h_req) = 0
  BY DEF BufReads
<1>4. /\ h_req.p1 \in Nat /\ h_req.p2 \in Nat
      /\ ep \in {API_EP_SYS, API_EP_APP} /\ ep \in DOMAIN EpOps
      /\ h_req.p1 + h_req.p2 <= buf_sz(ep)
  BY <1>1, <1>3, RequestFacts, GoodVerdict
<1>5. b \in Seq(Nat) /\ Len(b) = buf_sz(ep)
  BY <1>1, <1>4, EpFacts
<1>6. ASSUME app_buf' = app_buf,
             Copies(R', HDR, b, h_req.p1, Sent'),
             state' = "responding" => ctx'.off = h_req.p1 + Sent'
      PROVE  BufInv'
  <2>1. b' = b
    BY <1>1, <1>6 DEF Buf
  <2>2. BufSent'
    BY <1>1, <1>6, <2>1 DEF BufSent
  <2>3. BufStored'
    BY <1>1, <1>3 DEF BufStored, BufWrites, Asked, api_op_buf_rd, api_op_buf_wr
  <2>4. BufKnown'
    BY <1>1, <1>6, BufRests DEF BufInv
  <2> QED
    BY <2>2, <2>3, <2>4 DEF BufInv
<1>7. CASE AskGoesOn
  <2>1. /\ pkt \in Header /\ Callback(pkt, up, FALSE) /\ state # "idle"
        /\ current_op(pkt) = api_op_buf_rd /\ pkt.ep = ep
    BY <1>3, <1>7 DEF AskGoesOn
  <2>2. api_buf_rd(pkt, FALSE) /\ app_buf' = app_buf
    <3> HIDE DEF pkt
    <3>1. api_buf_rd(pkt, FALSE)
      BY <2>1, BufReadCalled
    <3>2. current_op(pkt) # api_op_buf_wr
      BY <2>1 DEF api_op_buf_rd, api_op_buf_wr
    <3>3. Callback(pkt, up, FALSE)
      BY <2>1
    <3>4. app_buf' = app_buf
      BY <3>2, <3>3, OtherEndpoints
    <3> QED
      BY <3>1, <3>4
  <2>3. state = "responding" /\ RespondingOK
    <3>1. state = "processing" => ProcessingOK
      BY <1>1 DEF DevInv
    <3>2. ProcessingOK => pkt.op \in {api_op_buf_wr, api_op_str_wr}
      BY DEF ProcessingOK
    <3>3. pkt.op \in {api_op_buf_wr, api_op_str_wr} => current_op(pkt) # api_op_buf_rd
      BY DEF current_op, api_op_buf_wr, api_op_str_wr, api_op_buf_rd, api_op_resp
    <3>4. state = "responding"
      BY <1>1, <2>1, <3>1, <3>2, <3>3 DEF DevType
    <3> QED
      BY <1>1, <3>4 DEF DevInv
  <2>4. /\ ctx.len \in Nat /\ ctx.off \in Nat /\ ctx.off + ctx.len <= Len(b)
        /\ Send(pkt, FALSE, b, ctx.off, ctx.len)
    <3>1. ctx.off + ctx.len <= buf_sz(pkt.ep)
      BY <2>1, <2>3 DEF RespondingOK, api_op_info, api_op_buf_rd, api_op_str_rd
    <3>1a. Found(pkt.ep, ctx.off, ctx.len) = {Buf(pkt.ep)}
      BY <3>1 DEF Found
    <3>2. Send(pkt, FALSE, Buf(pkt.ep), ctx.off, ctx.len)
      BY <1>1, <2>2, <3>1a DEF api_buf_rd, BUG
    <3> QED
      BY <1>1, <1>5, <2>1, <3>1, <3>2 DEF DevType
  <2> HIDE DEF pkt, b
  <2>5. \E n \in 0 .. ctx.len :
           /\ n = Fits(FALSE, ctx.len) /\ ctx' = [off |-> ctx.off + n, len |-> ctx.len - n]
           /\ Len(R') = Len(R) + n
           /\ Copies(R', 0, R, 0, Len(R)) /\ Copies(R', Len(R), b, ctx.off, n)
    BY <1>1, <1>5, <2>4, SentMore
  <2>5a. \A n \in 0 .. ctx.len : n \in Nat
    BY <2>4
  <2>6. PICK n \in Nat :
           /\ n = Fits(FALSE, ctx.len) /\ ctx' = [off |-> ctx.off + n, len |-> ctx.len - n]
           /\ Len(R') = Len(R) + n
           /\ Copies(R', 0, R, 0, Len(R)) /\ Copies(R', Len(R), b, ctx.off, n)
    BY <2>5, <2>5a, Zenon
  <2>7. Len(R) >= HDR /\ Len(R) \in Nat
    <3>1. AskAnswered
      BY <1>1, <2>3 DEF HostInv, Asks, AskWaits, AskTaken
    <3> QED
      BY <1>1, <3>1, QType DEF AskAnswered, Answer
  <2> DEFINE k == Sent
  <2>8. Len(R) = HDR + k /\ k \in Nat
    BY <1>2, <2>7
  <2>9. Sent' = k + n
    <3>0. Len(R') = Len(R) + n
      BY <2>6, Zenon
    <3>1. HDR \in Nat /\ Len(R') >= HDR
      BY <2>7, <3>0 DEF HDR
    <3>2. Len(R') = HDR + Sent' /\ Sent' \in Nat
      BY <1>2, <3>1
    <3>3. Len(R') = (HDR + k) + n
      BY <2>6, <2>8
    <3> HIDE DEF k
    <3> QED
      BY <2>8, <3>1, <3>2, <3>3
  <2>10. /\ Copies(R, HDR, b, h_req.p1, k)
         /\ ctx.off = h_req.p1 + k
    BY <2>3 DEF BufInv, BufSent, b
  <2> HIDE DEF k
  <2>11. Copies(R', Len(R), b, h_req.p1 + k, n)
    BY <2>6, <2>10
  <2>12. Copies(R', HDR, b, h_req.p1, k + n)
    <3> DEFINE l   == Len(R)
               old == R
               new == R'
               off == h_req.p1
    <3>1. /\ off \in Nat /\ k \in Nat /\ n \in Nat /\ l \in Nat /\ l = HDR + k
          /\ Copies(old, HDR, b, off, k) /\ Copies(new, 0, old, 0, l)
          /\ Copies(new, l, b, off + k, n)
      BY <1>4, <2>6, <2>7, <2>8, <2>10, <2>11
    <3> HIDE DEF l, old, new, off
    <3>2. Copies(new, HDR, b, off, k + n)
      BY <3>1, PiecesJoin
    <3> QED
      BY <3>2 DEF new, off
  <2>13. ctx'.off = h_req.p1 + (k + n)
    <3>1. ctx'.off = (h_req.p1 + k) + n
      BY <2>6, <2>10
    <3> QED
      BY <1>4, <2>8, <3>1
  <2> QED
    BY <1>6, <2>2, <2>9, <2>12, <2>13 DEF b
<1>8. ASSUME NEW p, NEW in, AskBegins(p, in)
      PROVE  BufInv'
  <2>1. /\ p \in Header /\ p.op < api_op_resp /\ p.op = api_op_buf_rd /\ p.ep = ep
        /\ p.p1 = h_req.p1 /\ p.p2 = h_req.p2 /\ Len(R) = 0 /\ current_op(p) = p.op
    BY <1>3, <1>8, OpCases DEF AskBegins, AsksFor
  <2>2. Callback(p, in, TRUE)
    BY <1>1, <1>3, <1>8, AskTakes
  <2>3. api_buf_rd(p, TRUE) /\ app_buf' = app_buf
    <3>1. api_buf_rd(p, TRUE)
      BY <2>1, <2>2, BufReadCalled
    <3>2. current_op(p) # api_op_buf_wr
      BY <2>1 DEF api_op_buf_rd, api_op_buf_wr
    <3>3. app_buf' = app_buf
      BY <2>2, <3>2, OtherEndpoints
    <3> QED
      BY <3>1, <3>3
  <2>4. Send(p, TRUE, b, h_req.p1, h_req.p2) /\ h_req.p1 + h_req.p2 <= Len(b)
    <3>1. ~OutOfBuffer(p)
      <4>1. buf_sz(ep) \in Nat
        BY <1>5
      <4>2. h_req.p1 + h_req.p2 < WORD
        BY <1>1, <1>3, PlainFacts
      <4>3. OutOfBuffer(p) <=> p.p1 + p.p2 > buf_sz(p.ep)
        BY <1>4, <2>1, <4>2, RegionJudged
      <4> QED
        BY <1>4, <2>1, <4>1, <4>3
    <3>2. Found(p.ep, p.p1, p.p2) = {b}
      BY <1>4, <2>1 DEF Found
    <3> QED
      BY <1>4, <1>5, <2>1, <2>3, <3>1, <3>2 DEF api_buf_rd
  <2> HIDE DEF b
  <2> DEFINE off == h_req.p1
             len == h_req.p2
  <2>5. /\ off \in Nat /\ len \in Nat /\ b \in Seq(Nat) /\ off + len <= Len(b)
        /\ p \in Header /\ Send(p, TRUE, b, off, len)
        /\ DevInv /\ HostType /\ UNCHANGED <<h_queue, hostVars>> /\ HasRoom /\ Len(R) = 0
    BY <1>1, <1>4, <1>5, <2>1, <2>4
  <2> HIDE DEF off, len
  <2>5a. \A n \in 0 .. len : n \in Nat
    BY <2>5
  <2>5b. \E n \in 0 .. len :
           /\ n = Fits(TRUE, len) /\ ctx' = [off |-> off + n, len |-> len - n]
           /\ Len(R') = HDR + n /\ R'[5] = p.p1 /\ R'[7] = len
           /\ Copies(R', HDR, b, off, n)
    BY <2>5, SentFirst
  <2>6. PICK n \in Nat :
           /\ n = Fits(TRUE, len) /\ ctx' = [off |-> off + n, len |-> len - n]
           /\ Len(R') = HDR + n /\ R'[5] = p.p1 /\ R'[7] = len
           /\ Copies(R', HDR, b, off, n)
    BY <2>5a, <2>5b, Zenon
  <2>7. Sent' = n
    <3>0. Len(R') = HDR + n
      BY <2>6, Zenon
    <3>1. HDR \in Nat /\ Len(R') >= HDR
      BY <3>0 DEF HDR
    <3>2. Len(R') = HDR + Sent' /\ Sent' \in Nat
      BY <1>2, <3>1
    <3>3. Len(R') = HDR + n
      BY <2>6
    <3> QED
      BY <3>1, <3>2, <3>3
  <2>8. ctx'.off = h_req.p1 + n
    BY <2>6 DEF off
  <2>9. Copies(R', HDR, b, h_req.p1, n)
    BY <2>6 DEF off
  <2> QED
    BY <1>6, <2>3, <2>7, <2>8, <2>9 DEF b
<1> QED
  BY <1>7, <1>8

(* ... a write, ...                                                        *)
LEMMA BufWriteStep ==
  ASSUME ApiInv, ApiInv', Follows, BufInv, Device, h_state \in Asking,
         AskGoesOn \/ \E p, in : AskBegins(p, in), BufWrites
  PROVE  BufInv'
<1>1. /\ DevInv /\ DevType /\ HostType /\ HostInv /\ HasRoom /\ up \in Seq(Nat)
      /\ DevInv' /\ ~halted'
      /\ UNCHANGED <<h_queue, hostVars>> /\ h_out' = h_out
      /\ h_state' = h_state /\ h_req' = h_req /\ known' = known
      /\ h_req \in PlainRequests
  BY DEF ApiInv, DevInv, DevType, HostInv, HostType, Device, api_process, hostVars
<1>2. /\ Asked(api_op_buf_wr, API_EP_APP) /\ Verdict(h_req) = 0 /\ BufWrites'
      /\ h_req.op = api_op_buf_wr /\ h_req.ep = API_EP_APP
  BY <1>1 DEF BufWrites, Asked, Begun, Verdict, buf_sz
<1>3. /\ h_req.p1 \in Nat /\ h_req.p2 \in Nat /\ h_req.data \in Seq(Nat)
      /\ h_req.p2 = Len(h_req.data) /\ h_req.p1 + h_req.p2 <= APP_SZ
      /\ buf_sz(h_req.ep) = APP_SZ
  BY <1>1, <1>2, RequestFacts, GoodVerdict
<1>4. BufSent'
  BY <1>1, <1>2 DEF BufSent, BufReads, api_op_buf_rd, api_op_buf_wr
<1>5. BufKnown /\ BufStored
  BY DEF BufInv
<1>6. CASE AskGoesOn
  <2>1. /\ pkt \in Header /\ Callback(pkt, up, FALSE) /\ state # "idle"
        /\ current_op(pkt) = api_op_buf_wr
    BY <1>2, <1>6 DEF AskGoesOn
  <2>2. api_buf_wr(pkt, up, FALSE)
    <3> HIDE DEF pkt
    <3> QED
      BY <2>1, BufWriteCalled
  <2>3. Fill(pkt, up, ctx.off, ctx.len)
    BY <1>1, <2>2 DEF api_buf_wr, BUG
  <2>4. state = "processing"
    <3>1. state = "responding" => RespondingOK
      BY <1>1 DEF DevInv
    <3>2. RespondingOK => current_op(pkt) \in {api_op_info, api_op_buf_rd, api_op_str_rd}
      BY DEF RespondingOK
    <3> QED
      BY <1>1, <2>1, <3>1, <3>2 DEF DevType, api_op_info, api_op_buf_rd, api_op_str_rd,
                                    api_op_buf_wr
  <2>5. Len(R) = 0
    <3>1. AskTaken
      BY <1>1, <2>4 DEF HostInv, Asks, AskWaits, AskAnswered
    <3> QED
      BY <3>1 DEF AskTaken
  <2> DEFINE k == h_req.p2 - ctx.len
  <2>6. /\ ctx.len <= h_req.p2 /\ ctx.off = h_req.p1 + k
        /\ Q = Drop(h_req.data, k) /\ BufHas(k)
    BY <1>5, <2>4 DEF BufStored
  <2>7. k \in Nat /\ ctx.len \in Nat /\ k + ctx.len = h_req.p2
    <3>1. ctx.len \in Nat
      BY <1>1 DEF DevType
    <3> QED
      BY <1>3, <2>6, <3>1
  <2>8. up \o h_out = Drop(h_req.data, k)
    BY <1>1, <2>4, <2>6, QType
  <2> HIDE DEF k, pkt
  <2>9. Fill(pkt, up, h_req.p1 + k, ctx.len)
    BY <2>3, <2>6
  <2> DEFINE l == ctx.len
  <2>10. l \in Nat /\ k + l = h_req.p2 /\ Fill(pkt, up, h_req.p1 + k, l)
    BY <2>7, <2>9
  <2> HIDE DEF l
  <2>11. BufStored' /\ BufKnown'
    BY <1>1, <1>2, <1>3, <1>5, <2>1, <2>5, <2>6, <2>7, <2>8, <2>10, BufWritten
  <2> QED
    BY <1>4, <2>11 DEF BufInv
<1>7. ASSUME NEW p, NEW in, AskBegins(p, in)
      PROVE  BufInv'
  <2>1. /\ p \in Header /\ p.op < api_op_resp /\ p.op = api_op_buf_wr /\ p.ep = h_req.ep
        /\ p.p1 = h_req.p1 /\ p.p2 = h_req.p2 /\ p.data_len = Len(h_req.data)
        /\ Len(R) = 0 /\ current_op(p) = p.op
        /\ in \in Seq(Nat) /\ in \o h_out = h_req.data
    BY <1>2, <1>7, OpCases DEF AskBegins, AsksFor
  <2>2. Callback(p, in, TRUE)
    BY <1>1, <1>2, <1>7, AskTakes
  <2>3. api_buf_wr(p, in, TRUE)
    BY <2>1, <2>2, BufWriteCalled
  <2>4. ~BadWrite(p)
    <3>1. ~OutOfBuffer(p)
      <4>1. APP_SZ \in Nat /\ APP_SZ < WORD
        BY DeviceAssumption
      <4>2. p.p1 \in Nat /\ p.p2 \in Nat /\ p.p1 + p.p2 <= APP_SZ /\ buf_sz(p.ep) = APP_SZ
        BY <1>3, <2>1 DEF Header, buf_sz, API_EP_SYS, API_EP_APP, API_EP_SEQ, API_EP_ECHO
      <4>3. OutOfBuffer(p) <=> p.p1 + p.p2 > buf_sz(p.ep)
        <5>1. p.p1 + p.p2 < WORD
          BY <4>1, <4>2, DeviceAssumption
        <5> QED
          BY <4>2, <5>1, RegionJudged
      <4> QED
        BY <4>1, <4>2, <4>3
    <3> QED
      BY <1>3, <2>1, <3>1 DEF BadWrite
  <2>5. Fill(p, in, h_req.p1, h_req.p2)
    BY <2>1, <2>3, <2>4 DEF api_buf_wr
  <2> DEFINE k == 0
             l == h_req.p2
  <2>6. /\ k \in Nat /\ l \in Nat /\ k + l = h_req.p2 /\ h_req.p1 + k = h_req.p1
        /\ BufHas(k)
    BY <1>3 DEF BufHas
  <2>7. in \o h_out = Drop(h_req.data, k)
    BY <1>3, <2>1, DropNone
  <2>8. Fill(p, in, h_req.p1 + k, l)
    BY <2>5, <2>6
  <2> HIDE DEF k, l
  <2>9. BufStored' /\ BufKnown'
    BY <1>1, <1>2, <1>3, <1>5, <2>1, <2>6, <2>7, <2>8, BufWritten
  <2> QED
    BY <1>4, <2>9 DEF BufInv
<1> QED
  BY <1>6, <1>7

(* ... or anything else.                                                   *)
LEMMA BufOtherStep ==
  ASSUME ApiInv, ApiInv', Follows, BufInv, Device, h_state \in Asking,
         AskGoesOn \/ \E p, in : AskBegins(p, in), ~BufReads, ~BufWrites
  PROVE  BufInv'
<1>1. /\ DevInv /\ HostType /\ h_state' = h_state /\ h_req' = h_req /\ known' = known
      /\ Begun /\ Begun'
  BY DEF ApiInv, HostInv, Device, hostVars, Begun
<1>2. Verdict(h_req)' = Verdict(h_req)
  BY <1>1 DEF Verdict, buf_sz
<1>3. ~BufReads' /\ ~BufWrites'
  BY <1>1, <1>2 DEF BufReads, BufWrites, Asked
<1>4. Verdict(h_req) = 0 => h_req.op # api_op_buf_wr
  BY <1>1, GoodVerdict DEF BufWrites, Asked
<1>5. app_buf' = app_buf
  <2>1. CASE AskGoesOn
    <3>1. Callback(pkt, up, FALSE) /\ current_op(pkt) # api_op_buf_wr
      BY <1>4, <2>1 DEF AskGoesOn
    <3> HIDE DEF pkt
    <3> QED
      BY <3>1, OtherEndpoints
  <2>2. ASSUME NEW p, NEW in, AskBegins(p, in)
        PROVE  app_buf' = app_buf
    <3>1. CASE UNCHANGED epVars
      BY <3>1 DEF epVars
    <3>2. CASE Verdict(h_req) = 0 /\ Callback(p, in, TRUE)
      <4>1. current_op(p) = h_req.op
        BY <2>2, OpCases DEF AskBegins, AsksFor
      <4>2. current_op(p) # api_op_buf_wr
        BY <1>4, <3>2, <4>1
      <4> QED
        BY <3>2, <4>2, OtherEndpoints
    <3> QED
      BY <1>1, <2>2, <3>1, <3>2, AskTakes
  <2> QED
    BY <2>1, <2>2
<1>6. BufKnown'
  BY <1>1, <1>5, BufRests DEF BufInv
<1> QED
  BY <1>3, <1>6 DEF BufInv, BufSent, BufStored

LEMMA BufDevice ==
  ASSUME ApiInv, ApiInv', Follows, BufInv, Device
  PROVE  BufInv'
<1>1. /\ h_state' = h_state /\ h_req' = h_req /\ known' = known
      /\ (Begun <=> h_state \in Asking \cup {"answered"})
      /\ (Begun' <=> h_state' \in Asking \cup {"answered"})
  BY DEF Device, hostVars, Begun
<1>2. CASE h_state \in Over
  <2>1. ~Begun' /\ h_state' \in Over
    BY <1>1, <1>2 DEF Over, Asking
  <2> QED
    BY <2>1 DEF BufInv, BufSent, BufStored, BufKnown, BufReads, BufWrites
<1>3. CASE h_state \in Opening
  <2>1. ~Begun'
    BY <1>1, <1>3 DEF Opening, Asking
  <2>2. \A i \in 1 .. APP_SZ : known'.app[i] = NONE
    <3>1. known = KnowsNothing
      BY <1>3 DEF Follows
    <3> QED
      BY <1>1, <3>1 DEF KnowsNothing
  <2> QED
    BY <2>1, <2>2 DEF BufInv, BufSent, BufStored, BufKnown, BufReads, BufWrites
<1>4. CASE h_state \in Asking
  <2>1. CASE AskSkips
    <3>1. state' = "idle" /\ R' = R /\ Len(R) = 0 /\ app_buf' = app_buf
      BY <2>1 DEF AskSkips, epVars
    <3>2. Len(R') = 0 /\ Sent' = 0
      BY <3>1 DEF Sent, HDR
    <3>3. BufSent'
      BY <3>1, <3>2 DEF BufSent, Copies
    <3>4. BufStored'
      BY <3>1, <3>2 DEF BufStored
    <3>5. BufKnown'
      BY <1>1, <3>1, BufRests DEF BufInv
    <3> QED
      BY <3>3, <3>4, <3>5 DEF BufInv
  <2>2. CASE AskGoesOn \/ \E p, in : AskBegins(p, in)
    BY <1>4, <2>2, BufReadStep, BufWriteStep, BufOtherStep
  <2> QED
    BY <1>4, <2>1, <2>2, AskStep
<1> QED
  BY <1>2, <1>3, <1>4, DeviceWaits

LEMMA NextBufInv ==
  ASSUME ApiInv, ApiInv', Follows, BufInv, [Next]_vars
  PROVE  BufInv'
<1>1. /\ DevType /\ HostType /\ DevType' /\ HostType' /\ HostInv
  BY DEF ApiInv, DevInv, HostInv
<1>2. CASE Quiet
  <2>1. /\ h_req' = h_req /\ known' = known /\ app_buf' = app_buf
        /\ state' = state /\ ctx' = ctx
        /\ h_state \notin Over /\ (Begun' <=> Begun) /\ (Begun => Q' = Q /\ R' = R)
    BY <1>2 DEF Quiet, epVars, apiVars
  <2>2. Sent' = Sent
    BY <2>1 DEF Sent
  <2>3. (BufWrites' <=> BufWrites) /\ (BufReads' <=> BufReads)
        /\ Region(h_req)' = Region(h_req) /\ Buf(h_req.ep)' = Buf(h_req.ep)
    BY <2>1 DEF BufWrites, BufReads, Asked, Verdict, buf_sz, Region, Buf
  <2>4. BufSent'
    <3> SUFFICES ASSUME BufReads
                 PROVE  /\ Copies(R, HDR, Buf(h_req.ep), h_req.p1, Sent)'
                        /\ state' = "responding" => ctx'.off = h_req'.p1 + Sent'
      BY <2>3 DEF BufSent
    <3>1. R' = R
      BY <2>1 DEF BufReads
    <3>2. Copies(R, HDR, Buf(h_req.ep), h_req.p1, Sent)' <=>
            Copies(R, HDR, Buf(h_req.ep), h_req.p1, Sent)
      BY <2>1, <2>2, <2>3, <3>1 DEF Copies
    <3> QED
      BY <2>1, <2>2, <3>2 DEF BufInv, BufSent
  <2>5. BufStored'
    <3> SUFFICES ASSUME BufWrites
                 PROVE  /\ state' = "processing" =>
                             /\ ctx'.len <= h_req'.p2
                             /\ ctx'.off = h_req'.p1 + (h_req'.p2 - ctx'.len)
                             /\ Q' = Drop(h_req.data, h_req.p2 - ctx.len)'
                             /\ BufHas(h_req.p2 - ctx.len)'
                        /\ Len(R') > 0 => BufHas(h_req.p2)'
      BY <2>3 DEF BufStored
    <3>1. Q' = Q /\ R' = R
      BY <2>1 DEF BufWrites
    <3>2. /\ BufHas(h_req.p2 - ctx.len)' <=> BufHas(h_req.p2 - ctx.len)
          /\ BufHas(h_req.p2)' <=> BufHas(h_req.p2)
          /\ Drop(h_req.data, h_req.p2 - ctx.len)' = Drop(h_req.data, h_req.p2 - ctx.len)
      BY <2>1 DEF BufHas
    <3> QED
      BY <2>1, <3>1, <3>2 DEF BufInv, BufStored
  <2>6. BufKnown'
    <3>1. BufKnown
      BY DEF BufInv
    <3> QED
      BY <2>1, <2>3, <3>1 DEF BufKnown
  <2> QED
    BY <2>4, <2>5, <2>6 DEF BufInv
<1>3. CASE Ends
  <2>1. h_state' \in Over /\ ~Begun'
    BY <1>3 DEF Ends, Begun, Over, Asking
  <2> QED
    BY <2>1 DEF BufInv, BufSent, BufStored, BufKnown, BufReads, BufWrites
<1>4. CASE Open
  <2>1. ~Begun'
    BY <1>4 DEF Open, Begun, Asking
  <2>2. \A i \in 1 .. APP_SZ : known'.app[i] = NONE
    BY <1>4 DEF Open, KnowsNothing
  <2> QED
    BY <2>1, <2>2 DEF BufInv, BufSent, BufStored, BufKnown, BufReads, BufWrites
<1>5. CASE Ask
  <2>1. /\ h_state \in {"flushed", "ready"} /\ app_buf' = app_buf /\ known' = known
        /\ state' = "idle" /\ Len(R') = 0 /\ ~Begun
    BY <1>5, AskFresh DEF epVars
  <2>2. Sent' = 0
    BY <2>1 DEF Sent, HDR
  <2>3. BufSent' /\ BufStored'
    BY <2>1, <2>2 DEF BufSent, BufStored, Copies
  <2>4. BufKnown'
    BY <2>1 DEF BufInv, BufKnown, BufWrites, Over
  <2> QED
    BY <2>3, <2>4 DEF BufInv
<1>6. CASE Use
  <2>1. /\ h_state = "answered" /\ h_state' = "ready" /\ app_buf' = app_buf /\ h_req' = h_req
    BY <1>6 DEF Use, devVars, epVars
  <2>2. ~Begun' /\ h_state \notin Over
    BY <2>1 DEF Begun, Asking, Over
  <2>3. Begun /\ Verdict(h_req) = 0 /\ Len(R) > 0
    BY <2>1, AnswerRead DEF HDR
  <2>4. known'.app =
          IF Asked(api_op_buf_wr, API_EP_APP)
          THEN [i \in 1 .. APP_SZ |->
                  IF i \in Region(h_req) THEN h_req.data[i - h_req.p1] ELSE known.app[i]]
          ELSE known.app
    BY <1>6, UseKnown
  <2>5. ASSUME NEW i \in 1 .. APP_SZ, known'.app[i] # NONE
        PROVE  known'.app[i] = app_buf[i]
    <3>1. known.app[i] # NONE =>
            known.app[i] = app_buf[i] \/ (BufWrites /\ i \in Region(h_req))
      BY <2>2 DEF BufInv, BufKnown
    <3>2. CASE Asked(api_op_buf_wr, API_EP_APP)
      <4>1. BufWrites
        BY <2>3, <3>2 DEF BufWrites
      <4>2. BufHas(h_req.p2)
        BY <2>3, <4>1 DEF BufInv, BufStored
      <4>3. CASE i \in Region(h_req)
        <5>1. h_req.p1 \in Nat /\ h_req.p2 \in Nat
          BY <1>1, <3>2, RequestFacts DEF HostType
        <5> DEFINE j == i - h_req.p1
        <5>2. j \in 1 .. h_req.p2 /\ h_req.p1 + j = i
          BY <4>3, <5>1 DEF Region
        <5>3. known'.app[i] = h_req.data[j]
          BY <2>4, <3>2, <4>3
        <5> HIDE DEF j
        <5> QED
          BY <4>2, <5>2, <5>3 DEF BufHas
      <4>4. CASE i \notin Region(h_req)
        BY <2>4, <2>5, <3>1, <3>2, <4>4
      <4> QED
        BY <4>3, <4>4
    <3>3. CASE ~Asked(api_op_buf_wr, API_EP_APP)
      BY <2>4, <2>5, <3>1, <3>3 DEF BufWrites
    <3> QED
      BY <3>2, <3>3
  <2>6. BufKnown'
    BY <2>1, <2>5 DEF BufKnown
  <2> QED
    BY <2>2, <2>6 DEF BufInv, BufSent, BufStored, BufReads, BufWrites
<1> QED
  BY <1>2, <1>3, <1>4, <1>5, <1>6, BufDevice, HostSteps

LEMMA InitBufInv ==
  ASSUME Init
  PROVE  BufInv
<1>1. h_state \in Over /\ ~Begun
  BY DEF Init, Over, Begun, Asking
<1> QED
  BY <1>1 DEF BufInv, BufSent, BufStored, BufKnown, BufReads, BufWrites

LEMMA BufHolds ==
  ASSUME ApiInv, Follows, BufInv
  PROVE  BufferOK
<1> SUFFICES ASSUME h_state = "answered"
             PROVE  /\ h_req.op \in {api_op_buf_rd, api_op_buf_wr} =>
                         h_req.p1 + h_req.p2 <= buf_sz(h_req.ep)
                    /\ Asked(api_op_buf_rd, API_EP_SYS) =>
                         payload = SubSeq(SYS_DESCR, h_req.p1 + 1, h_req.p1 + h_req.p2)
                    /\ Asked(api_op_buf_rd, API_EP_APP) =>
                         \A i \in Region(h_req) :
                           known.app[i] # NONE => payload[i - h_req.p1] = known.app[i]
  BY DEF BufferOK
<1>1. /\ HostType /\ HostInv /\ DevType /\ Verdict(h_req) = 0 /\ Begun
      /\ payload \in Seq(Nat) /\ Len(payload) = Sent /\ Sent = h_in[7]
      /\ \A i \in 1 .. Sent : payload[i] = R[HDR + i]
  BY AnswerRead DEF ApiInv, DevInv, HostInv
<1>2. h_req.op \in {api_op_buf_rd, api_op_buf_wr} => h_req.p1 + h_req.p2 <= buf_sz(h_req.ep)
  BY <1>1, GoodVerdict
<1>3. ASSUME h_req.op = api_op_buf_rd
      PROVE  /\ h_req.p1 \in Nat /\ h_req.p2 \in Nat /\ Len(payload) = h_req.p2
             /\ \A i \in 1 .. h_req.p2 : payload[i] = Buf(h_req.ep)[h_req.p1 + i]
  <2>1. h_req.p1 \in Nat /\ h_req.p2 \in Nat
    BY <1>1, RequestFacts DEF HostType
  <2>2. h_in[7] = h_req.p2
    BY <1>1, <1>3 DEF HostInv, Answer
  <2>3. Copies(R, HDR, Buf(h_req.ep), h_req.p1, Sent)
    BY <1>1, <1>3 DEF BufInv, BufSent, BufReads
  <2> QED
    BY <1>1, <2>1, <2>2, <2>3 DEF Copies
<1>4. ASSUME Asked(api_op_buf_rd, API_EP_SYS)
      PROVE  payload = SubSeq(SYS_DESCR, h_req.p1 + 1, h_req.p1 + h_req.p2)
  <2>1. h_req.op = api_op_buf_rd /\ h_req.ep = API_EP_SYS
    BY <1>4 DEF Asked
  <2>2. Buf(h_req.ep) = SYS_DESCR /\ h_req.p1 + h_req.p2 <= Len(SYS_DESCR)
    <3>1. buf_sz(API_EP_SYS) = Len(SYS_DESCR)
      BY DEF buf_sz, API_EP_SYS, API_EP_APP, API_EP_SEQ, API_EP_ECHO
    <3> QED
      BY <1>2, <2>1, <3>1 DEF Buf
  <2>3. /\ h_req.p1 \in Nat /\ h_req.p2 \in Nat /\ Len(payload) = h_req.p2
        /\ \A i \in 1 .. h_req.p2 : payload[i] = SYS_DESCR[h_req.p1 + i]
    BY <1>3, <2>1, <2>2
  <2>4. SYS_DESCR \in Seq(Nat)
    <3>1. h_req.ep \in DOMAIN EpOps
      BY <1>1, GoodVerdict
    <3> QED
      BY <1>1, <2>1, <2>2, <3>1, EpFacts
  <2> DEFINE off == h_req.p1
             n   == h_req.p2
             piece == SubSeq(SYS_DESCR, off + 1, off + n)
  <2>5. /\ off \in Nat /\ n \in Nat /\ off + n <= Len(SYS_DESCR) /\ Len(payload) = n
        /\ \A i \in 1 .. n : payload[i] = SYS_DESCR[off + i]
    BY <2>2, <2>3
  <2> HIDE DEF off, n
  <2>6. /\ piece \in Seq(Nat) /\ Len(piece) = n
        /\ \A i \in 1 .. n : piece[i] = SYS_DESCR[off + i]
    BY <2>4, <2>5, Piece
  <2> HIDE DEF piece
  <2>7. payload = piece
    <3>1. payload \in Seq(Nat)
      BY <1>1
    <3>2. Len(payload) = Len(piece) /\ piece \in Seq(Nat)
      BY <2>5, <2>6
    <3>3. \A i \in 1 .. Len(payload) : payload[i] = piece[i]
      BY <2>5, <2>6
    <3> QED
      BY <3>1, <3>2, <3>3, SameSeq
  <2> QED
    BY <2>7 DEF piece, off, n
<1>5. ASSUME Asked(api_op_buf_rd, API_EP_APP), NEW i \in Region(h_req), known.app[i] # NONE
      PROVE  payload[i - h_req.p1] = known.app[i]
  <2>1. h_req.op = api_op_buf_rd /\ h_req.ep = API_EP_APP
    BY <1>5 DEF Asked
  <2>2. /\ h_req.p1 \in Nat /\ h_req.p2 \in Nat
        /\ \A j \in 1 .. h_req.p2 : payload[j] = Buf(API_EP_APP)[h_req.p1 + j]
    BY <1>3, <2>1
  <2> DEFINE j == i - h_req.p1
  <2>3. j \in 1 .. h_req.p2 /\ h_req.p1 + j = i
    BY <1>5, <2>2 DEF Region
  <2>4. i \in 1 .. APP_SZ
    <3>1. h_req.p1 + h_req.p2 <= buf_sz(API_EP_APP)
      BY <1>2, <2>1
    <3>2. buf_sz(API_EP_APP) = APP_SZ
      BY DEF buf_sz, API_EP_SYS, API_EP_APP, API_EP_SEQ, API_EP_ECHO
    <3> QED
      BY <1>5, <2>2, <3>1, <3>2, DeviceAssumption DEF Region
  <2> HIDE DEF j
  <2>5. payload[j] = Buf(API_EP_APP)[i]
    BY <2>2, <2>3
  <2>6. Buf(API_EP_APP) = app_buf
    BY DEF Buf, API_EP_APP, API_EP_SYS
  <2>7. known.app[i] = app_buf[i]
    <3>1. ~BufWrites
      BY <2>1 DEF BufWrites, Asked, api_op_buf_rd, api_op_buf_wr
    <3> QED
      BY <1>5, <2>4, <3>1 DEF BufInv, BufKnown, Over
  <2> QED
    BY <2>5, <2>6, <2>7 DEF j
<1> QED
  BY <1>2, <1>4, <1>5

(* The echo endpoint: what is sent of it, what of a payload it has taken,  *)
(* and what the program knows of it.  b is where the program believes to   *)
(* read; k bytes of the payload are stored.                                *)
EchoReads  == Begun /\ Asked(api_op_str_rd, API_EP_ECHO) /\ Verdict(h_req) = 0
EchoWrites == Begun /\ Asked(api_op_str_wr, API_EP_ECHO) /\ Verdict(h_req) = 0
EchoStores == EchoWrites /\ ~(state = "idle" /\ Len(R) = 0)
EchoSent   == IF EchoReads THEN Sent ELSE 0

EchoAt(b) ==
  /\ echo.read = b + EchoSent
  /\ known.sure /\ ~EchoStores => known.echo = Drop(echo.data, b)
  /\ EchoReads /\ Len(R) > 0 =>
       /\ Copies(R, HDR, echo.data, b, Sent)
       /\ R[7] = MIN_(h_req.p2, Len(echo.data) - b)
       /\ R[5] + R[7] = Len(echo.data) - b

EchoHas(k)   == known.sure => Unread = known.echo \o Take(h_req.data, k)
EchoGrows(k) == known.sure /\ known.echo = << >> => k > 0

EchoTakes(done, stored) ==
  /\ done + pkt.data_len = Len(h_req.data)
  /\ stored + ctx.len = pkt.p1 /\ pkt.p1 <= Len(h_req.data)
  /\ ctx.len > 0 => stored = done
  /\ Q = Drop(h_req.data, done)
  /\ EchoHas(stored) /\ EchoGrows(pkt.p1)

EchoStored ==
  EchoWrites =>
    /\ state = "processing" => \E done, stored \in Nat : EchoTakes(done, stored)
    /\ Len(R) > 0 => R[5] <= Len(h_req.data) /\ EchoHas(R[5]) /\ EchoGrows(R[5])

EchoNotes ==
  /\ known.echo \in Seq(Nat) /\ known.sure \in BOOLEAN
  /\ ~known.sure => known.echo = << >>

EchoInv ==
  /\ EchoNotes
  /\ EchoStored
  /\ h_state \notin Over => \E b \in Nat : EchoAt(b)

(* Storing the next piece of a payload d, of which in is the front of what *)
(* is still to come.                                                       *)
LEMMA FrontOfRest ==
  ASSUME NEW d \in Seq(Nat), NEW in \in Seq(Nat), NEW t \in Seq(Nat), NEW k \in Nat,
         k <= Len(d), in \o t = Drop(d, k)
  PROVE  k + Len(in) <= Len(d) /\ Copies(in, 0, d, k, Len(in))
<1>1. /\ Len(in \o t) = Len(in) + Len(t) /\ \A i \in 1 .. Len(in) : (in \o t)[i] = in[i]
  BY ConcatFacts
<1>2. /\ Len(Drop(d, k)) = Len(d) - k
      /\ \A i \in 1 .. Len(d) - k : Drop(d, k)[i] = d[k + i]
  BY DropFacts
<1>3. Len(in) \in Nat /\ Len(t) \in Nat /\ Len(d) \in Nat
  OBVIOUS
<1>4. Len(in) + Len(t) = Len(d) - k
  BY <1>1, <1>2
<1>5. \A i \in 1 .. Len(in) : i \in 1 .. Len(d) - k /\ 0 + i = i
  BY <1>3, <1>4
<1>6. \A i \in 1 .. Len(in) : in[0 + i] = d[k + i]
  BY <1>1, <1>2, <1>5
<1> QED
  BY <1>3, <1>4, <1>6 DEF Copies

LEMMA TakeMore ==
  ASSUME NEW d \in Seq(Nat), NEW in \in Seq(Nat), NEW k \in Nat, NEW m \in Nat,
         k + m <= Len(d), m <= Len(in), Copies(in, 0, d, k, m)
  PROVE  Take(d, k) \o Take(in, m) = Take(d, k + m)
<1> DEFINE s == Take(d, k)  t == Take(in, m)  u == Take(d, k + m)
<1>1. /\ k <= Len(d) /\ k + m \in Nat
      /\ \A i \in 1 .. m : in[i] = d[k + i]
  BY DEF Copies
<1>2. s \in Seq(Nat) /\ Len(s) = k /\ \A i \in 1 .. k : s[i] = d[i]
  BY <1>1, TakeFacts
<1>3. t \in Seq(Nat) /\ Len(t) = m /\ \A i \in 1 .. m : t[i] = in[i]
  BY TakeFacts
<1>4. u \in Seq(Nat) /\ Len(u) = k + m /\ \A i \in 1 .. k + m : u[i] = d[i]
  BY <1>1, TakeFacts
<1> HIDE DEF s, t, u
<1>5. /\ s \o t \in Seq(Nat) /\ Len(s \o t) = k + m
      /\ \A i \in 1 .. k + m : (s \o t)[i] = IF i <= k THEN s[i] ELSE t[i - k]
  BY <1>2, <1>3, ConcatFacts
<1>6. ASSUME NEW i \in 1 .. k + m
      PROVE  (s \o t)[i] = u[i]
  <2>1. CASE i <= k
    <3>1. i \in 1 .. k
      BY <2>1
    <3> QED
      BY <1>2, <1>4, <1>5, <2>1, <3>1
  <2>2. CASE ~(i <= k)
    <3>1. i - k \in 1 .. m /\ k + (i - k) = i
      BY <2>2
    <3>2. t[i - k] = d[i]
      BY <1>1, <1>3, <3>1
    <3> QED
      BY <1>4, <1>5, <2>2, <3>2
  <2> QED
    BY <2>1, <2>2
<1>7. s \o t = u
  BY <1>4, <1>5, <1>6, SameSeq
<1> QED
  BY <1>7 DEF s, t, u

(* A call takes the next bytes of the payload, and stores as many of them  *)
(* as it has said it will.                                                 *)
LEMMA EchoStep ==
  ASSUME DevType, HostType, EchoNotes, UNCHANGED <<h_queue, hostVars>>, Len(R) = 0,
         EchoWrites', NEW p \in Header, NEW in \in Seq(Nat),
         NEW e \in [data : Seq(Nat), read : Nat], NEW len \in Nat,
         p.data_len > 0, len <= p.data_len,
         e.read <= Len(e.data), Len(e.data) + len <= ECHO_BUF_SZ,
         NEW done \in Nat, NEW stored \in Nat, done + p.data_len = Len(h_req.data),
         stored + len = p.p1, p.p1 <= Len(h_req.data), len > 0 => stored = done,
         in \o h_out = Drop(h_req.data, done),
         known.sure => Drop(e.data, e.read) = known.echo \o Take(h_req.data, stored),
         EchoGrows(p.p1), Store(p, in, e, len)
  PROVE  EchoStored' /\ EchoStores'
<1> DEFINE d == h_req.data
<1>1. /\ d \in Seq(Nat) /\ Len(d) \in Nat /\ h_req' = h_req /\ known' = known
      /\ UNCHANGED h_out /\ h_out \in Seq(Nat) /\ p.data_len \in Nat /\ p.p1 \in Nat
      /\ in \o h_out = Drop(d, done) /\ done + p.data_len = Len(d) /\ p.p1 <= Len(d)
      /\ known.sure => Drop(e.data, e.read) = known.echo \o Take(d, stored)
  BY RequestFacts DEF HostType, hostVars, Header
<1> HIDE DEF d
<1>2. PICK n \in 0 .. p.data_len, rest \in Nat : Stored(p, in, e, len, n, rest)
  BY StoreFacts
<1>3. /\ n <= Len(in) /\ up' = Drop(in, n)
      /\ echo' = [e EXCEPT !.data = e.data \o Take(in, len - rest)]
      /\ rest <= len /\ len - rest <= Len(in) /\ (len > 0 => rest = len - n)
      /\ ctx'.len = rest /\ rest <= p.data_len - n
      /\ \/ n = p.data_len /\ down' = down \o Response(p, 0)
            /\ state' = "idle" /\ pkt_buf' = << >>
         \/ n < p.data_len /\ down' = down /\ state' = "processing"
            /\ pkt_buf' = Bytes([p EXCEPT !.data_len = p.data_len - n])
  BY <1>2 DEF Stored
<1> DEFINE m == len - rest
<1>4. /\ n \in Nat /\ n <= p.data_len /\ m \in Nat /\ m <= Len(in) /\ m + rest = len
      /\ (m > 0 \/ rest > 0 => stored = done) /\ (rest > 0 => m = n)
  <2> DEFINE N == p.data_len
             L == Len(in)
  <2>1. /\ N \in Nat /\ L \in Nat /\ n \in 0 .. N /\ n <= L /\ rest \in Nat
        /\ rest <= len /\ len - rest <= L /\ (len > 0 => rest = len - n)
        /\ (len > 0 => stored = done)
    BY <1>1, <1>3
  <2> HIDE DEF N, L
  <2>2. /\ n \in Nat /\ n <= N /\ m \in Nat /\ m <= L /\ m + rest = len
        /\ (m > 0 \/ rest > 0 => stored = done) /\ (rest > 0 => m = n)
    BY <2>1
  <2> QED
    BY <2>2 DEF N, L
<1>5. echo' = [e EXCEPT !.data = e.data \o Take(in, m)]
  BY <1>3
<1> HIDE DEF m
<1>6. /\ done <= Len(d) /\ done + n <= Len(d) /\ stored + m <= Len(d)
      /\ (stored + m) + rest = p.p1
  <2> DEFINE N == p.data_len
             P == p.p1
             L == Len(d)
  <2>1. /\ N \in Nat /\ P \in Nat /\ L \in Nat /\ done + N = L /\ P <= L /\ stored + len = P
        /\ n \in Nat /\ n <= N /\ m \in Nat /\ m + rest = len /\ rest \in Nat
    BY <1>1, <1>4
  <2> HIDE DEF N, P, L
  <2>2. done <= L /\ done + n <= L /\ stored + m <= L /\ (stored + m) + rest = P
    BY <2>1
  <2> QED
    BY <2>2 DEF P, L
<1>7. Copies(in, 0, d, stored, m)
  <2>1. d \in Seq(Nat) /\ done <= Len(d) /\ in \o h_out = Drop(d, done) /\ h_out \in Seq(Nat)
    BY <1>1, <1>6
  <2>2. Copies(in, 0, d, done, Len(in))
    BY <2>1, FrontOfRest
  <2>3. \A i \in 1 .. m : i \in 1 .. Len(in) /\ stored = done
    BY <1>4
  <2> QED
    BY <2>2, <2>3 DEF Copies
<1>8. EchoHas(stored + m)'
  <2> SUFFICES ASSUME known.sure
               PROVE  Unread' = known.echo \o Take(d, stored + m)
    BY <1>1 DEF EchoHas, d
  <2>1. e.data \in Seq(Nat) /\ e.read \in Nat /\ known.echo \in Seq(Nat)
    BY DEF EchoNotes
  <2>2. Drop(e.data \o Take(in, m), e.read) = known.echo \o Take(d, stored + m)
    <3> DEFINE data == e.data
               read == e.read
               x    == known.echo
    <3>1. /\ data \in Seq(Nat) /\ read \in Nat /\ read <= Len(data) /\ x \in Seq(Nat)
          /\ d \in Seq(Nat) /\ m \in Nat /\ stored + m <= Len(d) /\ m <= Len(in)
          /\ Drop(data, read) = x \o Take(d, stored)
      BY <1>1, <1>4, <1>6, <2>1
    <3> HIDE DEF data, read, x
    <3> DEFINE more == Take(in, m)
               old  == Take(d, stored)
    <3>2. more \in Seq(Nat) /\ old \in Seq(Nat)
      <4>1. stored <= Len(d)
        BY <1>1, <3>1
      <4> QED
        BY <1>4, <3>1, <4>1, TakeFacts
    <3>3. old \o more = Take(d, stored + m)
      <4>1. /\ d \in Seq(Nat) /\ in \in Seq(Nat) /\ stored \in Nat /\ m \in Nat
            /\ stored + m <= Len(d) /\ m <= Len(in) /\ Copies(in, 0, d, stored, m)
        BY <1>7, <3>1
      <4>2. Take(d, stored) \o Take(in, m) = Take(d, stored + m)
        BY <4>1, TakeMore, SMTT(30)
      <4> QED
        BY <4>2
    <3>4. Drop(data, read) = x \o old
      BY <3>1
    <3> HIDE DEF more, old
    <3>5. Drop(data \o more, read) = Drop(data, read) \o more
      BY <3>1, <3>2, DropConcat
    <3>6. (x \o old) \o more = x \o (old \o more)
      BY <3>1, <3>2, Concat3
    <3>7. Drop(data \o more, read) = x \o Take(d, stored + m)
      BY <3>3, <3>4, <3>5, <3>6, Zenon
    <3> QED
      BY <3>7 DEF data, read, x, more
  <2>3. echo'.data = e.data \o Take(in, m) /\ echo'.read = e.read
    BY <1>5
  <2>4. Unread' = Drop(e.data \o Take(in, m), e.read)
    BY <2>3 DEF Unread, Drop
  <2> QED
    BY <2>2, <2>4
<1>9. Q' = Drop(d, done + n)
  <2>1. Q' = Drop(in \o h_out, n)
    <3>1. state' = "idle" => pkt_buf' = << >>
      BY <1>3
    <3> QED
      BY <1>1, <1>3, <1>4, <3>1, TakenFromFront
  <2>2. Drop(Drop(d, done), n) = Drop(d, done + n)
    BY <1>1, <1>4, <1>6, DropDrop
  <2>3. in \o h_out = Drop(d, done)
    BY <1>1, Zenon
  <2> QED
    BY <2>1, <2>2, <2>3, Zenon
<1>10. CASE n = p.data_len /\ down' = down \o Response(p, 0) /\ state' = "idle"
  <2>1. rest = 0 /\ stored + m = p.p1
    <3>1. rest <= p.data_len - n /\ n = p.data_len /\ p.data_len \in Nat
      BY <1>1, <1>3, <1>10
    <3>2. rest = 0
      BY <3>1
    <3>3. stored + m \in Nat
      BY <1>4
    <3> QED
      BY <1>6, <3>2, <3>3
  <2>2. R' = Response(p, 0)
    <3>1. Response(p, 0) \in Seq(Nat)
      BY ResponseFacts
    <3>2. R' = R \o Response(p, 0) /\ R \in Seq(Nat)
      BY <1>10, <3>1, AnswerGrows, QType
    <3>3. R = << >>
      BY <3>2, EmptySeq
    <3> QED
      BY <3>1, <3>2, <3>3, ConcatEmptySeq
  <2>3. R'[5] = p.p1 /\ Len(R') > 0
    <3>1. 0 \in Nat
      OBVIOUS
    <3>2. Response(p, 0)[5] = p.p1
      BY <3>1, ResponseParameter
    <3>3. Len(Response(p, 0)) = HDR
      BY <3>1, ResponseFacts
    <3> QED
      BY <2>2, <3>2, <3>3 DEF HDR
  <2>4. EchoHas(p.p1)'
    BY <1>8, <2>1
  <2>5. \A x : x = p.p1 => EchoHas(x)' /\ EchoGrows(x)'
    BY <1>1, <2>4 DEF EchoGrows
  <2>6. EchoHas(R[5])' /\ EchoGrows(R[5])'
    BY <2>3, <2>5 DEF EchoHas, EchoGrows
  <2> QED
    BY <1>1, <1>10, <2>3, <2>6 DEF EchoStored, EchoStores
<1>11. CASE n < p.data_len /\ down' = down /\ state' = "processing"
            /\ pkt_buf' = Bytes([p EXCEPT !.data_len = p.data_len - n])
  <2> DEFINE q == [p EXCEPT !.data_len = p.data_len - n]
  <2>1. q \in Header /\ q.p1 = p.p1 /\ q.data_len = p.data_len - n
    <3>0. p.data_len \in Nat /\ n \in Nat /\ n <= p.data_len
      BY <1>1, <1>4, Zenon
    <3>1. p.data_len - n \in Nat
      BY <3>0
    <3> QED
      BY <3>1 DEF Header
  <2> HIDE DEF q
  <2>2. pkt' = q
    BY <1>11, <2>1, FieldsOfBytes DEF pkt, q
  <2>3. Len(R') = 0
    BY <1>11, AnswerStays
  <2> DEFINE done1   == done + n
             stored1 == stored + m
  <2>4. /\ done1 \in Nat /\ stored1 \in Nat
        /\ done1 + pkt'.data_len = Len(h_req'.data)
        /\ stored1 + ctx'.len = pkt'.p1 /\ pkt'.p1 <= Len(h_req'.data)
        /\ ctx'.len > 0 => stored1 = done1
    <3> DEFINE N == p.data_len
               P == p.p1
               L == Len(d)
    <3>1. /\ N \in Nat /\ P \in Nat /\ L \in Nat /\ done + N = L /\ P <= L
          /\ n \in Nat /\ n <= N /\ m \in Nat /\ rest \in Nat
          /\ (stored + m) + rest = P /\ (rest > 0 => stored = done /\ m = n)
      BY <1>1, <1>4, <1>6
    <3>2. /\ pkt'.data_len = N - n /\ pkt'.p1 = P /\ ctx'.len = rest /\ Len(h_req'.data) = L
      BY <1>1, <1>3, <2>1, <2>2 DEF d
    <3> HIDE DEF N, P, L
    <3>3. /\ done1 \in Nat /\ stored1 \in Nat /\ done1 + (N - n) = L /\ stored1 + rest = P
          /\ P <= L /\ (rest > 0 => stored1 = done1)
      BY <3>1
    <3> QED
      BY <3>2, <3>3
  <2>5. Q' = Drop(h_req.data, done1)'
    BY <1>1, <1>9 DEF Drop, d
  <2>6. EchoHas(stored1)'
    BY <1>8
  <2>7. EchoGrows(pkt.p1)'
    BY <1>1, <2>1, <2>2 DEF EchoGrows
  <2> HIDE DEF done1, stored1
  <2>8. EchoTakes(done1, stored1)'
    BY <2>4, <2>5, <2>6, <2>7 DEF EchoTakes
  <2>9. \E a, b \in Nat : EchoTakes(a, b)'
    BY <2>4, <2>8
  <2> QED
    BY <1>11, <2>3, <2>9 DEF EchoStored, EchoStores
<1> QED
  BY <1>3, <1>10, <1>11

(* Of requests for the echo endpoint that are in order.                    *)
LEMMA EchoVerdict ==
  ASSUME HostType, Verdict(h_req) = 0, h_req.op = api_op_str_wr
  PROVE  h_req.ep = API_EP_ECHO /\ h_req.data # << >>
<1>1. ~(is_data_write_op(h_req.op) # (h_req.data # << >>))
  BY DEF Verdict, api_fl_err_sz
<1>2. h_req.ep \in DOMAIN EpOps
  BY <1>1 DEF Verdict, api_fl_err_ep
<1>3. h_req.op \in EpOps[h_req.ep]
  BY <1>1, <1>2 DEF Verdict, api_fl_err_op
<1>4. h_req.ep = API_EP_ECHO
  BY <1>2, <1>3, EpOpsFacts DEF api_op_buf_rd, api_op_buf_wr, api_op_info, api_op_str_rd,
                                api_op_str_wr
<1>5. is_data_write_op(h_req.op)
  BY DEF is_data_write_op
<1> QED
  BY <1>1, <1>4, <1>5

(* What a write does to the invariant, whatever call it is.                *)
LEMMA EchoWriteMade ==
  ASSUME EchoNotes, UNCHANGED hostVars, DevType', EchoStored', EchoStores'
  PROVE  EchoInv'
<1>1. EchoNotes'
  BY DEF EchoNotes, hostVars
<1>2. EchoSent' = 0
  <2>1. ~EchoReads'
    BY DEF EchoStores, EchoWrites, EchoReads, Asked, api_op_str_rd, api_op_str_wr
  <2> QED
    BY <2>1 DEF EchoSent
<1>3. PICK b \in Nat : b = echo'.read
  BY DEF DevType
<1>4. EchoAt(b)'
  <2>1. ~EchoReads'
    BY DEF EchoStores, EchoWrites, EchoReads, Asked, api_op_str_rd, api_op_str_wr
  <2>2. b + 0 = b
    OBVIOUS
  <2> QED
    BY <1>2, <1>3, <2>1, <2>2 DEF EchoAt
<1> QED
  BY <1>1, <1>4 DEF EchoInv

(* A step of the device, by the kind of the request: a write, ...          *)
LEMMA EchoWriteStep ==
  ASSUME ApiInv, ApiInv', Follows, EchoInv, Device, h_state \in Asking,
         AskGoesOn \/ \E p, in : AskBegins(p, in), EchoWrites
  PROVE  EchoInv'
<1> DEFINE d == h_req.data
<1>1. /\ DevInv /\ DevType /\ HostType /\ HostInv /\ EchoFits /\ up \in Seq(Nat)
      /\ DevType' /\ ~halted'
      /\ UNCHANGED <<h_queue, hostVars>> /\ UNCHANGED hostVars /\ h_out \in Seq(Nat)
      /\ h_state' = h_state /\ h_req' = h_req /\ known' = known
      /\ h_req \in PlainRequests /\ EchoNotes
  BY DEF ApiInv, DevInv, DevType, HostInv, HostType, Device, api_process, hostVars, EchoInv
<1>2. /\ Asked(api_op_str_wr, API_EP_ECHO) /\ Verdict(h_req) = 0 /\ EchoWrites'
      /\ h_req.op = api_op_str_wr /\ h_req.ep = API_EP_ECHO
  BY <1>1 DEF EchoWrites, Asked, Begun, Verdict, buf_sz
<1>3. d \in Seq(Nat) /\ Len(d) \in Nat /\ Len(d) # 0
  BY <1>1, <1>2, RequestFacts, EchoVerdict
<1>4. CASE AskGoesOn
  <2>1. pkt \in Header /\ Callback(pkt, up, FALSE) /\ state # "idle"
        /\ current_op(pkt) = api_op_str_wr
    BY <1>2, <1>4 DEF AskGoesOn
  <2>2. api_str_buf_wr(pkt, up, FALSE)
    <3> HIDE DEF pkt
    <3> QED
      BY <2>1, StreamWriteCalled
  <2>3. Store(pkt, up, echo, ctx.len)
    BY <1>1, <2>2 DEF api_str_buf_wr, BUG
  <2>4. state = "processing" /\ ProcessingOK
    <3>1. state = "responding" => RespondingOK
      BY <1>1 DEF DevInv
    <3>2. RespondingOK => current_op(pkt) \in {api_op_info, api_op_buf_rd, api_op_str_rd}
      BY DEF RespondingOK
    <3>3. state = "processing"
      BY <1>1, <2>1, <3>1, <3>2 DEF DevType, api_op_info, api_op_buf_rd, api_op_str_rd,
                                    api_op_str_wr
    <3> QED
      BY <1>1, <3>3 DEF DevInv
  <2>5. Len(R) = 0
    <3>1. AskTaken
      BY <1>1, <2>4 DEF HostInv, Asks, AskWaits, AskAnswered
    <3> QED
      BY <3>1 DEF AskTaken
  <2>6. PICK done \in Nat, stored \in Nat : EchoTakes(done, stored)
    BY <2>4 DEF EchoInv, EchoStored
  <2>7. /\ ctx.len \in Nat /\ ctx.len <= pkt.data_len /\ Len(echo.data) + ctx.len <= ECHO_BUF_SZ
        /\ pkt.data_len > 0
    <3>1. pkt.op = api_op_str_wr
      BY <2>1, <2>4, OpCases DEF ProcessingOK, api_op_buf_wr, api_op_str_wr
    <3>2. Need = pkt.data_len
      BY <2>1, <2>4 DEF Need, api_op_buf_wr, api_op_str_wr
    <3>3. pkt.op # api_op_buf_wr
      BY <3>1 DEF api_op_buf_wr, api_op_str_wr
    <3>4. /\ ctx.len <= pkt.data_len /\ Len(echo.data) + ctx.len <= ECHO_BUF_SZ /\ Need > 0
      BY <2>4, <3>3, Zenon DEF ProcessingOK
    <3>5. ctx.len \in Nat
      BY <1>1 DEF DevType
    <3> QED
      BY <3>2, <3>4, <3>5
  <2>8. up \o h_out = Drop(d, done)
    BY <1>1, <2>4, <2>6, QType DEF EchoTakes
  <2>9. echo \in [data : Seq(Nat), read : Nat] /\ echo.read <= Len(echo.data)
    BY <1>1 DEF DevType, EchoFits
  <2>10. known.sure => Drop(echo.data, echo.read) = known.echo \o Take(d, stored)
    BY <2>6 DEF EchoTakes, EchoHas, Unread
  <2>11. /\ done + pkt.data_len = Len(d) /\ stored + ctx.len = pkt.p1 /\ pkt.p1 <= Len(d)
         /\ ctx.len > 0 => stored = done
         /\ EchoGrows(pkt.p1)
    BY <2>6 DEF EchoTakes
  <2> HIDE DEF pkt
  <2> DEFINE l == ctx.len
             e == echo
  <2>12. /\ pkt \in Header /\ l \in Nat /\ e \in [data : Seq(Nat), read : Nat]
         /\ pkt.data_len > 0 /\ l <= pkt.data_len /\ e.read <= Len(e.data)
         /\ Len(e.data) + l <= ECHO_BUF_SZ
         /\ stored + l = pkt.p1 /\ (l > 0 => stored = done)
         /\ (known.sure => Drop(e.data, e.read) = known.echo \o Take(d, stored))
         /\ Store(pkt, up, e, l)
    BY <2>1, <2>3, <2>7, <2>9, <2>10, <2>11
  <2> HIDE DEF l, e
  <2>13. EchoStored' /\ EchoStores'
    BY <1>1, <1>2, <2>5, <2>8, <2>11, <2>12, EchoStep
  <2> QED
    BY <1>1, <2>13, EchoWriteMade
<1>5. ASSUME NEW p, NEW in, AskBegins(p, in)
      PROVE  EchoInv'
  <2>1. /\ p \in Header /\ p.op < api_op_resp /\ p.op = api_op_str_wr /\ p.ep = h_req.ep
        /\ p.data_len = Len(d) /\ Len(R) = 0 /\ state = "idle" /\ current_op(p) = p.op
        /\ in \in Seq(Nat) /\ in \o h_out = d
    BY <1>2, <1>5, OpCases DEF AskBegins, AsksFor
  <2>2. Callback(p, in, TRUE)
    BY <1>1, <1>2, <1>5, AskTakes
  <2>3. api_str_buf_wr(p, in, TRUE)
    BY <2>1, <2>2, StreamWriteCalled
  <2> DEFINE e == EchoForWrite
             l == MIN_(ECHO_BUF_SZ - Len(e.data), p.data_len)
             q == [p EXCEPT !.p1 = l]
  <2>4. Store(q, in, e, l)
    BY <2>3 DEF api_str_buf_wr
  <2>5. /\ echo.data \in Seq(Nat) /\ echo.read \in Nat /\ echo.read <= Len(echo.data)
        /\ Len(echo.data) <= ECHO_BUF_SZ /\ Unread \in Seq(Nat)
        /\ echo \in [data : Seq(Nat), read : Nat] /\ ECHO_BUF_SZ \in Nat /\ ECHO_BUF_SZ > 0
    <3>1. /\ echo.read <= Len(echo.data) /\ Len(echo.data) <= ECHO_BUF_SZ
          /\ echo \in [data : Seq(Nat), read : Nat]
      BY <1>1 DEF DevType, EchoFits
    <3>2. echo.data \in Seq(Nat) /\ echo.read \in Nat /\ Unread \in Seq(Nat)
      BY <1>1, EchoFacts
    <3>3. ECHO_BUF_SZ \in Nat /\ ECHO_BUF_SZ > 0
      BY DeviceAssumption
    <3> QED
      BY <3>1, <3>2, <3>3
  <2>6. /\ e \in [data : Seq(Nat), read : Nat] /\ e.read <= Len(e.data)
        /\ Len(e.data) <= ECHO_BUF_SZ /\ Drop(e.data, e.read) = Unread
        /\ Unread = << >> => Len(e.data) = 0
    <3>1. CASE Unread = << >>
      <4>1. e = [data |-> << >>, read |-> 0]
        BY <3>1 DEF EchoForWrite
      <4>2. << >> \in Seq(Nat) /\ Len(<< >>) = 0
        OBVIOUS
      <4>3. Drop(<< >>, 0) = << >>
        BY <4>2, DropNone
      <4> QED
        BY <2>5, <3>1, <4>1, <4>2, <4>3
    <3>2. CASE Unread # << >>
      <4>1. e = echo
        BY <3>2 DEF EchoForWrite
      <4> QED
        BY <2>5, <3>2, <4>1 DEF Unread
    <3> QED
      BY <3>1, <3>2
  <2> HIDE DEF e
  <2>7. /\ l \in Nat /\ l <= p.data_len /\ Len(e.data) + l <= ECHO_BUF_SZ
        /\ Len(e.data) = 0 => l > 0
    <3> DEFINE M == Len(e.data)
               N == p.data_len
    <3>1. M \in Nat /\ N \in Nat /\ N # 0 /\ M <= ECHO_BUF_SZ /\ l = MIN_(ECHO_BUF_SZ - M, N)
      BY <1>3, <2>1, <2>6
    <3> HIDE DEF M, N, l
    <3>2. l \in Nat /\ l <= N /\ M + l <= ECHO_BUF_SZ /\ (M = 0 => l > 0)
      BY <2>5, <3>1 DEF MIN_
    <3> QED
      BY <3>2 DEF M, N
  <2> HIDE DEF l
  <2>8. q \in Header /\ q.p1 = l /\ q.data_len = Len(d)
    BY <2>1, <2>7 DEF Header
  <2> HIDE DEF q
  <2>9. known.sure => known.echo = Unread
    <3>1. PICK b \in Nat : EchoAt(b)
      BY DEF EchoInv, Over, Asking
    <3>2. ~EchoStores /\ ~EchoReads
      BY <1>2, <2>1 DEF EchoStores, EchoReads, Asked, api_op_str_rd, api_op_str_wr
    <3>3. b + 0 = b
      OBVIOUS
    <3> QED
      BY <3>1, <3>2, <3>3 DEF EchoAt, EchoSent, Unread
  <2> DEFINE done   == 0
             stored == 0
  <2>10. /\ done \in Nat /\ stored \in Nat /\ done + q.data_len = Len(d) /\ stored + l = q.p1
         /\ q.p1 <= Len(d) /\ (l > 0 => stored = done) /\ q.data_len > 0 /\ l <= q.data_len
    BY <1>3, <2>1, <2>7, <2>8
  <2>11. in \o h_out = Drop(d, done)
    BY <1>3, <2>1, DropNone
  <2>12. known.sure => Drop(e.data, e.read) = known.echo \o Take(d, stored)
    <3>1. Take(d, 0) = << >>
      BY SubSeqEmpty DEF Take
    <3>2. known.echo \in Seq(Nat)
      BY <1>1 DEF EchoNotes
    <3>3. known.echo \o << >> = known.echo
      BY <3>2, ConcatEmptySeq
    <3> QED
      BY <2>6, <2>9, <3>1, <3>3
  <2>13. EchoGrows(q.p1)
    BY <2>6, <2>7, <2>8, <2>9 DEF EchoGrows
  <2> HIDE DEF done, stored
  <2>14. EchoStored' /\ EchoStores'
    BY <1>1, <1>2, <2>1, <2>4, <2>6, <2>7, <2>8, <2>10, <2>11, <2>12, <2>13, EchoStep
  <2> QED
    BY <1>1, <2>14, EchoWriteMade
<1> QED
  BY <1>4, <1>5

(* ... a read, ...                                                         *)
LEMMA EchoReadStep ==
  ASSUME ApiInv, ApiInv', Follows, EchoInv, Device, h_state \in Asking,
         AskGoesOn \/ \E p, in : AskBegins(p, in), EchoReads
  PROVE  EchoInv'
<1> DEFINE src == echo.data
<1>1. /\ DevInv /\ DevType /\ HostType /\ HostInv /\ EchoFits /\ HasRoom
      /\ DevType' /\ HostType' /\ ~halted'
      /\ UNCHANGED <<h_queue, hostVars>> /\ UNCHANGED hostVars
      /\ h_state' = h_state /\ h_req' = h_req /\ known' = known
      /\ h_req \in PlainRequests /\ EchoNotes
  BY DEF ApiInv, DevInv, HostInv, HostType, Device, api_process, hostVars, EchoInv
<1>2. /\ Begun /\ Begun' /\ Sent \in Nat /\ Sent' \in Nat
      /\ Len(R) <= HDR => Sent = 0
      /\ Len(R) >= HDR => Len(R) = HDR + Sent
      /\ Len(R') >= HDR => Len(R') = HDR + Sent'
  BY <1>1, SentMeanwhile
<1>3. /\ Asked(api_op_str_rd, API_EP_ECHO) /\ Verdict(h_req) = 0 /\ EchoReads'
      /\ h_req.op = api_op_str_rd /\ h_req.ep = API_EP_ECHO
      /\ ~EchoWrites /\ ~EchoWrites' /\ ~EchoStores /\ ~EchoStores'
  BY <1>1 DEF EchoReads, EchoWrites, EchoStores, Asked, Begun, Verdict, buf_sz,
              api_op_str_rd, api_op_str_wr
<1>4. EchoSent = Sent /\ EchoSent' = Sent'
  BY <1>3 DEF EchoSent
<1>5. PICK b \in Nat : EchoAt(b)
  BY DEF EchoInv, Over, Asking
<1>6. /\ src \in Seq(Nat) /\ echo.read \in Nat /\ Len(src) \in Nat /\ echo.read <= Len(src)
      /\ echo \in [data : Seq(Nat), read : Nat]
      /\ Unread \in Seq(Nat) /\ Len(Unread) = Len(src) - echo.read
      /\ h_req.p2 \in Nat
  <2>1. echo \in [data : Seq(Nat), read : Nat] /\ echo.read <= Len(src)
    BY <1>1 DEF DevType, EchoFits
  <2>2. h_req.p2 \in Nat
    BY <1>1, RequestFacts
  <2> QED
    BY <1>1, <2>1, <2>2, EchoFacts
<1>7. known.sure => known.echo = Drop(src, b)
  BY <1>3, <1>5 DEF EchoAt
<1>8. ASSUME echo'.data = src, echo'.read = b + Sent', Copies(R', HDR, src, b, Sent'),
             R'[7] = MIN_(h_req.p2, Len(src) - b), R'[5] + R'[7] = Len(src) - b
      PROVE  EchoInv'
  <2>1. EchoAt(b)'
    <3>1. Copies(R, HDR, echo.data, b, Sent)'
      BY <1>8 DEF Copies
    <3>2. known'.sure => known'.echo = Drop(echo.data, b)'
      BY <1>1, <1>7, <1>8 DEF Drop
    <3> QED
      BY <1>1, <1>4, <1>8, <3>1, <3>2 DEF EchoAt
  <2>2. EchoNotes' /\ EchoStored'
    BY <1>1, <1>3 DEF EchoNotes, EchoStored
  <2> QED
    BY <2>1, <2>2 DEF EchoInv
<1>9. CASE AskGoesOn
  <2>1. /\ pkt \in Header /\ Callback(pkt, up, FALSE) /\ state # "idle"
        /\ current_op(pkt) = api_op_str_rd /\ pkt.ep = API_EP_ECHO
    BY <1>3, <1>9 DEF AskGoesOn
  <2>2. api_str_buf_rd(pkt, FALSE)
    <3> HIDE DEF pkt
    <3>1. \/ pkt.ep = API_EP_ECHO /\ api_str_buf_rd(pkt, FALSE)
          \/ pkt.ep = API_EP_SEQ /\ api_str_seq_rd(pkt, FALSE)
      BY <2>1, StreamReadCalled
    <3>2. pkt.ep # API_EP_SEQ
      BY <2>1 DEF API_EP_SEQ, API_EP_ECHO
    <3> QED
      BY <3>1, <3>2
  <2>3. state = "responding" /\ RespondingOK
    <3>1. state = "processing" => ProcessingOK
      BY <1>1 DEF DevInv
    <3>2. ProcessingOK => pkt.op \in {api_op_buf_wr, api_op_str_wr}
      BY DEF ProcessingOK
    <3>3. pkt.op \in {api_op_buf_wr, api_op_str_wr} => current_op(pkt) # api_op_str_rd
      BY DEF current_op, api_op_buf_wr, api_op_str_wr, api_op_str_rd, api_op_resp
    <3>4. state = "responding"
      BY <1>1, <2>1, <3>1, <3>2, <3>3 DEF DevType
    <3> QED
      BY <1>1, <3>4 DEF DevInv
  <2>4. /\ ctx.len \in Nat /\ echo.read + ctx.len <= Len(src)
        /\ Send(pkt, FALSE, src, echo.read, ctx.len)
        /\ echo' = [echo EXCEPT !.read = echo.read + Fits(FALSE, ctx.len)]
    <3>1. echo.read + ctx.len <= Len(src)
      BY <2>1, <2>3 DEF RespondingOK, api_op_info, api_op_buf_rd, api_op_str_rd,
                        API_EP_SEQ, API_EP_ECHO
    <3>2. ReadTo(pkt, FALSE) = echo.read + Fits(FALSE, ctx.len)
      BY DEF ReadTo
    <3>3. /\ Send(pkt, FALSE, src, echo.read, ctx.len)
          /\ echo' = [echo EXCEPT !.read = ReadTo(pkt, FALSE)]
      BY <1>1, <2>2 DEF api_str_buf_rd, BUG
    <3> QED
      BY <1>1, <3>1, <3>2, <3>3 DEF DevType
  <2>5. Len(R) >= HDR /\ Len(R) \in Nat
    <3>1. AskAnswered
      BY <1>1, <2>3 DEF HostInv, Asks, AskWaits, AskTaken
    <3> QED
      BY <1>1, <3>1, QType DEF AskAnswered, Answer
  <2>6. /\ Copies(R, HDR, src, b, Sent) /\ echo.read = b + Sent
        /\ R[7] = MIN_(h_req.p2, Len(src) - b) /\ R[5] + R[7] = Len(src) - b
    <3>1. Len(R) > 0 /\ EchoReads
      BY <2>5 DEF HDR
    <3> QED
      BY <1>4, <1>5, <3>1 DEF EchoAt
  <2> HIDE DEF pkt, src
  <2> DEFINE off == echo.read
             len == ctx.len
  <2>7. /\ off \in Nat /\ len \in Nat /\ src \in Seq(Nat) /\ off + len <= Len(src)
        /\ Send(pkt, FALSE, src, off, len)
        /\ DevInv /\ HostType /\ UNCHANGED <<h_queue, hostVars>> /\ HasRoom
    BY <1>1, <1>6, <2>4
  <2> HIDE DEF off, len
  <2>8. \E n \in 0 .. len :
           /\ n = Fits(FALSE, len) /\ ctx' = [off |-> off + n, len |-> len - n]
           /\ Len(R') = Len(R) + n
           /\ Copies(R', 0, R, 0, Len(R)) /\ Copies(R', Len(R), src, off, n)
    BY <2>7, SentMore
  <2>8a. \A n \in 0 .. len : n \in Nat
    BY <2>7
  <2>9. PICK n \in Nat :
           /\ n = Fits(FALSE, len) /\ ctx' = [off |-> off + n, len |-> len - n]
           /\ Len(R') = Len(R) + n
           /\ Copies(R', 0, R, 0, Len(R)) /\ Copies(R', Len(R), src, off, n)
    BY <2>8, <2>8a, Zenon
  <2> DEFINE k == Sent
             l == Len(R)
             old == R
             new == R'
  <2>10. /\ b \in Nat /\ k \in Nat /\ n \in Nat /\ l \in Nat /\ l = HDR + k /\ off = b + k
         /\ Copies(old, HDR, src, b, k)
         /\ Copies(new, 0, old, 0, l) /\ Copies(new, l, src, off, n)
    BY <1>2, <2>5, <2>6, <2>9 DEF off
  <2>11. Sent' = k + n
    <3>0. Len(R') = l + n
      BY <2>9, Zenon
    <3>1. HDR \in Nat /\ Len(R') >= HDR
      BY <2>10, <3>0 DEF HDR
    <3>2. Len(R') = HDR + Sent' /\ Sent' \in Nat
      BY <1>2, <3>1
    <3> HIDE DEF k, l
    <3> QED
      BY <2>10, <3>0, <3>1, <3>2
  <2>12. /\ echo'.data = src /\ echo'.read = b + (k + n)
    <3> DEFINE to == off + n
    <3>1. echo' = [echo EXCEPT !.read = to]
      BY <2>4, <2>9 DEF off, len
    <3>2. to \in Nat /\ to = b + (k + n)
      <4> HIDE DEF k, l
      <4> QED
        BY <2>10
    <3> HIDE DEF to
    <3>3. echo'.data = echo.data /\ echo'.read = to
      BY <1>6, <3>1
    <3> QED
      BY <3>2, <3>3 DEF src
  <2>13. R'[5] = R[5] /\ R'[7] = R[7]
    <3>1. 5 \in 1 .. Len(R) /\ 7 \in 1 .. Len(R) /\ 0 + 5 = 5 /\ 0 + 7 = 7
      BY <2>5 DEF HDR
    <3>2. Copies(R', 0, R, 0, Len(R))
      BY <2>9, Zenon
    <3> QED
      BY <3>1, <3>2 DEF Copies
  <2> HIDE DEF k, l, old, new
  <2>14. Copies(new, l, src, b + k, n)
    BY <2>10
  <2>15. Copies(new, HDR, src, b, k + n)
    BY <2>10, <2>14, PiecesJoin
  <2> QED
    BY <1>8, <2>6, <2>11, <2>12, <2>13, <2>15 DEF new, src
<1>10. ASSUME NEW p, NEW in, AskBegins(p, in)
       PROVE  EchoInv'
  <2>1. /\ p \in Header /\ p.op < api_op_resp /\ p.op = api_op_str_rd /\ p.ep = API_EP_ECHO
        /\ p.p2 = h_req.p2 /\ Len(R) = 0 /\ current_op(p) = p.op
    BY <1>3, <1>10, OpCases DEF AskBegins, AsksFor
  <2>2. Callback(p, in, TRUE)
    BY <1>1, <1>3, <1>10, AskTakes
  <2>3. api_str_buf_rd(p, TRUE)
    <3>1. \/ p.ep = API_EP_ECHO /\ api_str_buf_rd(p, TRUE)
          \/ p.ep = API_EP_SEQ /\ api_str_seq_rd(p, TRUE)
      BY <2>1, <2>2, StreamReadCalled
    <3>2. p.ep # API_EP_SEQ
      BY <2>1 DEF API_EP_SEQ, API_EP_ECHO
    <3> QED
      BY <3>1, <3>2
  <2>4. Sent = 0 /\ echo.read = b
    <3>1. Sent = 0
      BY <1>2, <2>1 DEF HDR
    <3> QED
      BY <1>4, <1>5, <3>1 DEF EchoAt
  <2> DEFINE len == MIN_(Len(Unread), p.p2)
             q   == [p EXCEPT !.p1 = Len(Unread) - len]
  <2>5. /\ Send(q, TRUE, echo.data, echo.read, len)
        /\ echo' = [echo EXCEPT !.read = echo.read + Fits(TRUE, len)]
    BY <2>3 DEF api_str_buf_rd, ReadTo
  <2>6. /\ len \in Nat /\ echo.read + len <= Len(src) /\ Len(Unread) - len \in Nat
        /\ len = MIN_(h_req.p2, Len(src) - b) /\ (Len(Unread) - len) + len = Len(src) - b
    <3> DEFINE L == Len(src)
               P == p.p2
    <3>1. /\ L \in Nat /\ b <= L /\ P \in Nat /\ Len(Unread) = L - b /\ P = h_req.p2
      BY <1>6, <2>1, <2>4
    <3> HIDE DEF L, P, src
    <3>2. /\ MIN_(L - b, P) \in Nat /\ b + MIN_(L - b, P) <= L /\ (L - b) - MIN_(L - b, P) \in Nat
          /\ MIN_(L - b, P) = MIN_(P, L - b)
          /\ ((L - b) - MIN_(L - b, P)) + MIN_(L - b, P) = L - b
      BY <3>1 DEF MIN_
    <3> QED
      BY <2>4, <3>1, <3>2 DEF L, P
  <2> HIDE DEF len
  <2>7. q \in Header /\ q.p1 = Len(Unread) - len
    BY <2>1, <2>6 DEF Header
  <2> HIDE DEF q, src
  <2> DEFINE off == echo.read
  <2>8. /\ off \in Nat /\ len \in Nat /\ src \in Seq(Nat) /\ off + len <= Len(src)
        /\ q \in Header /\ Send(q, TRUE, src, off, len)
        /\ DevInv /\ HostType /\ UNCHANGED <<h_queue, hostVars>> /\ HasRoom /\ Len(R) = 0
    BY <1>1, <1>6, <2>1, <2>5, <2>6, <2>7 DEF src
  <2> HIDE DEF off
  <2>9. \E n \in 0 .. len :
           /\ n = Fits(TRUE, len) /\ ctx' = [off |-> off + n, len |-> len - n]
           /\ Len(R') = HDR + n /\ R'[5] = q.p1 /\ R'[7] = len
           /\ Copies(R', HDR, src, off, n)
    BY <2>8, SentFirst
  <2>9a. \A n \in 0 .. len : n \in Nat
    BY <2>8
  <2>10. PICK n \in Nat :
           /\ n = Fits(TRUE, len) /\ ctx' = [off |-> off + n, len |-> len - n]
           /\ Len(R') = HDR + n /\ R'[5] = q.p1 /\ R'[7] = len
           /\ Copies(R', HDR, src, off, n)
    BY <2>9, <2>9a, Zenon
  <2>11. Sent' = n
    <3>0. Len(R') = HDR + n
      BY <2>10, Zenon
    <3>1. HDR \in Nat /\ Len(R') >= HDR
      BY <3>0 DEF HDR
    <3>2. Len(R') = HDR + Sent' /\ Sent' \in Nat
      BY <1>2, <3>1
    <3> QED
      BY <3>0, <3>1, <3>2
  <2>12. /\ echo'.data = src /\ echo'.read = b + n
    <3> DEFINE to == b + n
    <3>1. echo' = [echo EXCEPT !.read = to]
      BY <2>4, <2>5, <2>10
    <3> HIDE DEF to
    <3>2. echo'.data = echo.data /\ echo'.read = to
      BY <1>6, <3>1
    <3> QED
      BY <3>2 DEF src, to
  <2>13. Copies(R', HDR, src, b, n)
    BY <2>4, <2>10 DEF off
  <2>14. R'[7] = MIN_(h_req.p2, Len(src) - b) /\ R'[5] + R'[7] = Len(src) - b
    BY <2>6, <2>7, <2>10
  <2> QED
    BY <1>8, <2>11, <2>12, <2>13, <2>14 DEF src
<1> QED
  BY <1>9, <1>10

(* ... or anything else.                                                   *)
LEMMA EchoOtherStep ==
  ASSUME ApiInv, ApiInv', Follows, EchoInv, Device, h_state \in Asking,
         AskGoesOn \/ \E p, in : AskBegins(p, in), ~EchoReads, ~EchoWrites
  PROVE  EchoInv'
<1>1. /\ DevInv /\ HostType /\ h_state' = h_state /\ h_req' = h_req /\ known' = known
      /\ Begun /\ Begun' /\ EchoNotes
  BY DEF ApiInv, HostInv, Device, hostVars, Begun, EchoInv
<1>2. Verdict(h_req)' = Verdict(h_req)
  BY <1>1 DEF Verdict, buf_sz
<1>3. ~EchoReads' /\ ~EchoWrites' /\ ~EchoStores' /\ ~EchoStores
  BY <1>1, <1>2 DEF EchoReads, EchoWrites, EchoStores, Asked
<1>4. Verdict(h_req) = 0 =>
        h_req.op # api_op_str_wr /\ ~(h_req.op = api_op_str_rd /\ h_req.ep = API_EP_ECHO)
  BY <1>1, EchoVerdict DEF EchoWrites, EchoReads, Asked
<1>5. echo' = echo
  <2>1. CASE AskGoesOn
    <3>1. /\ Callback(pkt, up, FALSE) /\ current_op(pkt) # api_op_str_wr
          /\ ~(current_op(pkt) = api_op_str_rd /\ pkt.ep = API_EP_ECHO)
      BY <1>4, <2>1 DEF AskGoesOn
    <3> HIDE DEF pkt
    <3> QED
      BY <3>1, OtherEndpoints
  <2>2. ASSUME NEW p, NEW in, AskBegins(p, in)
        PROVE  echo' = echo
    <3>1. CASE UNCHANGED epVars
      BY <3>1 DEF epVars
    <3>2. CASE Verdict(h_req) = 0 /\ Callback(p, in, TRUE)
      <4>1. current_op(p) = h_req.op /\ p.ep = h_req.ep
        BY <2>2, OpCases DEF AskBegins, AsksFor
      <4>2. /\ current_op(p) # api_op_str_wr
            /\ ~(current_op(p) = api_op_str_rd /\ p.ep = API_EP_ECHO)
        BY <1>4, <3>2, <4>1
      <4> QED
        BY <3>2, <4>2, OtherEndpoints
    <3> QED
      BY <1>1, <2>2, <3>1, <3>2, AskTakes
  <2> QED
    BY <2>1, <2>2
<1>6. PICK b \in Nat : EchoAt(b)
  BY DEF EchoInv, Over, Asking
<1>7. EchoAt(b)'
  <2>1. EchoSent = 0 /\ EchoSent' = 0
    BY <1>3 DEF EchoSent
  <2>2. Drop(echo.data, b)' = Drop(echo.data, b)
    BY <1>5 DEF Drop
  <2> QED
    BY <1>1, <1>3, <1>5, <1>6, <2>1, <2>2 DEF EchoAt
<1> QED
  BY <1>1, <1>3, <1>7 DEF EchoInv, EchoNotes, EchoStored

(* While nothing is under way, the echo endpoint is as the program has     *)
(* left it.                                                                *)
LEMMA EchoAtRest ==
  ASSUME NEW b \in Nat, EchoAt(b), ~EchoStores, EchoSent = 0,
         known' = known, echo' = echo, state' = "idle", Len(R') = 0
  PROVE  EchoAt(b)'
<1>1. EchoSent' = 0
  BY DEF EchoSent, Sent, HDR
<1>2. Drop(echo.data, b)' = Drop(echo.data, b)
  BY DEF Drop
<1> QED
  BY <1>1, <1>2 DEF EchoAt

LEMMA EchoDevice ==
  ASSUME ApiInv, ApiInv', Follows, EchoInv, Device
  PROVE  EchoInv'
<1>1. /\ h_state' = h_state /\ h_req' = h_req /\ known' = known
      /\ (Begun <=> h_state \in Asking \cup {"answered"})
      /\ (Begun' <=> h_state' \in Asking \cup {"answered"}) /\ DevType' /\ EchoNotes
  BY DEF Device, hostVars, Begun, ApiInv, DevInv, EchoInv
<1>2. EchoNotes'
  BY <1>1 DEF EchoNotes
<1>3. CASE h_state \in Over
  <2>1. ~Begun' /\ h_state' \in Over
    BY <1>1, <1>3 DEF Over, Asking
  <2> QED
    BY <1>2, <2>1 DEF EchoInv, EchoStored, EchoWrites
<1>4. CASE h_state \in Opening
  <2>1. ~Begun' /\ ~EchoReads' /\ ~EchoWrites'
    BY <1>1, <1>4 DEF Opening, Asking, EchoReads, EchoWrites
  <2>2. ~known'.sure
    <3>1. known = KnowsNothing
      BY <1>4 DEF Follows
    <3> QED
      BY <1>1, <3>1 DEF KnowsNothing
  <2>3. PICK b \in Nat : b = echo'.read
    BY <1>1 DEF DevType
  <2>4. b + 0 = b
    OBVIOUS
  <2>5. EchoAt(b)'
    BY <2>1, <2>2, <2>3, <2>4 DEF EchoAt, EchoSent
  <2> QED
    BY <1>2, <2>1, <2>5 DEF EchoInv, EchoStored
<1>5. CASE h_state \in Asking
  <2>1. CASE AskSkips
    <3>1. state = "idle" /\ state' = "idle" /\ R' = R /\ Len(R) = 0 /\ echo' = echo
      BY <2>1 DEF AskSkips, epVars
    <3>2. ~EchoStores /\ EchoSent = 0 /\ Len(R') = 0
      BY <3>1 DEF EchoStores, EchoSent, Sent, HDR
    <3>3. PICK b \in Nat : EchoAt(b)
      BY <1>5 DEF EchoInv, Over, Asking
    <3>4. EchoAt(b)'
      BY <1>1, <3>1, <3>2, <3>3, EchoAtRest
    <3>5. EchoStored'
      BY <3>1, <3>2 DEF EchoStored
    <3> QED
      BY <1>2, <3>4, <3>5 DEF EchoInv
  <2>2. CASE AskGoesOn \/ \E p, in : AskBegins(p, in)
    BY <1>5, <2>2, EchoReadStep, EchoWriteStep, EchoOtherStep
  <2> QED
    BY <1>5, <2>1, <2>2, AskStep
<1> QED
  BY <1>3, <1>4, <1>5, DeviceWaits

(* What the program makes of the answer.                                   *)
LEMMA EchoUse ==
  ASSUME ApiInv, ApiInv', Follows, EchoInv, Use
  PROVE  EchoInv'
<1>1. /\ HostType /\ DevType /\ EchoFits /\ EchoNotes
      /\ h_state = "answered" /\ h_state' = "ready" /\ echo' = echo /\ h_req' = h_req
  BY DEF Use, devVars, epVars, ApiInv, DevInv, HostInv, EchoInv
<1>2. ~Begun' /\ h_state \notin Over
  BY <1>1 DEF Begun, Asking, Over
<1>3. /\ Begun /\ Verdict(h_req) = 0 /\ Len(R) > 0 /\ R = h_in
      /\ payload \in Seq(Nat) /\ Len(payload) = Sent /\ Sent = h_in[7] /\ answer.p1 = h_in[5]
  BY <1>1, AnswerRead DEF HDR
<1>4. /\ known'.echo =
           IF Asked(api_op_str_wr, API_EP_ECHO) /\ known.sure
           THEN known.echo \o Take(h_req.data, answer.p1)
           ELSE IF Asked(api_op_str_rd, API_EP_ECHO) /\ known.sure
           THEN Drop(known.echo, Len(payload)) ELSE known.echo
      /\ known'.sure =
           IF Asked(api_op_str_rd, API_EP_ECHO)
           THEN known.sure \/ answer.p1 = 0 ELSE known.sure
  BY UseKnown
<1>5. PICK b \in Nat : EchoAt(b)
  BY <1>2 DEF EchoInv
<1>6. /\ echo.data \in Seq(Nat) /\ echo.read \in Nat /\ echo.read <= Len(echo.data)
      /\ Unread \in Seq(Nat) /\ Unread = Drop(echo.data, echo.read)
  BY <1>1, EchoFacts DEF EchoFits, Unread
<1>7. ASSUME known'.sure => known'.echo = Unread, known'.sure \in BOOLEAN,
             ~known'.sure => known'.echo = << >>
      PROVE  EchoInv'
  <2>1. EchoNotes'
    <3>1. known'.echo \in Seq(Nat)
      <4>1. CASE known'.sure
        BY <1>6, <1>7, <4>1
      <4>2. CASE ~known'.sure
        <5>1. << >> \in Seq(Nat)
          OBVIOUS
        <5> QED
          BY <1>7, <4>2, <5>1
      <4> QED
        BY <4>1, <4>2
    <3>2. known'.sure \in BOOLEAN /\ (~known'.sure => known'.echo = << >>)
      BY <1>7, Zenon
    <3> QED
      BY <3>1, <3>2 DEF EchoNotes
  <2>2. ~EchoReads' /\ ~EchoWrites' /\ ~EchoStores'
    BY <1>2 DEF EchoReads, EchoWrites, EchoStores
  <2>3. PICK t \in Nat : t = echo.read
    BY <1>6
  <2>4. t + 0 = t
    OBVIOUS
  <2>5. EchoAt(t)'
    <3>1. Drop(echo.data, t)' = Drop(echo.data, t)
      BY <1>1 DEF Drop
    <3> QED
      BY <1>1, <1>6, <1>7, <2>2, <2>3, <2>4, <3>1 DEF EchoAt, EchoSent
  <2> QED
    BY <2>1, <2>2, <2>5 DEF EchoInv, EchoStored
<1>8. CASE Asked(api_op_str_wr, API_EP_ECHO)
  <2>1. EchoWrites /\ ~Asked(api_op_str_rd, API_EP_ECHO)
    BY <1>3, <1>8 DEF EchoWrites, Asked, api_op_str_rd, api_op_str_wr
  <2>2. known'.sure = known.sure
    BY <1>4, <2>1
  <2>3. EchoHas(R[5])
    BY <1>3, <2>1 DEF EchoInv, EchoStored
  <2>4. known.sure => known'.echo = Unread
    BY <1>3, <1>4, <1>8, <2>3 DEF EchoHas
  <2>5. ~known.sure => known'.echo = known.echo
    BY <1>4, <2>1
  <2> QED
    BY <1>1, <1>7, <2>2, <2>4, <2>5 DEF EchoNotes
<1>9. CASE Asked(api_op_str_rd, API_EP_ECHO)
  <2>1. EchoReads /\ ~EchoStores /\ ~Asked(api_op_str_wr, API_EP_ECHO)
    BY <1>3, <1>9 DEF EchoReads, EchoStores, EchoWrites, Asked, api_op_str_rd, api_op_str_wr
  <2> DEFINE n == Sent
             L == Len(echo.data)
  <2>2. /\ echo.read = b + n /\ n \in Nat /\ L \in Nat /\ b + n <= L
        /\ R[5] + n = L - b
        /\ known.sure => known.echo = Drop(echo.data, b)
    <3>1. echo.read = b + n /\ (known.sure => known.echo = Drop(echo.data, b))
          /\ R[5] + R[7] = L - b
      BY <1>3, <1>5, <2>1 DEF EchoAt, EchoSent
    <3> QED
      BY <1>3, <1>6, <3>1
  <2>3. CASE known.sure
    <3>1. known'.sure = TRUE /\ known'.echo = Drop(known.echo, n)
      BY <1>3, <1>4, <1>9, <2>1, <2>3
    <3> HIDE DEF n, L
    <3>2. Drop(Drop(echo.data, b), n) = Drop(echo.data, b + n)
      BY <1>6, <2>2, DropDrop DEF L
    <3>3. known'.echo = Unread
      BY <1>6, <2>2, <2>3, <3>1, <3>2
    <3> QED
      BY <1>7, <3>1, <3>3
  <2>4. CASE ~known.sure
    <3>1. known.echo = << >> /\ known'.echo = << >>
      BY <1>1, <1>4, <2>1, <2>4 DEF EchoNotes
    <3>2. known'.sure = (answer.p1 = 0)
      BY <1>4, <1>9, <2>4
    <3>3. answer.p1 = R[5]
      BY <1>3
    <3>4. known'.sure => Unread = << >>
      <4>1. R[5] = 0 => b + n = L
        <5> HIDE DEF n, L
        <5> QED
          BY <2>2
      <4>2. known'.sure => echo.read = Len(echo.data)
        BY <2>2, <3>2, <3>3, <4>1
      <4>3. Drop(echo.data, Len(echo.data)) = << >>
        BY <1>6, DropNone
      <4> QED
        BY <1>6, <4>2, <4>3
    <3> QED
      BY <1>7, <3>1, <3>2, <3>4
  <2> QED
    BY <2>3, <2>4, <1>1 DEF EchoNotes
<1>10. CASE ~Asked(api_op_str_wr, API_EP_ECHO) /\ ~Asked(api_op_str_rd, API_EP_ECHO)
  <2>1. known'.echo = known.echo /\ known'.sure = known.sure
    BY <1>4, <1>10
  <2>2. ~EchoStores /\ ~EchoReads
    BY <1>10 DEF EchoStores, EchoWrites, EchoReads
  <2>3. b + 0 = b
    OBVIOUS
  <2>4. known.sure => known.echo = Unread
    BY <1>5, <1>6, <2>2, <2>3 DEF EchoAt, EchoSent
  <2> QED
    BY <1>1, <1>7, <2>1, <2>4 DEF EchoNotes
<1> QED
  BY <1>8, <1>9, <1>10

LEMMA NextEchoInv ==
  ASSUME ApiInv, ApiInv', Follows, EchoInv, [Next]_vars
  PROVE  EchoInv'
<1>1. /\ DevType /\ DevType' /\ EchoNotes
  BY DEF ApiInv, DevInv, EchoInv
<1>2. CASE Quiet
  <2>1. /\ h_req' = h_req /\ known' = known /\ echo' = echo
        /\ state' = state /\ ctx' = ctx /\ pkt_buf' = pkt_buf
        /\ h_state \notin Over /\ (Begun' <=> Begun) /\ (Begun => Q' = Q /\ R' = R)
    BY <1>2 DEF Quiet, epVars, apiVars
  <2>2. Sent' = Sent /\ pkt' = pkt /\ Unread' = Unread
    BY <2>1 DEF Sent, pkt, Unread
  <2>3. /\ (EchoReads' <=> EchoReads) /\ (EchoWrites' <=> EchoWrites)
    BY <2>1 DEF EchoReads, EchoWrites, Asked, Verdict, buf_sz
  <2>4. EchoSent' = EchoSent /\ (EchoStores' <=> EchoStores)
    <3>1. EchoWrites \/ EchoReads => R' = R
      BY <2>1 DEF EchoWrites, EchoReads
    <3> QED
      BY <2>1, <2>2, <2>3, <3>1 DEF EchoSent, EchoStores
  <2>5. PICK b \in Nat : EchoAt(b)
    BY <2>1 DEF EchoInv
  <2>6. EchoAt(b)'
    <3>1. Drop(echo.data, b)' = Drop(echo.data, b)
      BY <2>1 DEF Drop
    <3>2. EchoReads => R' = R
      BY <2>1 DEF EchoReads
    <3>3. EchoReads => (Copies(R, HDR, echo.data, b, Sent)' <=> Copies(R, HDR, echo.data, b, Sent))
      BY <2>1, <2>2, <3>2 DEF Copies
    <3> QED
      BY <2>1, <2>3, <2>4, <2>5, <3>1, <3>2, <3>3 DEF EchoAt
  <2>7. EchoStored'
    <3> SUFFICES ASSUME EchoWrites'
                 PROVE  /\ state' = "processing" => \E a, c \in Nat : EchoTakes(a, c)'
                        /\ Len(R') > 0 => /\ R'[5] <= Len(h_req'.data)
                                          /\ EchoHas(R[5])' /\ EchoGrows(R[5])'
      BY DEF EchoStored
    <3>1. EchoWrites /\ Q' = Q /\ R' = R
      BY <2>1, <2>3 DEF EchoWrites
    <3>2. EchoStored
      BY DEF EchoInv
    <3>3. ASSUME state' = "processing"
          PROVE  \E a, c \in Nat : EchoTakes(a, c)'
      <4>1. PICK a \in Nat, c \in Nat : EchoTakes(a, c)
        BY <2>1, <3>1, <3>2, <3>3 DEF EchoStored
      <4>2. EchoTakes(a, c)'
        <5>1. EchoHas(c)' <=> EchoHas(c)
          BY <2>1, <2>2 DEF EchoHas
        <5>2. EchoGrows(pkt.p1)' <=> EchoGrows(pkt.p1)
          BY <2>1, <2>2 DEF EchoGrows
        <5>3. Drop(h_req.data, a)' = Drop(h_req.data, a)
          BY <2>1 DEF Drop
        <5> QED
          BY <2>1, <2>2, <3>1, <4>1, <5>1, <5>2, <5>3 DEF EchoTakes
      <4> QED
        BY <4>1, <4>2
    <3>4. (EchoHas(R[5])' <=> EchoHas(R[5])) /\ (EchoGrows(R[5])' <=> EchoGrows(R[5]))
      BY <2>1, <2>2, <3>1 DEF EchoHas, EchoGrows
    <3> QED
      BY <2>1, <3>1, <3>2, <3>3, <3>4 DEF EchoStored
  <2> QED
    BY <1>1, <2>1, <2>6, <2>7 DEF EchoInv, EchoNotes
<1>3. CASE Ends
  <2>1. h_state' \in Over /\ ~Begun' /\ known' = known
    BY <1>3 DEF Ends, Begun, Over, Asking
  <2> QED
    BY <1>1, <2>1 DEF EchoInv, EchoNotes, EchoStored, EchoWrites
<1>4. CASE Open
  <2>1. /\ ~Begun' /\ ~known'.sure /\ known'.echo = << >> /\ known'.sure \in BOOLEAN
        /\ echo' = echo
    BY <1>4 DEF Open, Begun, Asking, KnowsNothing, devVars, epVars
  <2>2. ~EchoReads' /\ ~EchoWrites'
    BY <2>1 DEF EchoReads, EchoWrites
  <2>3. PICK b \in Nat : b = echo'.read
    BY <1>1 DEF DevType
  <2>4. b + 0 = b /\ << >> \in Seq(Nat)
    OBVIOUS
  <2>5. EchoAt(b)'
    BY <2>1, <2>2, <2>3, <2>4 DEF EchoAt, EchoSent
  <2> QED
    BY <2>1, <2>2, <2>4, <2>5 DEF EchoInv, EchoNotes, EchoStored
<1>5. CASE Ask
  <2>1. /\ h_state \in {"flushed", "ready"} /\ echo' = echo /\ known' = known
        /\ state' = "idle" /\ Len(R') = 0 /\ ~Begun
    BY <1>5, AskFresh DEF epVars
  <2>2. ~EchoStores /\ EchoSent = 0
    BY <2>1 DEF EchoStores, EchoWrites, EchoSent, EchoReads
  <2>3. PICK b \in Nat : EchoAt(b)
    BY <2>1 DEF EchoInv, Over
  <2>4. EchoAt(b)'
    BY <2>1, <2>2, <2>3, EchoAtRest
  <2>5. EchoStored'
    BY <2>1 DEF EchoStored
  <2> QED
    BY <1>1, <2>1, <2>4, <2>5 DEF EchoInv, EchoNotes
<1> QED
  BY <1>2, <1>3, <1>4, <1>5, EchoUse, EchoDevice, HostSteps

LEMMA InitEchoInv ==
  ASSUME Init
  PROVE  EchoInv
<1>1. h_state \in Over /\ ~Begun /\ known = KnowsNothing
  BY DEF Init, Over, Begun, Asking
<1>2. known.echo = << >> /\ known.sure = FALSE /\ << >> \in Seq(Nat)
  BY <1>1 DEF KnowsNothing
<1> QED
  BY <1>1, <1>2 DEF EchoInv, EchoNotes, EchoStored, EchoWrites

LEMMA EchoHolds ==
  ASSUME ApiInv, Follows, EchoInv
  PROVE  EchoStreamOK
<1> SUFFICES ASSUME h_state = "answered", known.sure
             PROVE  /\ Asked(api_op_str_wr, API_EP_ECHO) =>
                         /\ answer.p1 <= Len(h_req.data)
                         /\ known.echo = << >> => answer.p1 > 0
                    /\ Asked(api_op_str_rd, API_EP_ECHO) =>
                         /\ payload = Take(known.echo, MIN_(h_req.p2, Len(known.echo)))
                         /\ answer.p1 = Len(known.echo) - Len(payload)
  BY DEF EchoStreamOK
<1>1. /\ HostType /\ DevType /\ EchoFits /\ Verdict(h_req) = 0 /\ Begun
      /\ Len(R) > 0 /\ R = h_in /\ answer.p1 = h_in[5]
      /\ payload \in Seq(Nat) /\ Len(payload) = Sent /\ Sent = h_in[7]
      /\ \A i \in 1 .. Sent : payload[i] = R[HDR + i]
  BY AnswerRead DEF ApiInv, DevInv, HostInv, HDR
<1>2. ASSUME Asked(api_op_str_wr, API_EP_ECHO)
      PROVE  answer.p1 <= Len(h_req.data) /\ (known.echo = << >> => answer.p1 > 0)
  <2>1. EchoWrites
    BY <1>1, <1>2 DEF EchoWrites
  <2>2. R[5] <= Len(h_req.data) /\ EchoGrows(R[5])
    BY <1>1, <2>1 DEF EchoInv, EchoStored
  <2> QED
    BY <1>1, <2>2 DEF EchoGrows
<1>3. ASSUME Asked(api_op_str_rd, API_EP_ECHO)
      PROVE  /\ payload = Take(known.echo, MIN_(h_req.p2, Len(known.echo)))
             /\ answer.p1 = Len(known.echo) - Len(payload)
  <2>1. EchoReads /\ ~EchoStores
    BY <1>1, <1>3 DEF EchoReads, EchoStores, EchoWrites, Asked, api_op_str_rd, api_op_str_wr
  <2>2. PICK b \in Nat : EchoAt(b)
    BY DEF EchoInv, Over
  <2> DEFINE src == echo.data
             n   == Len(payload)
             m   == Len(known.echo)
  <2>3. /\ src \in Seq(Nat) /\ Len(src) \in Nat /\ n \in Nat /\ h_req.p2 \in Nat
        /\ echo.read <= Len(src)
    BY <1>1, EchoFacts, RequestFacts DEF EchoFits, HostType
  <2>4. /\ echo.read = b + n /\ known.echo = Drop(src, b)
        /\ Copies(R, HDR, src, b, n) /\ n = MIN_(h_req.p2, Len(src) - b)
        /\ R[5] + n = Len(src) - b
    BY <1>1, <2>1, <2>2 DEF EchoAt, EchoSent
  <2>5. b <= Len(src) /\ b + n <= Len(src)
    BY <2>3, <2>4
  <2>6. /\ known.echo \in Seq(Nat) /\ m = Len(src) - b
        /\ \A i \in 1 .. Len(src) - b : known.echo[i] = src[b + i]
    <3>1. src \in Seq(Nat) /\ b \in Nat /\ b <= Len(src)
      BY <2>3, <2>5, Zenon
    <3> HIDE DEF src
    <3>2. /\ Drop(src, b) \in Seq(Nat) /\ Len(Drop(src, b)) = Len(src) - b
          /\ \A i \in 1 .. Len(src) - b : Drop(src, b)[i] = src[b + i]
      BY <3>1, DropFacts
    <3>3. known.echo = Drop(src, b)
      BY <2>4, Zenon
    <3> QED
      BY <3>2, <3>3 DEF m
  <2> HIDE DEF n, m, src
  <2>7. n = MIN_(h_req.p2, m) /\ n <= m /\ m \in Nat
    BY <2>3, <2>4, <2>5, <2>6
  <2>8. /\ Take(known.echo, n) \in Seq(Nat) /\ Len(Take(known.echo, n)) = n
        /\ \A i \in 1 .. n : Take(known.echo, n)[i] = known.echo[i]
    BY <2>3, <2>6, <2>7, TakeFacts DEF m
  <2>9. ASSUME NEW i \in 1 .. n
        PROVE  payload[i] = Take(known.echo, n)[i]
    <3>1. payload[i] = R[HDR + i]
      BY <1>1 DEF n
    <3>2. R[HDR + i] = src[b + i]
      BY <2>4 DEF Copies
    <3>3. i \in 1 .. Len(src) - b
      BY <2>3, <2>6, <2>7
    <3>4. known.echo[i] = src[b + i]
      BY <2>6, <3>3
    <3> QED
      BY <2>8, <3>1, <3>2, <3>4
  <2>10. payload = Take(known.echo, n)
    <3>1. Len(payload) = Len(Take(known.echo, n)) /\ payload \in Seq(Nat)
      BY <1>1, <2>8 DEF n
    <3>2. \A i \in 1 .. Len(payload) : payload[i] = Take(known.echo, n)[i]
      BY <2>9 DEF n
    <3> QED
      BY <2>8, <3>1, <3>2, SameSeq
  <2>11. answer.p1 = m - n
    <3>1. h_in \in Seq(Nat) /\ Len(h_in) >= HDR
      BY AnswerRead
    <3>2. R[5] \in Nat
      BY <1>1, <3>1 DEF HDR
    <3>3. answer.p1 = R[5] /\ R[5] + n = Len(src) - b /\ m = Len(src) - b
      BY <1>1, <2>4, <2>6
    <3>4. answer.p1 = R[5] /\ R[5] + n = m /\ R[5] \in Nat /\ n \in Nat /\ m \in Nat
      BY <2>3, <2>7, <3>2, <3>3
    <3> QED
      BY <3>4
  <2> QED
    BY <2>7, <2>10, <2>11 DEF n, m
<1> QED
  BY <1>2, <1>3

(* All of it together: what is on the way, and what it says.               *)
ContentInv == ApiInv /\ Follows /\ SeqInv /\ BufInv /\ EchoInv

LEMMA InitContentInv ==
  ASSUME Init
  PROVE  ContentInv
BY InitApiInv, InitContent, InitBufInv, InitEchoInv DEF ContentInv

LEMMA NextContentInv ==
  ASSUME ContentInv, [Next]_vars, astray' = {}
  PROVE  ContentInv'
<1>1. ApiInv /\ Follows /\ SeqInv /\ BufInv /\ EchoInv
  BY DEF ContentInv
<1>2. ApiInv'
  BY <1>1, NextApiInv
<1>3. Follows'
  BY <1>1, <1>2, NextFollows
<1>4. SeqInv'
  BY <1>1, <1>2, NextSeqInv
<1>5. BufInv'
  BY <1>1, <1>2, NextBufInv
<1>6. EchoInv'
  BY <1>1, <1>2, NextEchoInv
<1> QED
  BY <1>2, <1>3, <1>4, <1>5, <1>6 DEF ContentInv

(* ContentInv holds in every reachable state until something leads astray. *)
THEOREM ContentInvariant ==
  Spec => [](astray = {} => ContentInv)
<1>1. Init => (astray = {} => ContentInv)
  BY InitContentInv
<1>2. (astray = {} => ContentInv) /\ [Next]_vars => (astray = {} => ContentInv)'
  BY NextContentInv, StaysAstray
<1> QED
  BY <1>1, <1>2, PTL DEF Spec

(* A read of the sequence gets all the bytes it asked for, each following  *)
(* the one before, and the first of them following the last of the         *)
(* program's read before, however often a full pipe interrupts an answer.  *)
THEOREM SequenceGoesOn ==
  Spec => [](astray = {} => SequenceOK)
<1>1. ContentInv => SequenceOK
  BY SeqHolds DEF ContentInv
<1> QED
  BY <1>1, ContentInvariant, PTL

(* A buffer reads as it was last written, byte by byte, and the descriptor *)
(* as it is; an access the device accepts lies within its buffer.          *)
THEOREM BuffersHold ==
  Spec => [](astray = {} => BufferOK)
<1>1. ContentInv => BufferOK
  BY BufHolds DEF ContentInv
<1> QED
  BY <1>1, ContentInvariant, PTL

(* Once a program has found the echo stream empty, it reads what it has    *)
(* written from then on, in order and once; the device says how much of a  *)
(* payload it has stored, and how much is left to read.                    *)
THEOREM EchoKept ==
  Spec => [](astray = {} => EchoStreamOK)
<1>1. ContentInv => EchoStreamOK
  BY EchoHolds DEF ContentInv
<1> QED
  BY <1>1, ContentInvariant, PTL
=============================================================================
