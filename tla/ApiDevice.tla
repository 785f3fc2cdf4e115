----------------------------- MODULE ApiDevice ------------------------------
(***************************************************************************)
(* The device side of the packet API: common/api.c and the endpoints of    *)
(* api_buf.c, api_str_buf.c and api_str_seq.c, between the two pipes that  *)
(* usb_api.c gives them.  CdcRx and CdcTx show what a pipe is to its user: *)
(* a FIFO of which VCP_Get and VCP_Put move all that was seen to fit.      *)
(*                                                                         *)
(* A byte is a number below 2 * api_op_resp (and flush bytes in all places *)
(* of an offset and a length do not add up to WORD, as they do not in the  *)
(* code: 0x80808080 + 0x8080).  The header has one byte for                *)
(* each field of struct api_pkt, in the order of the structure (the one    *)
(* that is only reserved is left out), so that any misaligned byte can     *)
(* still be taken for any field.  The code gives every operation a bit of  *)
(* its own; here they are numbered.                                        *)
(*                                                                         *)
(* One action is one call of api_process: its samples of the pipes only    *)
(* become better while it runs.                                            *)
(***************************************************************************)
EXTENDS RingBuff, Sequences

api_op_info   == 0
api_op_reg_rd == 1
api_op_reg_wr == 2
api_op_buf_rd == 3
api_op_buf_wr == 4
api_op_str_rd == 5
api_op_str_wr == 6
api_op_resp   == 8       (* the response flag, 0x80                        *)
ALL_ONES      == 2 * api_op_resp - 1

api_fl_err_ep == 1
api_fl_err_op == 2
api_fl_err_sz == 4

API_EP_SYS  == 0         (* the system descriptor, a read-only buffer      *)
API_EP_APP  == 1         (* a buffer an application registers              *)
API_EP_SEQ  == 6         (* the test sequence                              *)
API_EP_ECHO == 7         (* the echo stream                                *)

CONSTANTS
  UP_SIZE,      (* bytes the pipe to the device takes                      *)
  DOWN_SIZE,    (* bytes the pipe from the device takes                    *)
  APP_SZ,       (* size of the application's buffer                        *)
  ECHO_BUF_SZ,  (* size of the echo buffer                                 *)
  CHUNK_SZ,     (* most bytes of the sequence generated by a call          *)
  SEQ_MAX,      (* last byte of the sequence, API_EP_SEQ_MAX               *)
  SYS_DESCR,    (* the bytes of the system descriptor                      *)
  WORD,         (* 2^32: offsets and addresses are computed modulo WORD    *)
  OUTSIDE       (* what may be read outside of a buffer                    *)

HDR == 7                 (* sizeof(struct api_pkt)                         *)

Byte == 0 .. ALL_ONES

ASSUME DeviceAssumption ==
  /\ UP_SIZE \in Nat /\ UP_SIZE >= HDR
  /\ DOWN_SIZE \in Nat /\ DOWN_SIZE >= HDR
  /\ APP_SZ \in Nat \ {0} /\ APP_SZ < WORD
  /\ ECHO_BUF_SZ \in Nat \ {0}
  /\ CHUNK_SZ \in Nat \ {0}
  /\ SEQ_MAX \in Byte
  /\ SYS_DESCR \in Seq(Byte) /\ Len(SYS_DESCR) \in Byte
  /\ WORD \in Nat /\ WORD > 2 * api_op_resp
  /\ OUTSIDE \subseteq Byte

VARIABLES
  up,         (* bytes on their way to the device                          *)
  down,       (* bytes on their way from the device                        *)
  state,      (* api->state                                                *)
  pkt_buf,    (* the valid bytes of api->pkt_buf, which is also api->pkt   *)
  ctx,        (* api->ep_ctx_buf: what is left of the transfer             *)
  app_buf,    (* the application's buffer                                  *)
  echo,       (* the echo buffer: the bytes up to data_size, and read_size *)
  next_n,     (* the next byte of the sequence                             *)
  halted      (* a BUG_ON has fired: dbg_fatal loops for ever              *)

epVars  == <<app_buf, echo, next_n>>
apiVars == <<state, pkt_buf, ctx, halted>>
devVars == <<up, down, apiVars, epVars>>

(* api_init *)
DeviceInit ==
  /\ up = << >>
  /\ down = << >>
  /\ state = "idle"
  /\ pkt_buf = << >>
  /\ ctx = [off |-> 0, len |-> 0]
  /\ app_buf = [i \in 1 .. APP_SZ |-> 0]
  /\ echo = [data |-> << >>, read |-> 0]
  /\ next_n = 0
  /\ halted = FALSE

-----------------------------------------------------------------------------
(* Bytes and headers                                                       *)

Take(s, n) == SubSeq(s, 1, n)
Drop(s, n) == SubSeq(s, n + 1, Len(s))

Fields(s) == [op |-> s[1], ep |-> s[2], flags |-> s[3], sn |-> s[4],
              p1 |-> s[5], p2 |-> s[6], data_len |-> s[7]]
Bytes(p)  == <<p.op, p.ep, p.flags, p.sn, p.p1, p.p2, p.data_len>>

IsResponse(b) == b >= api_op_resp
current_op(p) == p.op % api_op_resp

is_write_op(op)      == op \in {api_op_reg_wr, api_op_buf_wr, api_op_str_wr}
is_data_write_op(op) == op \in {api_op_buf_wr, api_op_str_wr}

(* api->ep and the callbacks each endpoint has (api_init).                 *)
EpOps ==
  [ep \in {API_EP_SYS, API_EP_APP, API_EP_SEQ, API_EP_ECHO} |->
    CASE ep = API_EP_SYS  -> {api_op_info, api_op_buf_rd}
      [] ep = API_EP_APP  -> {api_op_info, api_op_buf_rd, api_op_buf_wr}
      [] ep = API_EP_SEQ  -> {api_op_info, api_op_str_rd}
      [] ep = API_EP_ECHO -> {api_op_info, api_op_str_rd, api_op_str_wr}]

(* The contents of a buffer endpoint, and an endpoint's size.              *)
Buf(ep) == IF ep = API_EP_SYS THEN SYS_DESCR ELSE app_buf

buf_sz(ep) ==
  CASE ep = API_EP_SYS  -> Len(SYS_DESCR)
    [] ep = API_EP_APP  -> APP_SZ
    [] ep = API_EP_SEQ  -> 0
    [] ep = API_EP_ECHO -> ECHO_BUF_SZ

(* Descriptions: one byte is as good as a sentence; the application has    *)
(* given its endpoint none.                                                *)
descr(ep) == IF ep = API_EP_APP THEN << >> ELSE <<ep>>

Room == DOWN_SIZE - Len(down)

-----------------------------------------------------------------------------
(* Ends of an operation                                                    *)

(* The header api_op_responde sends. *)
Response(p, data_len) ==
  Bytes([p EXCEPT !.op = current_op(p) + api_op_resp, !.data_len = data_len])

(* A slip: the header is not forgotten. *)
KeptHeader == state' = "idle" /\ UNCHANGED pkt_buf

api_op_complete ==
  /\ state' = "idle"
  /\ pkt_buf' = << >>

api_op_complete_err(p, err) ==
  /\ down' = down \o Response([p EXCEPT !.flags =
                IF (@ \div err) % 2 = 1 THEN @ ELSE @ + err], 0)
  /\ api_op_complete
  /\ UNCHANGED <<ctx, epVars, halted>>

(* BUG_ON: nothing happens any more. *)
BUG ==
  /\ halted' = TRUE
  /\ UNCHANGED <<down, state, pkt_buf, ctx, epVars>>

-----------------------------------------------------------------------------
(* Endpoint callbacks.  p is the packet, and new says whether this is the  *)
(* first call for it: api_start_ep_req clears api->ep_ctx, and every       *)
(* callback sets it.                                                       *)

(* What the reading callbacks have in common: the header on the first      *)
(* call, then as much of the rest of src as fits, then the end.            *)
Fits(new, len) == MIN_(len, Room - (IF new THEN HDR ELSE 0))

(* A slip: an answer without payload is not taken for complete. *)
SomeSent(n, len) == n = len /\ len > 0

AllSent(n, len) == n = len

Send(p, new, src, off, len) ==
  LET n == Fits(new, len)
  IN /\ down' = down \o (IF new THEN Response(p, len) ELSE << >>)
                     \o SubSeq(src, off + 1, off + n)
     /\ ctx' = [off |-> off + n, len |-> len - n]
     /\ IF AllSent(n, len) THEN api_op_complete
        ELSE /\ state' = "responding"
             /\ pkt_buf' = IF new THEN Response(p, len) ELSE Bytes(p)

(* The mask of operations that info reports as well is left out.           *)
api_ep_info_cb(p, new) ==
  IF new
  THEN /\ Send([p EXCEPT !.p1 = buf_sz(p.ep)], TRUE, descr(p.ep), 0, Len(descr(p.ep)))
       /\ UNCHANGED <<epVars, halted>>
  ELSE IF ctx.len = 0 THEN BUG
  ELSE /\ Send(p, FALSE, descr(p.ep), ctx.off, ctx.len)
       /\ UNCHANGED <<epVars, halted>>

(* The region p asks for does not lie in the buffer.  The sum is one of    *)
(* 32 bits, so a region whose end wraps around may pass.                   *)
OutOfBuffer(p) == (p.p1 + p.p2) % WORD > buf_sz(p.ep)

(* What com->put finds from off on, len bytes long: the buffer or, if the  *)
(* region leaves it, memory as seen from the buffer on with b in all other *)
(* places.  (ctx.off itself is not reduced modulo WORD: addresses are.)    *)
Around(ep, b) ==
  [i \in 1 .. 2 * WORD |-> LET a == (i - 1) % WORD
                           IN IF a < buf_sz(ep) THEN Buf(ep)[a + 1] ELSE b]

Found(ep, off, len) ==
  IF off + len <= buf_sz(ep) THEN {Buf(ep)} ELSE {Around(ep, b) : b \in OUTSIDE}

api_buf_rd(p, new) ==
  IF new
  THEN IF OutOfBuffer(p) THEN api_op_complete_err(p, api_fl_err_sz)
       ELSE /\ \E src \in Found(p.ep, p.p1, p.p2) : Send(p, TRUE, src, p.p1, p.p2)
            /\ UNCHANGED <<epVars, halted>>
  ELSE IF ctx.len = 0 THEN BUG
  ELSE /\ \E src \in Found(p.ep, ctx.off, ctx.len) : Send(p, FALSE, src, ctx.off, ctx.len)
       /\ UNCHANGED <<epVars, halted>>

(* A slip: the offset is forgotten. *)
PlacedAtStart(in, off, n) ==
  [i \in 1 .. APP_SZ |-> IF i \in 1 .. n THEN in[i] ELSE app_buf[i]]

(* The buffer with n bytes placed at off, as far as their addresses are in *)
(* it.  What a write changes in the memory around it no module models.     *)
Placed(in, off, n) ==
  [i \in 1 .. APP_SZ |->
     LET at == {k \in 1 .. n : (off + k - 1) % WORD = i - 1}
     IN IF at = {} THEN app_buf[i] ELSE in[CHOOSE k \in at : TRUE]]

(* com->get and the end of api_buf_wr, with in the bytes that can be read. *)
Fill(p, in, off, len) ==
  LET n == MIN_(len, Len(in))
  IN /\ app_buf' = Placed(in, off, n)
     /\ up' = Drop(in, n)
     /\ ctx' = [off |-> off + n, len |-> len - n]
     /\ IF n = len
        THEN down' = down \o Response(p, 0) /\ api_op_complete
        ELSE state' = "processing" /\ pkt_buf' = Bytes(p) /\ UNCHANGED down
     /\ UNCHANGED <<echo, next_n, halted>>

(* The region does not lie in the buffer or the payload does not fill it.  *)
BadWrite(p) == OutOfBuffer(p) \/ p.data_len # p.p2

api_buf_wr(p, in, new) ==
  IF new
  THEN IF BadWrite(p)
       THEN api_op_complete_err(p, api_fl_err_sz) /\ up' = in
       ELSE Fill(p, in, p.p1, p.p2)
  ELSE IF ctx.len = 0 THEN BUG /\ up' = in
  ELSE Fill(p, in, ctx.off, ctx.len)

(* The unread bytes of the echo buffer. *)
Unread == Drop(echo.data, echo.read)

(* read_size after a call of api_str_buf_rd. *)
ReadTo(p, new) ==
  echo.read + Fits(new, IF new THEN MIN_(Len(Unread), p.p2) ELSE ctx.len)

api_str_buf_rd(p, new) ==
  LET len == MIN_(Len(Unread), p.p2)
  IN IF ~new /\ ctx.len = 0 THEN BUG
     ELSE /\ IF new
             THEN Send([p EXCEPT !.p1 = Len(Unread) - len], TRUE, echo.data, echo.read, len)
             ELSE Send(p, FALSE, echo.data, echo.read, ctx.len)
          /\ echo' = [echo EXCEPT !.read = ReadTo(p, new)]
          /\ UNCHANGED <<app_buf, next_n, halted>>

(* A slip: the buffer is emptied even if it holds unread bytes. *)
AlwaysEmptied == [data |-> << >>, read |-> 0]

(* The echo buffer when a write begins: emptied if all of it has been read. *)
EchoForWrite == IF Unread = << >> THEN [data |-> << >>, read |-> 0] ELSE echo

(* Slips: what does not fit is not skipped, or left in the pipe. *)
StoredOnly(p, len)   == len
AllStored(left, len) == len = 0

(* What to get of a payload of which len bytes are still to be stored; and *)
(* whether it was the last, with left bytes of the payload remaining.      *)
ToTake(p, len)      == IF len > 0 THEN len ELSE p.data_len
AllTaken(left, len) == left = 0

(* com->get and the end of api_str_buf_wr: len bytes are still to be       *)
(* stored in e; the rest of the payload is skipped.                        *)
Store(p, in, e, len) ==
  LET n == MIN_(ToTake(p, len), Len(in))
      left == p.data_len - n
      rest == IF len > 0 THEN len - n ELSE 0
  IN /\ echo' = IF len > 0 THEN [e EXCEPT !.data = @ \o Take(in, n)] ELSE e
     /\ ctx' = [ctx EXCEPT !.len = rest]
     /\ up' = Drop(in, n)
     /\ IF AllTaken(left, rest)
        THEN down' = down \o Response(p, 0) /\ api_op_complete
        ELSE /\ state' = "processing"
             /\ pkt_buf' = Bytes([p EXCEPT !.data_len = left])
             /\ UNCHANGED down
     /\ UNCHANGED <<app_buf, next_n, halted>>

api_str_buf_wr(p, in, new) ==
  IF new
  THEN LET len == MIN_(ECHO_BUF_SZ - Len(EchoForWrite.data), p.data_len)
       IN Store([p EXCEPT !.p1 = len], in, EchoForWrite, len)
  ELSE IF p.data_len = 0 \/ p.data_len < ctx.len THEN BUG /\ up' = in
  ELSE Store(p, in, echo, ctx.len)

(* A slip: the sequence runs on past what could be sent. *)
AdvanceByChunk(chunk, n) == (next_n + chunk) % (SEQ_MAX + 1)

(* next_n after n bytes of a chunk were sent. *)
api_str_seq_advance(chunk, n) == (next_n + n) % (SEQ_MAX + 1)

(* q is the packet once it has been answered.  The answer is sent before   *)
(* the assertion is evaluated, which a read of no bytes does not pass.     *)
api_str_seq_rd(p, new) ==
  LET q     == IF new THEN Fields(Response([p EXCEPT !.p1 = ALL_ONES], p.p2)) ELSE p
      chunk == MIN_(CHUNK_SZ, q.data_len)
      n     == Fits(new, chunk)
      left  == q.data_len - n
  IN /\ down' = down \o (IF new THEN Bytes(q) ELSE << >>)
                     \o [i \in 1 .. n |-> (next_n + i - 1) % (SEQ_MAX + 1)]
     /\ next_n' = api_str_seq_advance(chunk, n)
     /\ halted' = (q.data_len = 0)
     /\ IF left = 0 /\ q.data_len > 0 THEN api_op_complete
        ELSE state' = "responding" /\ pkt_buf' = Bytes([q EXCEPT !.data_len = left])
     /\ UNCHANGED <<ctx, app_buf, echo>>

-----------------------------------------------------------------------------
(* The request machine                                                     *)

(* The callback of p's operation; p.ep is registered and has it.           *)
Callback(p, in, new) ==
  LET op == current_op(p)
  IN \/ op = api_op_info /\ api_ep_info_cb(p, new) /\ up' = in
     \/ op = api_op_buf_rd /\ api_buf_rd(p, new) /\ up' = in
     \/ op = api_op_buf_wr /\ api_buf_wr(p, in, new)
     \/ op = api_op_str_rd /\ p.ep = API_EP_ECHO /\ api_str_buf_rd(p, new) /\ up' = in
     \/ op = api_op_str_rd /\ p.ep = API_EP_SEQ /\ api_str_seq_rd(p, new) /\ up' = in
     \/ op = api_op_str_wr /\ api_str_buf_wr(p, in, new)

(* A payload where there must be none, or the other way round. *)
WrongSize(p) == is_data_write_op(current_op(p)) # (p.data_len # 0)

api_start_ep_req(p, in) ==
  \/ /\ WrongSize(p)
     /\ api_op_complete_err(p, api_fl_err_sz)
     /\ up' = in
  \/ /\ ~WrongSize(p) /\ p.ep \notin DOMAIN EpOps
     /\ api_op_complete_err(p, api_fl_err_ep)
     /\ up' = in
  \/ /\ ~WrongSize(p) /\ p.ep \in DOMAIN EpOps
     /\ current_op(p) \notin EpOps[p.ep]
     /\ api_op_complete_err(p, api_fl_err_op)
     /\ up' = in
  \/ /\ ~WrongSize(p) /\ p.ep \in DOMAIN EpOps
     /\ current_op(p) \in EpOps[p.ep]
     /\ Callback(p, in, TRUE)

(* A slip: every byte is taken for a header's. *)
NothingSkipped(buf) == buf

(* What is left of a header: bytes with the response flag are no header's  *)
(* first byte.                                                             *)
api_skip_invalid_bytes(buf) ==
  LET skipped == {n \in 0 .. Len(buf) : \A i \in 1 .. n : IsResponse(buf[i])}
  IN Drop(buf, CHOOSE n \in skipped : \A k \in skipped : k <= n)

(* Waiting for a header. *)
GetHeader ==
  /\ state = "idle"
  /\ Len(up) + Len(pkt_buf) >= HDR
  /\ LET n    == HDR - Len(pkt_buf)
         buf  == pkt_buf \o Take(up, n)
         in   == Drop(up, n)
         left == api_skip_invalid_bytes(buf)
     IN \/ /\ left # buf
           /\ pkt_buf' = left
           /\ up' = in
           /\ UNCHANGED <<down, state, ctx, halted, epVars>>
        \/ /\ left = buf
           /\ api_start_ep_req(Fields(buf), in)

(* An operation under way. *)
CallEp ==
  /\ state # "idle"
  /\ is_write_op(current_op(Fields(pkt_buf))) => up # << >>
  /\ Callback(Fields(pkt_buf), up, FALSE)

(* Nothing is begun, or gone on with, unless a header can be sent. *)
HasRoom == Room >= HDR

api_process == ~halted /\ HasRoom /\ (GetHeader \/ CallEp)
=============================================================================
