------------------------------ MODULE ApiHost -------------------------------
(***************************************************************************)
(* The packet API in use: the host's side of it (tools/elink_api.py over   *)
(* tools/elink_serial.py), the host's driver, and the device of ApiDevice. *)
(*                                                                         *)
(* A program opens the port, flushes it, verifies the device and then      *)
(* sends one request after the other, each with send_packet, until it ends *)
(* or is ended: by an exception, which no tool catches once it has found   *)
(* its device, or by force, at any point of a request.  The next program   *)
(* finds the device as the last one has left it.                           *)
(***************************************************************************)
EXTENDS ApiDevice

CONSTANTS
  Requests,     (* the requests programs send: records [op, ep, p1, p2,    *)
                (* data], where p1 and p2 are the parameters               *)
  FLUSH_LEN,    (* bytes flush writes: max_write                           *)
  QUEUE_SIZE,   (* bytes the driver's receive queue takes, and bytes flush *)
                (* reads: max_read                                         *)
  SN_MOD,       (* sequence numbers: 256                                   *)
  MaxSessions,  (* bound: programs run one after the other                 *)
  MaxRequests   (* bound: requests in all                                  *)

ASSUME HostAssumption ==
  /\ FLUSH_LEN \in Nat /\ FLUSH_LEN >= HDR
  /\ QUEUE_SIZE \in Nat /\ QUEUE_SIZE > HDR + 1 /\ QUEUE_SIZE > HDR + Len(SYS_DESCR)
  /\ SN_MOD \in Byte \ {0}
  /\ MaxSessions \in Nat
  /\ MaxRequests \in Nat
  /\ \A r \in Requests :
       /\ r.op \in 0 .. api_op_resp - 1
       /\ r.ep \in Byte /\ r.p1 \in Byte /\ r.p2 \in Byte
       /\ r.data \in Seq(Byte) /\ Len(r.data) \in Byte
       /\ Len(r.data) <= FLUSH_LEN      (* max_buff < max_write             *)

VARIABLES
  h_state,    (* where the program is, see below                           *)
  h_out,      (* bytes still to be written                                 *)
  h_queue,    (* the driver's receive queue                                *)
  h_in,       (* bytes read of the response                                *)
  h_req,      (* the request                                               *)
  last_sn,    (* self.last_sn                                              *)
  known,      (* what the program knows of the endpoints, see below        *)
  sessions,   (* programs begun                                            *)
  requests,   (* requests begun                                            *)
  astray      (* history, which no action reads: what has happened so far  *)
              (* after which nobody can tell where the protocol goes       *)

hostVars == <<h_state, h_out, h_in, h_req, last_sn, known, sessions, requests, astray>>
vars     == <<devVars, h_queue, hostVars>>

NONE == -1

(* No program runs: none has begun, it has ended, the device has refused a *)
(* request, or it has answered something else than was asked.              *)
Over == {"closed", "refused", "mismatch"}

(* flush writes and reads (then the program is "flushed", and "ready" once *)
(* it has verified the device); sending a request, reading the header and  *)
(* the payload of the response (then it is "answered").                    *)
Opening == {"flush", "drain"}
Asking  == {"write", "header", "payload"}

(* What elink_api_open asks first. *)
Verify == [op |-> api_op_buf_rd, ep |-> API_EP_SYS, p1 |-> 0,
           p2 |-> Len(SYS_DESCR), data |-> << >>]

(* echo: the unread bytes of the echo endpoint, and sure whether it knows  *)
(* them; next: the byte of the sequence it expects, app: the bytes of the  *)
(* application's buffer, or NONE.                                          *)
KnowsNothing ==
  [echo |-> << >>, sure |-> FALSE, next |-> NONE, app |-> [i \in 1 .. APP_SZ |-> NONE]]

Init ==
  /\ DeviceInit
  /\ h_state = "closed"
  /\ h_out = << >>
  /\ h_queue = << >>
  /\ h_in = << >>
  /\ h_req = Verify
  /\ last_sn = 0
  /\ known = KnowsNothing
  /\ sessions = 0
  /\ requests = 0
  /\ astray = {}

-----------------------------------------------------------------------------
(* The program                                                             *)

(* elink_api_open, and the write of flush.  Opening the port discards what *)
(* the driver has queued.                                                  *)
Open ==
  /\ h_state \in Over
  /\ sessions < MaxSessions
  /\ sessions' = sessions + 1
  /\ h_state' = "flush"
  /\ h_out' = [i \in 1 .. FLUSH_LEN |-> api_op_resp]
  /\ h_queue' = << >>
  /\ h_in' = << >>
  /\ h_req' = Verify
  /\ last_sn' = 0
  /\ known' = KnowsNothing
  /\ UNCHANGED <<devVars, requests, astray>>

(* A byte reaches the device. *)
Write ==
  /\ h_out # << >>
  /\ Len(up) < UP_SIZE
  /\ up' = Append(up, Head(h_out))
  /\ h_out' = Tail(h_out)
  /\ h_state' = IF Len(h_out) > 1 THEN h_state
                ELSE IF h_state = "flush" THEN "drain" ELSE "header"
  /\ UNCHANGED <<down, apiVars, epVars, h_queue, h_in, h_req, last_sn,
                 known, sessions, requests, astray>>

(* The driver polls the device as long as the port is open.                *)
Poll ==
  LET n == MIN_(Len(down), QUEUE_SIZE - Len(h_queue))
  IN /\ h_state \notin Over
     /\ n > 0
     /\ h_queue' = h_queue \o Take(down, n)
     /\ down' = Drop(down, n)
     /\ UNCHANGED <<up, apiVars, epVars, hostVars>>

(* Nothing will come from the device until something is written to it.     *)
Silent ==
  /\ down = << >> /\ h_queue = << >>
  /\ \/ halted
     \/ state = "idle" /\ Len(up) + Len(pkt_buf) < HDR
     \/ state # "idle" /\ is_write_op(current_op(Fields(pkt_buf))) /\ up = << >>

(* The read of flush ends when it has all it asked for, or when nothing    *)
(* comes any more: com_timeout is far longer than the device takes.        *)
Drain ==
  /\ h_state = "drain"
  /\ LET n == MIN_(Len(h_queue), QUEUE_SIZE - Len(h_in))
     IN /\ n > 0
        /\ h_queue' = Drop(h_queue, n)
        /\ h_in' = IF Len(h_in) + n < QUEUE_SIZE THEN h_in \o Take(h_queue, n) ELSE << >>
        /\ h_state' = IF Len(h_in) + n < QUEUE_SIZE THEN "drain" ELSE "flushed"
  /\ UNCHANGED <<devVars, h_out, h_req, last_sn, known, sessions, requests, astray>>

DrainTimeout ==
  /\ h_state = "drain"
  /\ Silent
  /\ h_state' = "flushed"
  /\ h_in' = << >>
  /\ UNCHANGED <<devVars, h_queue, h_out, h_req, last_sn, known, sessions, requests, astray>>

-----------------------------------------------------------------------------
(* What leads the protocol astray                                          *)

(* The requests that are in order, and the verdict on the others.          *)
Verdict(r) ==
  IF is_data_write_op(r.op) # (r.data # << >>) THEN api_fl_err_sz
  ELSE IF r.ep \notin DOMAIN EpOps THEN api_fl_err_ep
  ELSE IF r.op \notin EpOps[r.ep] THEN api_fl_err_op
  ELSE IF r.op \in {api_op_buf_rd, api_op_buf_wr} /\ r.p1 + r.p2 > buf_sz(r.ep)
       THEN api_fl_err_sz
  ELSE IF r.op = api_op_buf_wr /\ r.p2 # Len(r.data) THEN api_fl_err_sz
  ELSE 0

(* Making a request: it is refused and leaves its payload where a header   *)
(* is expected; it reads no bytes of the sequence, which halts the device  *)
(* (api_str_seq.c:38); its region's end wraps around (api_buf.c:22, 47),   *)
(* or would with a length of flush bytes; or its answer could not be       *)
(* drained by one flush.                                                   *)
StraysBy(r) ==
  {why \in {"payload", "empty read", "wrap", "long"} :
     CASE why = "payload"    -> r.data # << >> /\ Verdict(r) # 0
       [] why = "empty read" -> r.op = api_op_str_rd /\ r.ep = API_EP_SEQ /\ r.p2 = 0
       [] why = "wrap"       -> /\ r.op \in {api_op_buf_rd, api_op_buf_wr}
                                /\ r.p1 + r.p2 >= WORD \/ r.p1 + api_op_resp >= WORD
       [] why = "long"       -> HDR + r.p2 >= QUEUE_SIZE}

(* The header of a write cut behind its endpoint, while a flush is shorter *)
(* than what it takes then: its bytes fill the header up, its length       *)
(* included, and are awaited as the payload as well.                       *)
TornBy(out) ==
  LET missing == Len(out) - Len(h_req.data)
  IN {why \in {"torn header"} :
        /\ h_state = "write" /\ is_data_write_op(h_req.op)
        /\ missing \in 1 .. HDR - 2
        /\ FLUSH_LEN < missing + api_op_resp}

-----------------------------------------------------------------------------
(* The program's requests                                                  *)

(* wr_packet.                                                              *)
wr_packet(r) ==
  /\ requests < MaxRequests
  /\ requests' = requests + 1
  /\ last_sn' = (last_sn + 1) % SN_MOD
  /\ h_req' = r
  /\ h_out' = Bytes([op |-> r.op, ep |-> r.ep, flags |-> 0, sn |-> last_sn',
                     p1 |-> r.p1, p2 |-> r.p2, data_len |-> Len(r.data)]) \o r.data
  /\ h_state' = "write"
  /\ astray' = astray \cup StraysBy(r)
  /\ UNCHANGED <<devVars, h_queue, h_in, known, sessions>>

(* The first request of a session is the one verify makes. *)
Ask ==
  \/ h_state = "flushed" /\ wr_packet(Verify)
  \/ h_state = "ready" /\ \E r \in Requests : wr_packet(r)

(* What send_packet makes of a header: an exception, or it reads on.       *)
HeaderVerdict(h) ==
  IF h.sn # last_sn THEN "mismatch"
  ELSE IF h.flags % api_op_resp # 0 THEN "refused" ELSE "payload"

(* Reading the header of the response, and judging it.                     *)
ReadHeader ==
  /\ h_state = "header"
  /\ h_queue # << >>
  /\ LET n == MIN_(Len(h_queue), HDR - Len(h_in))
     IN /\ h_queue' = Drop(h_queue, n)
        /\ h_in' = h_in \o Take(h_queue, n)
        /\ h_state' = IF Len(h_in') < HDR THEN "header"
                      ELSE HeaderVerdict(Fields(h_in'))
  /\ UNCHANGED <<devVars, h_out, h_req, last_sn, known, sessions, requests, astray>>

(* Reading the payload.  rd_buff insists on its length.                    *)
ReadPayload ==
  /\ h_state = "payload"
  /\ LET len == Fields(h_in).data_len
         n   == MIN_(Len(h_queue), HDR + len - Len(h_in))
     IN /\ n > 0 \/ len = 0
        /\ h_queue' = Drop(h_queue, n)
        /\ h_in' = h_in \o Take(h_queue, n)
        /\ h_state' = IF Len(h_in') < HDR + len THEN "payload"
                      ELSE IF h_req.op = api_op_buf_rd /\ len # h_req.p2 THEN "mismatch"
                      ELSE "answered"
  /\ UNCHANGED <<devVars, h_out, h_req, last_sn, known, sessions, requests, astray>>

(* The response. *)
answer  == Fields(h_in)
payload == Drop(h_in, HDR)

Asked(op, ep) == h_req.op = op /\ h_req.ep = ep

(* The slots of the application's buffer a request is about. *)
Region(r) == r.p1 + 1 .. r.p1 + r.p2

(* The program takes note of the response.                                 *)
Use ==
  /\ h_state = "answered"
  /\ h_state' = "ready"
  /\ h_in' = << >>
  /\ known' =
       CASE Asked(api_op_str_wr, API_EP_ECHO) /\ known.sure ->
              [known EXCEPT !.echo = @ \o Take(h_req.data, answer.p1)]
         [] Asked(api_op_str_rd, API_EP_ECHO) ->
              [known EXCEPT !.echo = IF known.sure THEN Drop(@, Len(payload)) ELSE @,
                            !.sure = @ \/ answer.p1 = 0]
         [] Asked(api_op_str_rd, API_EP_SEQ) /\ payload # << >> ->
              [known EXCEPT !.next = (payload[Len(payload)] + 1) % (SEQ_MAX + 1)]
         [] Asked(api_op_buf_wr, API_EP_APP) ->
              [known EXCEPT !.app = [i \in 1 .. APP_SZ |->
                 IF i \in Region(h_req) THEN h_req.data[i - h_req.p1] ELSE @[i]]]
         [] OTHER -> known
  /\ UNCHANGED <<devVars, h_queue, h_out, h_req, last_sn, sessions, requests, astray>>

(* The program ends, on its own or by force. *)
Exit ==
  /\ h_state \notin Over
  /\ h_state' = "closed"
  /\ h_out' = << >>
  /\ h_in' = << >>
  /\ astray' = astray \cup TornBy(h_out)
  /\ UNCHANGED <<devVars, h_queue, h_req, last_sn, known, sessions, requests>>

Device == api_process /\ UNCHANGED <<h_queue, hostVars>>

Next ==
  \/ Device \/ Poll
  \/ Open \/ Write \/ Drain \/ DrainTimeout \/ Ask
  \/ ReadHeader \/ ReadPayload \/ Use \/ Exit

Spec == Init /\ [][Next]_vars

(* The device's main loop runs for ever, the driver polls while the port   *)
(* is open, and a call of the host's library goes on.  Nothing says that a *)
(* program asks anything, nor that it ends.                                *)
Fairness ==
  /\ WF_vars(Device) /\ WF_vars(Poll) /\ WF_vars(Write)
  /\ WF_vars(Drain) /\ WF_vars(DrainTimeout)
  /\ WF_vars(ReadHeader) /\ WF_vars(ReadPayload)

FairSpec == Spec /\ Fairness

-----------------------------------------------------------------------------
(* What the properties say holds whatever programs did before, as long as  *)
(* nothing has led the protocol astray (astray = {}): so ApiProofs proves  *)
(* it, for all constants.  Where a run checks a property as it stands, its *)
(* requests and its flush lead nowhere astray that would break it.         *)

(* No assertion of the device's fires, whatever is left in the pipe by a   *)
(* program that was ended, and wherever a call stops for want of data or   *)
(* room: not those of the callbacks, nor that a response fits (api.c:201), *)
(* nor that a request under way has a whole header (api.c:187).            *)
NoBug ==
  /\ ~halted
  /\ Len(down) <= DOWN_SIZE
  /\ state # "idle" => Len(pkt_buf) = HDR

(* Between two requests nothing is under way, and nothing is left in the   *)
(* pipes but flush bytes too few to be looked at: the next byte the host   *)
(* sends is taken for the first one of a header, although the session may  *)
(* have begun in the middle of a request of another program.               *)
Aligned ==
  /\ state = "idle" /\ pkt_buf = << >>
  /\ down = << >> /\ h_queue = << >>
  /\ Len(up) < HDR
  /\ \A i \in 1 .. Len(up) : IsResponse(up[i])

InSync == h_state \in {"flushed", "ready"} => Aligned

(* "the sequence of bytes with response bit set will flush receiver        *)
(* provided that the sequence length exceeds max message length"           *)
FlushResyncs == h_state = "flushed" => Aligned

(* A response is the one to the request just sent, and tells whether the   *)
(* request was in order, and if not why.                                   *)
OwnAnswer ==
  /\ h_state # "mismatch"
  /\ h_state \in {"answered", "refused"} =>
       /\ answer.op = h_req.op + api_op_resp
       /\ answer.ep = h_req.ep
       /\ answer.flags = Verdict(h_req)

(* What is read from the echo endpoint is what was stored in it, in order, *)
(* and the device says how much is left ("assert buff[:written] == read"). *)
EchoStreamOK ==
  h_state = "answered" /\ known.sure =>
    /\ Asked(api_op_str_wr, API_EP_ECHO) =>
         answer.p1 <= Len(h_req.data) /\ (known.echo = << >> => answer.p1 > 0)
    /\ Asked(api_op_str_rd, API_EP_ECHO) =>
         /\ payload = Take(known.echo, MIN_(h_req.p2, Len(known.echo)))
         /\ answer.p1 = Len(known.echo) - Len(payload)

(* The sequence goes on where the last response left it.                   *)
SequenceOK ==
  h_state = "answered" /\ Asked(api_op_str_rd, API_EP_SEQ) =>
    /\ Len(payload) = h_req.p2
    /\ \A i \in 1 .. Len(payload) - 1 :
         payload[i + 1] = (payload[i] + 1) % (SEQ_MAX + 1)
    /\ known.next # NONE /\ payload # << >> => payload[1] = known.next

(* A buffer reads as it was written, and the descriptor as it is, and what *)
(* is accepted lies inside of its buffer: until somebody asks for a region *)
(* whose end wraps around.  The device accepts some of those, against its  *)
(* "Region of interest within buffer address space" (api_pkt.h:60).        *)
BufferOK ==
  "wrap" \notin astray /\ h_state = "answered" =>
    /\ h_req.op \in {api_op_buf_rd, api_op_buf_wr} =>
         h_req.p1 + h_req.p2 <= buf_sz(h_req.ep)
    /\ Asked(api_op_buf_rd, API_EP_SYS) =>
         payload = SubSeq(SYS_DESCR, h_req.p1 + 1, h_req.p1 + h_req.p2)
    /\ Asked(api_op_buf_rd, API_EP_APP) =>
         \A i \in Region(h_req) :
            known.app[i] # NONE => payload[i - h_req.p1] = known.app[i]

(* Nothing but what astray records breaks the agreement between device and *)
(* host: neither refused, repeated and cut requests, nor a flush that just *)
(* exceeds the longest message.                                            *)
SafeUnlessAstray == astray = {} => NoBug /\ InSync /\ OwnAnswer

(* Opening comes to an end: the host writes its flush while the device may *)
(* still be waiting for room to answer an older request.                   *)
OpeningEnds == h_state \in Opening ~> h_state \notin Opening

(* A request is answered. *)
RequestEnds == h_state \in Asking ~> h_state \notin Asking
=============================================================================
