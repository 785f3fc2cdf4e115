------------------------------- MODULE MCApi --------------------------------
(* ApiHost on small instances: the requests of each run.                   *)
EXTENDS ApiHost

Rq(op, ep, p1, p2, data) == [op |-> op, ep |-> ep, p1 |-> p1, p2 |-> p2, data |-> data]

MCSysDescr == <<9, 10>>

(* Payload bytes 6 and 7 can be taken for api_op_str_wr and API_EP_ECHO.   *)
StreamRequests ==
  {Rq(api_op_str_wr, API_EP_ECHO, 0, 0, d) : d \in {<<6>>, <<6, 7>>, <<7, 6, 6>>}}
    \cup {Rq(api_op_str_rd, API_EP_ECHO, 0, n, << >>) : n \in {0, 1, 3}}
    \cup {Rq(api_op_str_rd, API_EP_SEQ, 0, n, << >>) : n \in {1, 3}}

(* Buffers, descriptors, what is refused or wraps around, and a write the  *)
(* echo buffer has no room for.                                            *)
BufferRequests ==
  {Rq(api_op_buf_rd, API_EP_APP, off, 2 - off, << >>) : off \in {0, 1}}
    \cup {Rq(api_op_buf_rd, API_EP_SYS, 1, len, << >>) : len \in {1, 2}}
    \cup {Rq(api_op_buf_wr, API_EP_APP, 0, 2, <<6, 7>>),
          Rq(api_op_buf_wr, API_EP_APP, 1, 1, <<7>>),
          Rq(api_op_buf_wr, API_EP_APP, 1, 2, <<6, 7>>),
          Rq(api_op_buf_wr, API_EP_SYS, 0, 1, <<6, 7>>)}
    \cup {Rq(api_op_buf_rd, API_EP_APP, 15, 3, << >>),
          Rq(api_op_buf_rd, API_EP_SEQ, 0, 1, << >>)}
    \cup {Rq(api_op_info, ep, 0, 0, << >>) : ep \in {API_EP_APP, 2}}
    \cup {Rq(api_op_reg_wr, API_EP_SYS, 0, 0, << >>)}
    \cup {Rq(api_op_str_wr, API_EP_ECHO, 0, 0, <<7, 6, 6>>)}

NoSequence == {Rq(api_op_str_rd, API_EP_SEQ, 0, n, << >>) : n \in {0, 1}}
=============================================================================
